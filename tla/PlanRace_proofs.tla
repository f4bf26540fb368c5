--------------------------- MODULE PlanRace_proofs ---------------------------
(***************************************************************************)
(* TLAPS proofs about PlanRace, for any number of materials, suppliers and *)
(* overlapping overrides: the solver's choice survives them, one that no   *)
(* other overlaps leaves its two suppliers with exact summaries, and       *)
(* without overlap the whole plan is exact.                                *)
(***************************************************************************)
EXTENDS PlanRace, FiniteSetTheorems, WellFoundedInduction, TLAPS

(* The shape of an open request.                                           *)
Request(t) ==
  /\ t = [step |-> t.step, material |-> t.material, to |-> t.to, seen |-> t.seen,
          read |-> t.read, new |-> t.new, rebuilt |-> t.rebuilt, alone |-> t.alone]
  /\ t.step \in {"opened", "read", "flushed"}
  /\ t.material \in Materials /\ t.to \in Suppliers

RowTypes == rows \in [Materials -> Rows] /\ chosen \in [Materials -> Suppliers]

RequestTypes ==
  /\ tx = [w \in Workers |-> tx[w]]
  /\ \A w \in Workers : tx[w] # NULL => Request(tx[w])

(* OriginalSurvivesRaces for one version of a row, which has no original   *)
(* supplier before its first override.                                     *)
Knows(row, m) ==
  /\ chosen[m] = IF row.overridden THEN row.original ELSE row.supplier
  /\ ~row.overridden => row.original = NULL

(* A request that has read its line has a version that knows the solver's  *)
(* choice, and overridden lines stay overridden.                           *)
HasRead(t) == t.step # "opened" =>
  /\ t.read \in Rows /\ t.new = OverriddenRow(t.read, t.material, t.to)
  /\ Knows(t.read, t.material)
  /\ t.read.overridden => rows[t.material].overridden

RaceInv ==
  /\ RowTypes /\ RequestTypes
  /\ \A m \in Materials : Knows(rows[m], m)
  /\ \A w \in Workers : tx[w] # NULL => HasRead(tx[w])

LEMMA Products == \A a, b \in Nat : a * b \in Nat
  OBVIOUS

LEMMA SolverRowType ==
  ASSUME NEW m \in Materials, NEW s \in Suppliers
  PROVE  SolverRow(m, s) \in Rows
<1>1. Price[m][s] \in Nat /\ Moq[m][s] \in Nat /\ Need[m] \in Nat
  BY RaceAssumption
<1>2. Larger(Need[m], Moq[m][s]) \in Nat
  BY <1>1 DEF Larger
<1>3. Price[m][s] * Larger(Need[m], Moq[m][s]) \in Nat
  BY <1>1, <1>2, Products
<1>4. Recorded(Need[m], Larger(Need[m], Moq[m][s])) \in Nat \cup {NULL}
  BY <1>1 DEF Recorded
<1> QED BY <1>1, <1>2, <1>3, <1>4 DEF SolverRow, Rows

LEMMA OverriddenRowType ==
  ASSUME NEW row \in Rows, NEW m \in Materials, NEW s \in Suppliers
  PROVE  OverriddenRow(row, m, s) \in Rows
<1>1. Price[m][s] \in Nat /\ Moq[m][s] \in Nat /\ DemandOf(row) \in Nat
  BY RaceAssumption DEF DemandOf, Rows
<1>2. Larger(DemandOf(row), Moq[m][s]) \in Nat
  BY <1>1 DEF Larger
<1>3. Price[m][s] * Larger(DemandOf(row), Moq[m][s]) \in Nat
  BY <1>1, <1>2, Products
<1>4. Recorded(DemandOf(row), Larger(DemandOf(row), Moq[m][s])) \in Nat \cup {NULL}
  BY <1>1 DEF Recorded
<1>5. /\ Origin(row).supplier \in Suppliers \cup {NULL}
      /\ Origin(row).price \in Nat \cup {NULL}
  BY DEF Origin, Rows
<1> QED BY <1>1, <1>2, <1>3, <1>4, <1>5 DEF OverriddenRow, Rows

(* The UPDATE, column by column.                                           *)
Merge(old, read, new) == IF new = read THEN old ELSE new

LEMMA WrittenColumns ==
  ASSUME NEW row \in Rows, NEW read \in Rows, NEW new \in Rows
  PROVE  Written(row, read, new) =
           [supplier |-> Merge(row.supplier, read.supplier, new.supplier),
            price |-> Merge(row.price, read.price, new.price),
            quantity |-> Merge(row.quantity, read.quantity, new.quantity),
            needed |-> Merge(row.needed, read.needed, new.needed),
            total |-> Merge(row.total, read.total, new.total),
            overridden |-> Merge(row.overridden, read.overridden, new.overridden),
            original |-> Merge(row.original, read.original, new.original),
            originalPrice |-> Merge(row.originalPrice, read.originalPrice, new.originalPrice)]
<1>1. DOMAIN row = {"supplier", "price", "quantity", "needed", "total", "overridden",
                    "original", "originalPrice"}
  BY DEF Rows
<1> QED BY <1>1 DEF Written, Merge

LEMMA WrittenType ==
  ASSUME NEW row \in Rows, NEW read \in Rows, NEW new \in Rows
  PROVE  Written(row, read, new) \in Rows
<1>1. \A old, r, n : Merge(old, r, n) \in {old, n}
  BY DEF Merge
<1>2. /\ Merge(row.supplier, read.supplier, new.supplier) \in Suppliers
      /\ Merge(row.price, read.price, new.price) \in Nat
      /\ Merge(row.quantity, read.quantity, new.quantity) \in Nat
      /\ Merge(row.needed, read.needed, new.needed) \in Nat \cup {NULL}
      /\ Merge(row.total, read.total, new.total) \in Nat
      /\ Merge(row.original, read.original, new.original) \in Suppliers \cup {NULL}
      /\ Merge(row.originalPrice, read.originalPrice, new.originalPrice) \in Nat \cup {NULL}
  BY <1>1 DEF Rows
<1>3. Merge(row.overridden, read.overridden, new.overridden) \in BOOLEAN
  BY <1>1 DEF Rows
<1> QED BY <1>2, <1>3, WrittenColumns DEF Rows

(* Written over any later version of the line, an override still knows the *)
(* solver's choice.                                                        *)
LEMMA WrittenKnows ==
  ASSUME RowTypes, NEW m \in Materials, NEW s \in Suppliers, NEW row \in Rows, NEW read \in Rows,
         Knows(row, m), Knows(read, m), read.overridden => row.overridden
  PROVE  /\ Written(row, read, OverriddenRow(read, m, s)) \in Rows
         /\ Written(row, read, OverriddenRow(read, m, s)).overridden = TRUE
         /\ Knows(Written(row, read, OverriddenRow(read, m, s)), m)
<1>1. PICK new : new = OverriddenRow(read, m, s)
  OBVIOUS
<1>2. PICK w : w = Written(row, read, new)
  OBVIOUS
<1>3. new \in Rows /\ new.overridden = TRUE /\ new.original = chosen[m]
  BY <1>1, OverriddenRowType DEF OverriddenRow, Origin, Knows
<1>4. /\ w.overridden = Merge(row.overridden, read.overridden, new.overridden)
      /\ w.original = Merge(row.original, read.original, new.original)
  BY <1>2, <1>3, WrittenColumns
<1>5. read.overridden \in BOOLEAN /\ row.overridden \in BOOLEAN
  BY DEF Rows
<1>6. w.overridden = TRUE /\ w.original = chosen[m]
  <2>1. CASE read.overridden = TRUE
    <3>1. row.overridden = TRUE /\ row.original = chosen[m]
      BY <1>5, <2>1 DEF Knows
    <3> QED BY <1>3, <1>4, <3>1 DEF Merge
  <2>2. CASE read.overridden = FALSE
    <3>1. read.original = NULL /\ chosen[m] # NULL
      BY <2>2, RaceAssumption DEF Knows, RowTypes
    <3>2. new.overridden # read.overridden /\ new.original # read.original
      BY <1>3, <2>2, <3>1
    <3> QED BY <1>3, <1>4, <3>2 DEF Merge
  <2> QED BY <1>5, <2>1, <2>2
<1>7. w \in Rows
  BY <1>2, <1>3, WrittenType
<1>8. Knows(w, m)
  BY <1>6 DEF Knows
<1> QED BY <1>1, <1>2, <1>6, <1>7, <1>8

LEMMA InitHolds == Init => RaceInv
<1> SUFFICES ASSUME Init PROVE RaceInv
  OBVIOUS
<1>1. RowTypes
  BY SolverRowType DEF Init, RowTypes
<1>2. \A m \in Materials : Knows(rows[m], m)
  BY DEF Init, SolverRow, Knows
<1>3. RequestTypes /\ \A w \in Workers : tx[w] = NULL
  BY DEF Init, RequestTypes
<1> QED BY <1>1, <1>2, <1>3 DEF RaceInv

(* A step that changes no line, and of the requests only those that stay   *)
(* good by themselves.                                                     *)
LEMMA LinesStay ==
  ASSUME RaceInv, UNCHANGED <<rows, chosen>>, RequestTypes',
         \A w \in Workers : tx'[w] # NULL => HasRead(tx'[w])
  PROVE  RaceInv'
<1>1. \A w \in Workers : tx'[w] # NULL => HasRead(tx[w])'
  BY DEF HasRead, Knows
<1>2. RowTypes' /\ \A m \in Materials : Knows(rows[m], m)'
  BY DEF RaceInv, RowTypes, Knows
<1> QED BY <1>1, <1>2 DEF RaceInv

LEMMA OpenHolds ==
  ASSUME RaceInv, NEW w \in Workers, NEW m \in Materials, NEW s \in Suppliers, Open(w, m, s)
  PROVE  RaceInv'
<1>1. PICK mine : mine = [step |-> "opened", material |-> m, to |-> s, seen |-> summaries,
                          read |-> NULL, new |-> NULL, rebuilt |-> <<>>,
                          alone |-> {v \in Workers : tx[v] # NULL} = {}]
  OBVIOUS
<1>2. tx' = [v \in Workers |->
               IF v = w THEN mine
               ELSE IF v \in {u \in Workers : tx[u] # NULL}
                    THEN [tx[v] EXCEPT !.alone = FALSE] ELSE tx[v]]
  BY <1>1 DEF Open
<1>3. Request(mine) /\ HasRead(mine)
  BY <1>1 DEF Request, HasRead
<1>4. ASSUME NEW t, Request(t), HasRead(t)
      PROVE  Request([t EXCEPT !.alone = FALSE]) /\ HasRead([t EXCEPT !.alone = FALSE])
  <2>1. PICK u : u = [t EXCEPT !.alone = FALSE]
    OBVIOUS
  <2>2. u = [step |-> t.step, material |-> t.material, to |-> t.to, seen |-> t.seen,
             read |-> t.read, new |-> t.new, rebuilt |-> t.rebuilt, alone |-> FALSE]
    BY <1>4, <2>1 DEF Request
  <2>3. /\ u.step = t.step /\ u.material = t.material /\ u.to = t.to /\ u.seen = t.seen
        /\ u.read = t.read /\ u.new = t.new /\ u.rebuilt = t.rebuilt /\ u.alone = FALSE
    BY <2>2
  <2> QED BY <1>4, <2>1, <2>2, <2>3 DEF Request, HasRead
<1>5. \A v \in Workers : tx'[v] # NULL => Request(tx'[v]) /\ HasRead(tx'[v])
  BY <1>2, <1>3, <1>4 DEF RaceInv, RequestTypes
<1>6. RequestTypes'
  BY <1>2, <1>5 DEF RequestTypes, Request
<1> QED BY <1>5, <1>6, LinesStay DEF Open

(* The request of one worker moves on, or ends.                            *)
LEMMA RequestMoves ==
  ASSUME RaceInv, NEW w \in Workers, NEW u, tx' = [tx EXCEPT ![w] = u],
         u # NULL => Request(u) /\ HasRead(u), UNCHANGED <<rows, chosen>>
  PROVE  RaceInv'
<1>1. tx' = [v \in Workers |-> IF v = w THEN u ELSE tx[v]]
  BY DEF RaceInv, RequestTypes
<1>2. \A v \in Workers : tx'[v] # NULL => Request(tx'[v]) /\ HasRead(tx'[v])
  BY <1>1 DEF RaceInv, RequestTypes
<1>3. RequestTypes'
  BY <1>1, <1>2 DEF RequestTypes, Request
<1> QED BY <1>2, <1>3, LinesStay

LEMMA ReadHolds ==
  ASSUME RaceInv, NEW w \in Workers, Read(w)
  PROVE  RaceInv'
<1>1. PICK t : t = tx[w]
  OBVIOUS
<1>2. Request(t) /\ t # NULL
  BY <1>1 DEF Read, At, RaceInv, RequestTypes
<1>3. PICK row : row = rows[t.material]
  OBVIOUS
<1>4. PICK n : n = OverriddenRow(row, t.material, t.to)
  OBVIOUS
<1>5. PICK u : u = [t EXCEPT !.step = "read", !.read = row, !.new = n]
  OBVIOUS
<1>6. tx' = [tx EXCEPT ![w] = u]
  BY <1>1, <1>3, <1>4, <1>5 DEF Read, RaceInv, RequestTypes
<1>7. u = [step |-> "read", material |-> t.material, to |-> t.to, seen |-> t.seen,
           read |-> row, new |-> n, rebuilt |-> t.rebuilt, alone |-> t.alone]
  BY <1>2, <1>5 DEF Request
<1>8. /\ u.step = "read" /\ u.material = t.material /\ u.to = t.to /\ u.read = row
      /\ u.new = OverriddenRow(row, t.material, t.to)
  BY <1>4, <1>7
<1>9. Request(u)
  BY <1>2, <1>7 DEF Request
<1>10. HasRead(u)
  BY <1>2, <1>3, <1>8 DEF HasRead, Request, RaceInv, RowTypes
<1> QED BY <1>6, <1>9, <1>10, RequestMoves DEF Read

LEMMA FlushHolds ==
  ASSUME RaceInv, NEW w \in Workers, Flush(w)
  PROVE  RaceInv'
<1>1. PICK t : t = tx[w]
  OBVIOUS
<1>2. Request(t) /\ HasRead(t) /\ t.step = "read"
  BY <1>1 DEF Flush, At, RaceInv, RequestTypes
<1>3. PICK u : u = [t EXCEPT !.step = "flushed"]
  OBVIOUS
<1>4. u = [step |-> "flushed", material |-> t.material, to |-> t.to, seen |-> t.seen,
           read |-> t.read, new |-> t.new, rebuilt |-> t.rebuilt, alone |-> t.alone]
  BY <1>2, <1>3 DEF Request
<1>5. Request(u) /\ HasRead(u)
  BY <1>2, <1>4 DEF Request, HasRead
<1>6. tx' = [tx EXCEPT ![w] = u]
  BY <1>1, <1>3 DEF Flush, RaceInv, RequestTypes
<1> QED BY <1>5, <1>6, RequestMoves DEF Flush

LEMMA RebuildHolds ==
  ASSUME RaceInv, NEW w \in Workers, Rebuild(w)
  PROVE  RaceInv'
<1>1. PICK t : t = tx[w]
  OBVIOUS
<1>2. Request(t) /\ HasRead(t) /\ t.step = "flushed"
  BY <1>1 DEF Rebuild, At, RaceInv, RequestTypes
<1>3. PICK sums : tx' = [tx EXCEPT ![w].rebuilt = sums]
  BY DEF Rebuild
<1>4. PICK u : u = [t EXCEPT !.rebuilt = sums]
  OBVIOUS
<1>5. u = [step |-> "flushed", material |-> t.material, to |-> t.to, seen |-> t.seen,
           read |-> t.read, new |-> t.new, rebuilt |-> sums, alone |-> t.alone]
  BY <1>2, <1>4 DEF Request
<1>6. Request(u) /\ HasRead(u)
  BY <1>2, <1>5 DEF Request, HasRead
<1>7. tx' = [tx EXCEPT ![w] = u]
  BY <1>1, <1>3, <1>4 DEF RaceInv, RequestTypes
<1> QED BY <1>6, <1>7, RequestMoves DEF Rebuild

LEMMA CommitHolds ==
  ASSUME RaceInv, NEW w \in Workers, Commit(w)
  PROVE  RaceInv'
<1>1. PICK t : t = tx[w]
  OBVIOUS
<1>2. Request(t) /\ HasRead(t) /\ t.step = "flushed"
  BY <1>1 DEF Commit, At, RaceInv, RequestTypes
<1>3. PICK m \in Materials : m = t.material
  BY <1>2 DEF Request
<1>4. PICK row : row = rows[m]
  OBVIOUS
<1>5. PICK after : after = Written(row, t.read, OverriddenRow(t.read, m, t.to))
  OBVIOUS
<1>6. rows' = [rows EXCEPT ![m] = after]
  <2>1. rows' = [rows EXCEPT ![m] = Written(row, t.read, t.new)]
    BY <1>1, <1>3, <1>4 DEF Commit, RaceInv, RowTypes
  <2>2. t.new = OverriddenRow(t.read, m, t.to)
    BY <1>2, <1>3 DEF HasRead
  <2> QED BY <1>5, <2>1, <2>2
<1>7. after \in Rows /\ after.overridden = TRUE /\ Knows(after, m)
  <2>1. row \in Rows /\ Knows(row, m)
    BY <1>4 DEF RaceInv, RowTypes
  <2>2. t.read \in Rows /\ Knows(t.read, m) /\ (t.read.overridden => row.overridden) /\ t.to \in Suppliers
    BY <1>2, <1>3, <1>4 DEF HasRead, Request
  <2> QED BY <1>5, <2>1, <2>2, WrittenKnows DEF RaceInv
<1>8. chosen' = chosen /\ \A n \in Materials : rows'[n] = IF n = m THEN after ELSE rows[n]
  BY <1>6 DEF Commit, RaceInv, RowTypes
<1>9. RowTypes'
  BY <1>6, <1>7, <1>8 DEF RaceInv, RowTypes
<1>10. \A n \in Materials : Knows(rows[n], n)'
  BY <1>7, <1>8 DEF RaceInv, Knows
<1>11. tx' = [v \in Workers |-> IF v = w THEN NULL ELSE tx[v]]
  BY DEF Commit, RaceInv, RequestTypes
<1>12. RequestTypes'
  BY <1>11 DEF RaceInv, RequestTypes, Request
<1>13. \A n \in Materials : rows[n].overridden => rows'[n].overridden
  BY <1>7, <1>8
<1>14. ASSUME NEW v \in Workers, tx'[v] # NULL PROVE HasRead(tx[v])'
  <2>1. PICK u : u = tx[v]
    OBVIOUS
  <2>2. tx'[v] = u /\ u # NULL /\ Request(u) /\ HasRead(u)
    BY <1>11, <1>14, <2>1 DEF RaceInv, RequestTypes
  <2>3. u.material \in Materials
    BY <2>2 DEF Request
  <2>4. HasRead(u)'
    BY <1>8, <1>13, <2>2, <2>3 DEF HasRead, Knows
  <2> QED BY <2>2, <2>4
<1> QED BY <1>9, <1>10, <1>12, <1>14 DEF RaceInv

LEMMA RaceStep == RaceInv /\ [Next]_vars => RaceInv'
<1> SUFFICES ASSUME RaceInv, [Next]_vars PROVE RaceInv'
  OBVIOUS
<1>1. ASSUME UNCHANGED vars PROVE RaceInv'
  <2>1. RequestTypes' /\ UNCHANGED <<rows, chosen, tx>>
    BY <1>1 DEF vars, RaceInv, RequestTypes, Request
  <2> QED BY <2>1, LinesStay DEF RaceInv
<1>2. ASSUME NEW w \in Workers, Abort(w) PROVE RaceInv'
  BY <1>2, RequestMoves DEF Abort
<1> QED
  BY <1>1, <1>2, OpenHolds, ReadHolds, FlushHolds, RebuildHolds, CommitHolds DEF Next, Advance

(* Whatever overrides of a run overlap, each line still tells which        *)
(* supplier the solver had chosen: two first overrides that both read the  *)
(* line untouched write the same original_supplier_id.                     *)
THEOREM OriginalCorrect == Spec => []OriginalSurvivesRaces
<1>1. RaceInv => OriginalSurvivesRaces
  BY DEF RaceInv, Knows, OriginalSurvivesRaces
<1> QED BY InitHolds, RaceStep, <1>1, PTL DEF Spec

-----------------------------------------------------------------------------
(* What a request that no other overlapped can rely on: the table and the  *)
(* summaries are still the ones it read.                                   *)
Undisturbed(t) ==
  /\ t.seen = summaries
  /\ t.step = "opened" => DOMAIN t.rebuilt = {}
  /\ t.step # "opened" => t.read = rows[t.material]
  /\ \A s \in DOMAIN t.rebuilt :
       t.rebuilt[s] = Rebuilt([rows EXCEPT ![t.material] = t.new], s)

LoneInv ==
  \A w \in Workers : tx[w] # NULL /\ tx[w].alone =>
    /\ Undisturbed(tx[w])
    /\ \A v \in Workers \ {w} : tx[v] = NULL

(* Over the version it changes, an UPDATE leaves the new version.          *)
LEMMA WrittenOverRead ==
  ASSUME NEW read \in Rows, NEW new \in Rows
  PROVE  Written(read, read, new) = new
<1>1. \A r, n : Merge(r, r, n) = n
  BY DEF Merge
<1>2. Written(read, read, new) =
        [supplier |-> new.supplier, price |-> new.price, quantity |-> new.quantity,
         needed |-> new.needed, total |-> new.total, overridden |-> new.overridden,
         original |-> new.original, originalPrice |-> new.originalPrice]
  BY <1>1, WrittenColumns
<1> QED BY <1>2 DEF Rows

(* What an undisturbed request reads back is the plan its commit leaves.   *)
LEMMA UndisturbedView ==
  ASSUME RaceInv, NEW w \in Workers, At(w, "flushed"), Undisturbed(tx[w])
  PROVE  /\ [rows EXCEPT ![tx[w].material] = Written(@, tx[w].read, tx[w].new)]
             = [rows EXCEPT ![tx[w].material] = tx[w].new]
         /\ View(w) = [rows EXCEPT ![tx[w].material] = tx[w].new]
<1>1. PICK t : t = tx[w]
  OBVIOUS
<1>2. Request(t) /\ HasRead(t) /\ t.step = "flushed" /\ t.read = rows[t.material]
  BY <1>1 DEF At, RaceInv, RequestTypes, Undisturbed
<1>3. t.read \in Rows /\ t.new \in Rows
  BY <1>2, OverriddenRowType DEF HasRead, Request
<1>4. Written(rows[t.material], t.read, t.new) = t.new
  BY <1>2, <1>3, WrittenOverRead
<1>5. PICK n : n = t.new
  OBVIOUS
<1>6. [n EXCEPT !.supplier = n.supplier] = n
  BY <1>3, <1>5 DEF Rows
<1>7. View(w) = [rows EXCEPT ![t.material] = n]
  BY <1>1, <1>4, <1>5, <1>6 DEF View
<1> QED BY <1>1, <1>4, <1>5, <1>7

(* A step of an open request that leaves the plan as it is.                *)
LEMMA LoneMoves ==
  ASSUME RaceInv, LoneInv, NEW w \in Workers, tx[w] # NULL, UNCHANGED <<rows, summaries>>,
         NEW u, tx' = [tx EXCEPT ![w] = u],
         u # NULL /\ u.alone => tx[w].alone /\ Undisturbed(u)
  PROVE  LoneInv'
<1>1. tx' = [v \in Workers |-> IF v = w THEN u ELSE tx[v]]
  BY DEF RaceInv, RequestTypes
<1>2. ASSUME NEW v \in Workers, tx'[v] # NULL, tx'[v].alone
      PROVE  Undisturbed(tx'[v]) /\ \A x \in Workers \ {v} : tx'[x] = NULL
  <2>1. CASE v = w
    BY <1>1, <1>2, <2>1 DEF LoneInv
  <2>2. CASE v # w
    BY <1>1, <1>2, <2>2 DEF LoneInv
  <2> QED BY <2>1, <2>2
<1>3. ASSUME NEW v \in Workers, tx'[v] # NULL, tx'[v].alone PROVE Undisturbed(tx[v])'
  <2>1. PICK t : t = tx'[v]
    OBVIOUS
  <2>2. Undisturbed(t)
    BY <1>2, <1>3, <2>1
  <2>3. PICK view : view = [rows EXCEPT ![t.material] = t.new]
    OBVIOUS
  <2>4. view = [rows' EXCEPT ![t.material] = t.new]
    BY <2>3
  <2>5. \A s \in DOMAIN t.rebuilt : t.rebuilt[s] = Rebuilt(view, s)
    BY <2>2, <2>3 DEF Undisturbed
  <2> QED BY <2>1, <2>2, <2>4, <2>5 DEF Undisturbed
<1> QED BY <1>2, <1>3 DEF LoneInv

LEMMA LoneStep == RaceInv /\ LoneInv /\ [Next]_vars => LoneInv'
<1> SUFFICES ASSUME RaceInv, LoneInv, [Next]_vars PROVE LoneInv'
  OBVIOUS
<1>1. ASSUME UNCHANGED vars PROVE LoneInv'
  BY <1>1 DEF vars, LoneInv, Undisturbed
<1>2. ASSUME NEW w \in Workers, NEW m \in Materials, NEW s \in Suppliers, Open(w, m, s)
      PROVE  LoneInv'
  <2>1. PICK mine : mine = [step |-> "opened", material |-> m, to |-> s, seen |-> summaries,
                            read |-> NULL, new |-> NULL, rebuilt |-> <<>>,
                            alone |-> {v \in Workers : tx[v] # NULL} = {}]
    OBVIOUS
  <2>2. tx' = [v \in Workers |->
                 IF v = w THEN mine
                 ELSE IF v \in {u \in Workers : tx[u] # NULL}
                      THEN [tx[v] EXCEPT !.alone = FALSE] ELSE tx[v]]
    BY <1>2, <2>1 DEF Open
  <2>3. ASSUME NEW v \in Workers, v # w, tx'[v] # NULL PROVE tx'[v].alone = FALSE
    <3>1. PICK t : t = tx[v]
      OBVIOUS
    <3>2. t # NULL /\ tx'[v] = [t EXCEPT !.alone = FALSE] /\ Request(t)
      BY <2>2, <2>3, <3>1 DEF RaceInv, RequestTypes
    <3>3. [t EXCEPT !.alone = FALSE].alone = FALSE
      BY <3>2 DEF Request
    <3> QED BY <3>2, <3>3
  <2>4. ASSUME mine.alone PROVE \A x \in Workers \ {w} : tx'[x] = NULL
    BY <2>1, <2>2, <2>4
  <2>5. mine.seen = summaries' /\ mine.step = "opened" /\ mine.rebuilt = <<>>
    BY <1>2, <2>1 DEF Open
  <2>6. DOMAIN mine.rebuilt = {}
    BY <2>5
  <2>7. tx'[w] = mine
    BY <2>2
  <2>8. Undisturbed(tx[w])'
    BY <2>5, <2>6, <2>7 DEF Undisturbed
  <2> QED BY <2>3, <2>4, <2>7, <2>8 DEF LoneInv
<1>3. ASSUME NEW w \in Workers, Read(w) PROVE LoneInv'
  <2>1. PICK t : t = tx[w]
    OBVIOUS
  <2>2. Request(t) /\ t # NULL /\ t.step = "opened"
    BY <1>3, <2>1 DEF Read, At, RaceInv, RequestTypes
  <2>3. PICK row, n : row = rows[t.material] /\ n = OverriddenRow(row, t.material, t.to)
    OBVIOUS
  <2>4. PICK u : u = [t EXCEPT !.step = "read", !.read = row, !.new = n]
    OBVIOUS
  <2>5. tx' = [tx EXCEPT ![w] = u]
    BY <1>3, <2>1, <2>3, <2>4 DEF Read, RaceInv, RequestTypes
  <2>6. u = [step |-> "read", material |-> t.material, to |-> t.to, seen |-> t.seen,
             read |-> row, new |-> n, rebuilt |-> t.rebuilt, alone |-> t.alone]
    BY <2>2, <2>4 DEF Request
  <2>7. t.alone => Undisturbed(t)
    BY <1>3, <2>1, <2>2 DEF LoneInv
  <2>8. u.alone => t.alone /\ Undisturbed(u)
    BY <2>2, <2>3, <2>6, <2>7 DEF Undisturbed
  <2> QED BY <1>3, <2>1, <2>2, <2>5, <2>8, LoneMoves DEF Read
<1>4. ASSUME NEW w \in Workers, Flush(w) PROVE LoneInv'
  <2>1. PICK t : t = tx[w]
    OBVIOUS
  <2>2. Request(t) /\ t # NULL /\ t.step = "read"
    BY <1>4, <2>1 DEF Flush, At, RaceInv, RequestTypes
  <2>3. PICK u : u = [t EXCEPT !.step = "flushed"]
    OBVIOUS
  <2>4. u = [step |-> "flushed", material |-> t.material, to |-> t.to, seen |-> t.seen,
             read |-> t.read, new |-> t.new, rebuilt |-> t.rebuilt, alone |-> t.alone]
    BY <2>2, <2>3 DEF Request
  <2>5. tx' = [tx EXCEPT ![w] = u]
    BY <1>4, <2>1, <2>3 DEF Flush, RaceInv, RequestTypes
  <2>6. t.alone => Undisturbed(t)
    BY <1>4, <2>1, <2>2 DEF LoneInv
  <2>7. u.alone => t.alone /\ Undisturbed(u)
    BY <2>2, <2>4, <2>6 DEF Undisturbed
  <2> QED BY <1>4, <2>1, <2>2, <2>5, <2>7, LoneMoves DEF Flush
<1>5. ASSUME NEW w \in Workers, Rebuild(w) PROVE LoneInv'
  <2>1. PICK t : t = tx[w]
    OBVIOUS
  <2>2. Request(t) /\ t # NULL /\ At(w, "flushed") /\ t.step = "flushed"
    BY <1>5, <2>1 DEF Rebuild, At, RaceInv, RequestTypes
  <2>3. PICK s : tx' = [tx EXCEPT ![w].rebuilt =
                   [u \in DOMAIN @ \cup {s} |-> IF u = s THEN Rebuilt(View(w), s) ELSE @[u]]]
    BY <1>5 DEF Rebuild
  <2>4. PICK old, sums : /\ old = t.rebuilt
                         /\ sums = [u \in DOMAIN old \cup {s} |->
                                      IF u = s THEN Rebuilt(View(w), s) ELSE old[u]]
    OBVIOUS
  <2>5. PICK u : u = [t EXCEPT !.rebuilt = sums]
    OBVIOUS
  <2>6. tx' = [tx EXCEPT ![w] = u]
    BY <2>1, <2>3, <2>4, <2>5 DEF RaceInv, RequestTypes
  <2>7. u = [step |-> "flushed", material |-> t.material, to |-> t.to, seen |-> t.seen,
             read |-> t.read, new |-> t.new, rebuilt |-> sums, alone |-> t.alone]
    BY <2>2, <2>5 DEF Request
  <2>8. ASSUME u.alone PROVE t.alone /\ Undisturbed(u)
    <3>1. t.alone /\ Undisturbed(t)
      BY <1>5, <2>1, <2>2, <2>7, <2>8 DEF LoneInv
    <3>2. View(w) = [rows EXCEPT ![t.material] = t.new]
      BY <2>1, <2>2, <3>1, UndisturbedView
    <3>3. \A x \in DOMAIN sums : sums[x] = Rebuilt([rows EXCEPT ![t.material] = t.new], x)
      BY <2>4, <3>1, <3>2 DEF Undisturbed
    <3>4. /\ u.seen = t.seen /\ u.step = "flushed" /\ u.read = t.read /\ u.new = t.new
          /\ u.material = t.material /\ u.rebuilt = sums
      BY <2>7
    <3> QED BY <2>2, <3>1, <3>3, <3>4 DEF Undisturbed
  <2> QED BY <1>5, <2>1, <2>2, <2>6, <2>8, LoneMoves DEF Rebuild
<1>6. ASSUME NEW w \in Workers, Commit(w) PROVE LoneInv'
  <2>1. tx[w] # NULL /\ tx' = [v \in Workers |-> IF v = w THEN NULL ELSE tx[v]]
    BY <1>6 DEF Commit, At, RaceInv, RequestTypes
  <2>2. \A v \in Workers : ~(tx'[v] # NULL /\ tx'[v].alone)
    BY <2>1 DEF LoneInv
  <2> QED BY <2>2 DEF LoneInv
<1>7. ASSUME NEW w \in Workers, Abort(w) PROVE LoneInv'
  BY <1>7, LoneMoves DEF Abort
<1> QED BY <1>1, <1>2, <1>3, <1>4, <1>5, <1>6, <1>7 DEF Next, Advance

(* The commit of an undisturbed request writes the summaries of its lines. *)
LEMMA LoneCommit ==
  ASSUME RaceInv, LoneInv, NEW w \in Workers, Commit(w), tx[w].alone
  PROVE  \A s \in Touched(w) : summaries'[s] = Rebuilt(rows', s)
<1>1. PICK t : t = tx[w]
  OBVIOUS
<1>2. Request(t) /\ HasRead(t) /\ At(w, "flushed") /\ t.step = "flushed" /\ Undisturbed(t)
  BY <1>1 DEF Commit, At, RaceInv, RequestTypes, LoneInv
<1>3. rows' = [rows EXCEPT ![t.material] = t.new]
  BY <1>1, <1>2, UndisturbedView DEF Commit
<1>4. DOMAIN t.rebuilt = Touched(w) /\ Touched(w) \subseteq Suppliers
  BY <1>1, <1>2 DEF Commit, Touched, HasRead, Request, Rows
<1>5. summaries' = Merged(t.seen, t.rebuilt)
  BY <1>1, <1>2 DEF Commit, Undisturbed
<1>6. \A s \in Touched(w) : summaries'[s] = t.rebuilt[s]
  BY <1>4, <1>5 DEF Merged
<1> QED BY <1>2, <1>3, <1>4, <1>6 DEF Undisturbed

(* An override that no other request overlapped leaves the two suppliers   *)
(* it touched with exact summaries, whatever earlier races made of them.   *)
THEOREM LoneCorrect == Spec => LoneOverrideRepairs
<1>1. Init => LoneInv
  BY DEF Init, LoneInv
<1>2. ASSUME RaceInv, LoneInv, [Next]_vars, NEW w \in Workers, At(w, "flushed"), tx[w].alone,
             rows' # rows
      PROVE  \A s \in Touched(w) : summaries'[s] = Rebuilt(rows', s)
  <2>1. PICK v \in Workers : Commit(v)
    BY <1>2 DEF Next, Advance, Open, Read, Flush, Rebuild, Abort, vars
  <2>2. v = w
    BY <1>2, <2>1 DEF LoneInv, At, Commit
  <2> QED BY <1>2, <2>1, <2>2, LoneCommit
<1>3. RaceInv /\ LoneInv /\ [Next]_vars =>
        (\A w \in Workers :
           At(w, "flushed") /\ tx[w].alone /\ rows' # rows =>
             \A s \in Touched(w) : summaries'[s] = Rebuilt(rows', s))
  BY <1>2
<1> QED BY InitHolds, RaceStep, LoneStep, <1>1, <1>3, PTL DEF Spec, LoneOverrideRepairs
-----------------------------------------------------------------------------
(* Sums over finite sets: a fold takes one element after another, so what  *)
(* is wrong with one is wrong with a smallest one.                         *)

(* A nonempty collection of finite sets has one none of whose proper parts *)
(* it holds.                                                               *)
LEMMA LeastSet ==
  ASSUME NEW D, IsFiniteSet(D), NEW T \in SUBSET SUBSET D, T # {}
  PROVE  \E x \in T : \A y \in SUBSET x : y \in T => y = x
<1>1. T \subseteq FiniteSubsetsOf(D)
  BY FS_FiniteSubsetsOfFinite
<1>2. PICK x \in T : \A y \in T : <<y, x>> \notin StrictSubsetOrdering(D)
  BY <1>1, FS_StrictSubsetOrderingWellFounded, WFMin
<1>3. ASSUME NEW y \in SUBSET x, y \in T, y # x PROVE FALSE
  <2>1. x \in SUBSET D /\ y \in SUBSET D
    BY <1>3
  <2>2. <<y, x>> \in StrictSubsetOrdering(D)
    BY <1>3, <2>1 DEF StrictSubsetOrdering
  <2> QED BY <1>2, <1>3, <2>2
<1> QED BY <1>3

Picked(s) == CHOOSE x \in s : TRUE

(* it[s] adds up f over s, one picked element after another.               *)
Unfold(f, it, s) == IF s = {} THEN 0 ELSE f[Picked(s)] + it[s \ {Picked(s)}]
Adds(f, D, it) == it = [s \in SUBSET D |-> Unfold(f, it, s)]

LEMMA SumIsFold ==
  ASSUME NEW f, NEW D
  PROVE  \E it : it = (CHOOSE g : Adds(f, D, g)) /\ SumFunctionOnSet(f, D) = it[D]
<1>1. \E it : /\ it = (CHOOSE g : g = [s \in SUBSET D |->
                         IF s = {} THEN 0
                         ELSE f[CHOOSE x \in s : TRUE] + g[s \ {CHOOSE x \in s : TRUE}]])
              /\ SumFunctionOnSet(f, D) = it[D]
  BY Zenon DEF SumFunctionOnSet, FoldFunctionOnSet, MapThenFoldSet
<1> QED BY <1>1, Zenon DEF Adds, Unfold, Picked

LEMMA PickedIn == ASSUME NEW s, s # {} PROVE Picked(s) \in s
  BY DEF Picked

LEMMA AddsAt ==
  ASSUME NEW f, NEW D, NEW it, Adds(f, D, it), NEW s \in SUBSET D
  PROVE  it[s] = Unfold(f, it, s)
<1>1. it = [x \in SUBSET D |-> Unfold(f, it, x)]
  BY DEF Adds
<1> QED BY <1>1

(* Two such functions agree where both are defined.                        *)
LEMMA AddsUnique ==
  ASSUME NEW f, NEW D, NEW E, IsFiniteSet(D), NEW a, NEW b, Adds(f, D, a), Adds(f, E, b),
         NEW x \in SUBSET D, x \in SUBSET E
  PROVE  a[x] = b[x]
<1> DEFINE T == {s \in SUBSET x : a[s] # b[s]}
<1>1. SUFFICES ASSUME T # {} PROVE FALSE
  OBVIOUS
<1>2. T \in SUBSET SUBSET D
  OBVIOUS
<1>3. PICK s \in T : \A y \in SUBSET s : y \in T => y = s
  <2> HIDE DEF T
  <2> QED BY <1>1, <1>2, LeastSet
<1>4. a[s] = Unfold(f, a, s) /\ b[s] = Unfold(f, b, s)
  BY AddsAt
<1>5. s # {}
  BY <1>4 DEF Unfold
<1>6. PICK r : r = s \ {Picked(s)}
  OBVIOUS
<1>7. r \in SUBSET s /\ r # s
  BY <1>5, <1>6, PickedIn
<1>8. r \notin T
  <2> HIDE DEF T
  <2> QED BY <1>3, <1>7
<1>9. a[r] = b[r]
  BY <1>7, <1>8
<1>10. a[s] = b[s]
  BY <1>4, <1>5, <1>6, <1>9 DEF Unfold
<1> QED BY <1>10

AddedUp(f, s) == (CHOOSE g : Adds(f, s, g))[s]

LEMMA AddsExists ==
  ASSUME NEW f, NEW D, IsFiniteSet(D)
  PROVE  \E it : Adds(f, D, it)
<1> DEFINE T == {s \in SUBSET D : ~ \E it : Adds(f, s, it)}
<1>1. SUFFICES ASSUME T # {} PROVE FALSE
  OBVIOUS
<1>2. PICK s \in T : \A y \in SUBSET s : y \in T => y = s
  <2>1. T \in SUBSET SUBSET D
    OBVIOUS
  <2> HIDE DEF T
  <2> QED BY <1>1, <2>1, LeastSet
<1>3. \A y \in SUBSET s : y # s => \E it : Adds(f, y, it)
  BY <1>2
<1>4. \A y \in SUBSET s : y # s => Adds(f, y, CHOOSE g : Adds(f, y, g))
  BY <1>3
<1>5. PICK last : last = IF s = {} THEN 0 ELSE f[Picked(s)] + AddedUp(f, s \ {Picked(s)})
  OBVIOUS
<1>6. PICK it : it = [y \in SUBSET s |-> IF y = s THEN last ELSE AddedUp(f, y)]
  OBVIOUS
<1>7. ASSUME NEW y \in SUBSET s PROVE it[y] = Unfold(f, it, y)
  <2>1. CASE y = {} /\ y = s
    BY <1>5, <1>6, <2>1 DEF Unfold
  <2>2. CASE y # {} /\ y = s
    <3>1. s \ {Picked(s)} \in SUBSET s /\ s \ {Picked(s)} # s
      BY <2>2, PickedIn
    <3>2. it[s \ {Picked(s)}] = AddedUp(f, s \ {Picked(s)})
      BY <1>6, <3>1
    <3>3. it[s] = last
      BY <1>6
    <3> QED BY <1>5, <2>2, <3>2, <3>3 DEF Unfold
  <2>3. CASE y # s
    <3>1. PICK g : g = CHOOSE h : Adds(f, y, h)
      OBVIOUS
    <3>2. Adds(f, y, g)
      BY <1>4, <2>3, <3>1
    <3>3. it[y] = g[y]
      BY <1>6, <2>3, <3>1 DEF AddedUp
    <3>4. g[y] = Unfold(f, g, y)
      BY <3>2, AddsAt
    <3>5. CASE y = {}
      BY <3>3, <3>4, <3>5 DEF Unfold
    <3>6. CASE y # {}
      <4>1. PICK r : r = y \ {Picked(y)}
        OBVIOUS
      <4>2. r \in SUBSET s /\ r \in SUBSET y /\ r # s
        BY <2>3, <3>6, <4>1, PickedIn
      <4>3. PICK h : h = CHOOSE k : Adds(f, r, k)
        OBVIOUS
      <4>4. Adds(f, r, h)
        BY <1>4, <4>2, <4>3
      <4>5. IsFiniteSet(y)
        BY FS_Subset
      <4>6. g[r] = h[r]
        BY <3>2, <4>2, <4>4, <4>5, AddsUnique
      <4>7. it[r] = h[r]
        BY <1>6, <4>2, <4>3 DEF AddedUp
      <4> QED BY <3>3, <3>4, <3>6, <4>1, <4>6, <4>7 DEF Unfold
    <3> QED BY <3>5, <3>6
  <2> QED BY <2>1, <2>2, <2>3
<1>8. it = [y \in SUBSET s |-> Unfold(f, it, y)]
  <2>1. DOMAIN it = SUBSET s /\ it = [y \in DOMAIN it |-> it[y]]
    BY <1>6
  <2> QED BY <1>7, <2>1
<1>9. Adds(f, s, it)
  BY <1>8, Zenon DEF Adds
<1> QED BY <1>2, <1>9

(* The sum of numbers over a finite set is a number.                       *)
LEMMA SumIsNat ==
  ASSUME NEW D, IsFiniteSet(D), NEW f \in [D -> Nat]
  PROVE  SumFunction(f) \in Nat
<1>1. PICK it : it = (CHOOSE g : Adds(f, D, g)) /\ SumFunctionOnSet(f, D) = it[D]
  BY SumIsFold
<1>2. Adds(f, D, it)
  BY <1>1, AddsExists
<1> DEFINE T == {s \in SUBSET D : it[s] \notin Nat}
<1>3. ASSUME T # {} PROVE FALSE
  <2>1. PICK s \in T : \A y \in SUBSET s : y \in T => y = s
    <3>1. T \in SUBSET SUBSET D
      OBVIOUS
    <3> HIDE DEF T
    <3> QED BY <1>3, <3>1, LeastSet
  <2>2. it[s] = Unfold(f, it, s)
    BY <1>2, AddsAt
  <2>3. CASE s = {}
    BY <2>2, <2>3 DEF Unfold
  <2>4. CASE s # {}
    <3>1. PICK r : r = s \ {Picked(s)}
      OBVIOUS
    <3>2. r \in SUBSET s /\ r # s /\ Picked(s) \in D
      BY <2>4, <3>1, PickedIn
    <3>3. it[r] \in Nat
      BY <2>1, <3>2
    <3>4. it[s] = f[Picked(s)] + it[r]
      BY <2>2, <2>4, <3>1 DEF Unfold
    <3>5. it[s] \in Nat
      BY <3>2, <3>3, <3>4
    <3> QED BY <3>5
  <2> QED BY <2>3, <2>4
<1>4. it[D] \in Nat
  BY <1>3
<1>5. SumFunction(f) = SumFunctionOnSet(f, D)
  BY DEF SumFunction
<1> QED BY <1>1, <1>4, <1>5

-----------------------------------------------------------------------------
Sums == [Suppliers -> Nat \cup {NULL}]
Partial(sums) == \A s \in DOMAIN sums : s \in Suppliers /\ sums[s] \in Nat \cup {NULL}

(* What a request holds of the summaries is summaries.                     *)
SumsHeld(t) ==
  /\ t.seen \in Sums /\ Partial(t.rebuilt)
  /\ t.step = "opened" => t.read = NULL /\ t.new = NULL

TypesInv ==
  /\ summaries \in Sums /\ overlapped \in BOOLEAN /\ opened \in 0 .. MaxOpened
  /\ \A w \in Workers : tx[w] # NULL => SumsHeld(tx[w])

LEMMA RebuiltType ==
  ASSUME NEW ls \in [Materials -> Rows], NEW s
  PROVE  Rebuilt(ls, s) \in Nat \cup {NULL}
<1>1. PICK f : f = [m \in LinesOf(ls, s) |-> ls[m].total]
  OBVIOUS
<1>2. LinesOf(ls, s) \in SUBSET Materials /\ IsFiniteSet(LinesOf(ls, s))
  BY RaceAssumption, FS_Subset DEF LinesOf
<1>3. f \in [LinesOf(ls, s) -> Nat]
  BY <1>1, <1>2 DEF Rows
<1>4. SumFunction(f) \in Nat
  BY <1>2, <1>3, SumIsNat
<1> QED BY <1>1, <1>4 DEF Rebuilt

LEMMA MergedType ==
  ASSUME NEW seen \in Sums, NEW rebuilt, Partial(rebuilt)
  PROVE  Merged(seen, rebuilt) \in Sums
BY DEF Merged, Sums, Partial

LEMMA TypesInit == Init => TypesInv
<1> SUFFICES ASSUME Init PROVE TypesInv
  OBVIOUS
<1>1. rows \in [Materials -> Rows]
  BY InitHolds DEF RaceInv, RowTypes
<1>2. \A s \in Suppliers : Rebuilt(rows, s) \in Nat \cup {NULL}
  BY <1>1, RebuiltType
<1>3. summaries \in Sums
  BY <1>2 DEF Init, Sums
<1>4. 0 \in 0 .. MaxOpened
  BY RaceAssumption
<1>5. \A w \in Workers : tx[w] = NULL
  BY DEF Init
<1> QED BY <1>3, <1>4, <1>5 DEF Init, TypesInv

(* The request of one worker moves on, or ends.                            *)
LEMMA TypesMove ==
  ASSUME RaceInv, TypesInv, NEW w \in Workers, NEW u, tx' = [tx EXCEPT ![w] = u],
         u # NULL => SumsHeld(u), summaries' \in Sums, UNCHANGED <<overlapped, opened>>
  PROVE  TypesInv'
<1>1. tx' = [v \in Workers |-> IF v = w THEN u ELSE tx[v]]
  BY DEF RaceInv, RequestTypes
<1>2. \A v \in Workers : tx'[v] # NULL => SumsHeld(tx'[v])
  BY <1>1 DEF TypesInv
<1> QED BY <1>2 DEF TypesInv, SumsHeld, Sums, Partial

LEMMA TypesOpen ==
  ASSUME RaceInv, TypesInv, NEW w \in Workers, NEW m \in Materials, NEW s \in Suppliers,
         Open(w, m, s)
  PROVE  TypesInv'
<1>1. PICK mine : mine = [step |-> "opened", material |-> m, to |-> s, seen |-> summaries,
                          read |-> NULL, new |-> NULL, rebuilt |-> <<>>,
                          alone |-> {v \in Workers : tx[v] # NULL} = {}]
  OBVIOUS
<1>2. tx' = [v \in Workers |->
               IF v = w THEN mine
               ELSE IF v \in {u \in Workers : tx[u] # NULL}
                    THEN [tx[v] EXCEPT !.alone = FALSE] ELSE tx[v]]
  BY <1>1 DEF Open
<1>3. SumsHeld(mine)
  <2>1. /\ mine.seen = summaries /\ mine.read = NULL /\ mine.new = NULL /\ mine.rebuilt = <<>>
    BY <1>1
  <2>2. Partial(<<>>)
    BY DEF Partial
  <2> QED BY <2>1, <2>2 DEF SumsHeld, TypesInv
<1>4. ASSUME NEW t, Request(t), SumsHeld(t) PROVE SumsHeld([t EXCEPT !.alone = FALSE])
  <2>1. PICK u : u = [t EXCEPT !.alone = FALSE]
    OBVIOUS
  <2>2. u = [step |-> t.step, material |-> t.material, to |-> t.to, seen |-> t.seen,
             read |-> t.read, new |-> t.new, rebuilt |-> t.rebuilt, alone |-> FALSE]
    BY <1>4, <2>1 DEF Request
  <2>3. /\ u.step = t.step /\ u.seen = t.seen /\ u.read = t.read /\ u.new = t.new
        /\ u.rebuilt = t.rebuilt
    BY <2>2
  <2> QED BY <1>4, <2>1, <2>3 DEF SumsHeld
<1>5. \A v \in Workers : tx'[v] # NULL => SumsHeld(tx'[v])
  BY <1>2, <1>3, <1>4 DEF RaceInv, RequestTypes, TypesInv
<1>6. opened' \in 0 .. MaxOpened /\ overlapped' \in BOOLEAN /\ summaries' = summaries
  BY RaceAssumption DEF Open, TypesInv
<1> QED BY <1>5, <1>6 DEF TypesInv, SumsHeld, Sums, Partial

(* What a request reads back after its flush are rows.                     *)
LEMMA ViewType ==
  ASSUME RaceInv, NEW w \in Workers, At(w, "flushed")
  PROVE  View(w) \in [Materials -> Rows]
<1>1. PICK t : t = tx[w]
  OBVIOUS
<1>2. Request(t) /\ HasRead(t) /\ t.step = "flushed"
  BY <1>1 DEF At, RaceInv, RequestTypes
<1>3. t.read \in Rows /\ t.new \in Rows /\ t.material \in Materials
  BY <1>2, OverriddenRowType DEF HasRead, Request
<1>4. PICK new, sup : new = t.new /\ sup = Written(rows[t.material], t.read, new).supplier
  OBVIOUS
<1>5. sup \in Suppliers
  <2>1. rows[t.material] \in Rows
    BY <1>3 DEF RaceInv, RowTypes
  <2>2. Written(rows[t.material], t.read, new) \in Rows
    BY <1>3, <1>4, <2>1, WrittenType
  <2> QED BY <1>4, <2>2 DEF Rows
<1>6. [new EXCEPT !.supplier = sup] \in Rows
  BY <1>3, <1>4, <1>5 DEF Rows
<1>7. View(w) = [rows EXCEPT ![t.material] = [new EXCEPT !.supplier = sup]]
  BY <1>1, <1>4 DEF View
<1> QED BY <1>3, <1>6, <1>7 DEF RaceInv, RowTypes

LEMMA TypesStep == RaceInv /\ TypesInv /\ [Next]_vars => TypesInv'
<1> SUFFICES ASSUME RaceInv, TypesInv, [Next]_vars PROVE TypesInv'
  OBVIOUS
<1>1. ASSUME UNCHANGED vars PROVE TypesInv'
  BY <1>1 DEF vars, TypesInv, SumsHeld, Sums, Partial
<1>2. ASSUME NEW w \in Workers, Read(w) PROVE TypesInv'
  <2>1. PICK t : t = tx[w]
    OBVIOUS
  <2>2. Request(t) /\ SumsHeld(t)
    BY <1>2, <2>1 DEF Read, At, RaceInv, RequestTypes, TypesInv
  <2>3. PICK row, n : row = rows[t.material] /\ n = OverriddenRow(row, t.material, t.to)
    OBVIOUS
  <2>4. PICK u : u = [t EXCEPT !.step = "read", !.read = row, !.new = n]
    OBVIOUS
  <2>5. tx' = [tx EXCEPT ![w] = u]
    BY <1>2, <2>1, <2>3, <2>4 DEF Read, RaceInv, RequestTypes
  <2>6. u = [step |-> "read", material |-> t.material, to |-> t.to, seen |-> t.seen,
             read |-> row, new |-> n, rebuilt |-> t.rebuilt, alone |-> t.alone]
    BY <2>2, <2>4 DEF Request
  <2>7. SumsHeld(u)
    BY <2>2, <2>6 DEF SumsHeld
  <2> QED BY <1>2, <2>5, <2>7, TypesMove DEF Read, TypesInv
<1>3. ASSUME NEW w \in Workers, Flush(w) PROVE TypesInv'
  <2>1. PICK t : t = tx[w]
    OBVIOUS
  <2>2. Request(t) /\ SumsHeld(t) /\ t.step = "read"
    BY <1>3, <2>1 DEF Flush, At, RaceInv, RequestTypes, TypesInv
  <2>3. PICK u : u = [t EXCEPT !.step = "flushed"]
    OBVIOUS
  <2>4. u = [step |-> "flushed", material |-> t.material, to |-> t.to, seen |-> t.seen,
             read |-> t.read, new |-> t.new, rebuilt |-> t.rebuilt, alone |-> t.alone]
    BY <2>2, <2>3 DEF Request
  <2>5. tx' = [tx EXCEPT ![w] = u] /\ SumsHeld(u)
    BY <1>3, <2>1, <2>2, <2>3, <2>4 DEF Flush, RaceInv, RequestTypes, SumsHeld
  <2> QED BY <1>3, <2>5, TypesMove DEF Flush, TypesInv
<1>4. ASSUME NEW w \in Workers, Rebuild(w) PROVE TypesInv'
  <2>1. PICK t : t = tx[w]
    OBVIOUS
  <2>2. Request(t) /\ HasRead(t) /\ SumsHeld(t) /\ t.step = "flushed" /\ At(w, "flushed")
    BY <1>4, <2>1 DEF Rebuild, At, RaceInv, RequestTypes, TypesInv
  <2>3. PICK s : /\ s \in {t.read.supplier, t.to}
                 /\ tx' = [tx EXCEPT ![w].rebuilt =
                     [u \in DOMAIN @ \cup {s} |-> IF u = s THEN Rebuilt(View(w), s) ELSE @[u]]]
    BY <1>4, <2>1 DEF Rebuild
  <2>4. PICK old, one, sums :
          /\ old = t.rebuilt /\ one = Rebuilt(View(w), s)
          /\ sums = [u \in DOMAIN old \cup {s} |-> IF u = s THEN one ELSE old[u]]
    OBVIOUS
  <2>5. PICK u : u = [t EXCEPT !.rebuilt = sums]
    OBVIOUS
  <2>6. tx' = [tx EXCEPT ![w] = u]
    BY <2>1, <2>3, <2>4, <2>5 DEF RaceInv, RequestTypes
  <2>7. u = [step |-> "flushed", material |-> t.material, to |-> t.to, seen |-> t.seen,
             read |-> t.read, new |-> t.new, rebuilt |-> sums, alone |-> t.alone]
    BY <2>2, <2>5 DEF Request
  <2>8. one \in Nat \cup {NULL} /\ s \in Suppliers
    BY <2>2, <2>3, <2>4, ViewType, RebuiltType DEF HasRead, Request, Rows
  <2>9. Partial(sums)
    BY <2>2, <2>4, <2>8 DEF Partial, SumsHeld
  <2>10. SumsHeld(u)
    BY <2>2, <2>7, <2>9 DEF SumsHeld
  <2> QED BY <1>4, <2>6, <2>10, TypesMove DEF Rebuild, TypesInv
<1>5. ASSUME NEW w \in Workers, Commit(w) PROVE TypesInv'
  <2>1. SumsHeld(tx[w])
    BY <1>5 DEF Commit, At, TypesInv
  <2>2. summaries' \in Sums
    BY <1>5, <2>1, MergedType DEF Commit, SumsHeld, TypesInv
  <2> QED BY <1>5, <2>2, TypesMove DEF Commit
<1>6. ASSUME NEW w \in Workers, Abort(w) PROVE TypesInv'
  BY <1>6, TypesMove DEF Abort, TypesInv
<1> QED BY <1>1, <1>2, <1>3, <1>4, <1>5, <1>6, TypesOpen DEF Next, Advance

LEMMA TypesHold == RaceInv /\ TypesInv => TypeOK
<1> SUFFICES ASSUME RaceInv, TypesInv PROVE TypeOK
  OBVIOUS
<1>1. ASSUME NEW w \in Workers, tx[w] # NULL
      PROVE  /\ tx[w].step \in {"opened", "read", "flushed"}
             /\ tx[w].read \in Rows \cup {NULL} /\ tx[w].new \in Rows \cup {NULL}
             /\ DOMAIN tx[w].rebuilt \subseteq Suppliers
  <2>1. PICK t : t = tx[w]
    OBVIOUS
  <2>2. Request(t) /\ HasRead(t) /\ SumsHeld(t)
    BY <1>1, <2>1 DEF RaceInv, RequestTypes, TypesInv
  <2>3. t.read \in Rows \cup {NULL} /\ t.new \in Rows \cup {NULL}
    BY <2>2, OverriddenRowType DEF Request, HasRead, SumsHeld
  <2> QED BY <2>1, <2>2, <2>3 DEF Request, SumsHeld, Partial
<1> QED BY <1>1 DEF TypeOK, RaceInv, RowTypes, TypesInv, Sums

(* While requests come one after another: each is alone, the summaries are *)
(* those of the lines, and the lines are exact.                            *)
SerialInv == ~overlapped =>
  /\ \A w \in Workers : tx[w] # NULL => tx[w].alone
  /\ \A s \in Suppliers : summaries[s] = Rebuilt(rows, s)
  /\ \A m \in Materials : LineExact(rows, m)

LEMMA SolverRowExact ==
  ASSUME Init, NEW m \in Materials
  PROVE  LineExact(rows, m)
<1>1. PICK s, q : s = chosen[m] /\ q = Larger(Need[m], Moq[m][s])
  OBVIOUS
<1>2. rows[m] = [supplier |-> s, price |-> Price[m][s], quantity |-> q,
                 needed |-> Recorded(Need[m], q), total |-> Price[m][s] * q,
                 overridden |-> FALSE, original |-> NULL, originalPrice |-> NULL]
  BY <1>1 DEF Init, SolverRow
<1>3. Need[m] # NULL
  BY RaceAssumption
<1> QED BY <1>1, <1>2, <1>3 DEF LineExact, DemandOf, Recorded

(* An override of an exact line is exact.                                  *)
LEMMA OverriddenRowExact ==
  ASSUME NEW m \in Materials, NEW ls, NEW row, DemandOf(row) = Need[m], NEW s,
         ls[m] = OverriddenRow(row, m, s)
  PROVE  LineExact(ls, m) /\ ls[m].supplier = s
<1>1. PICK q : q = Larger(Need[m], Moq[m][s])
  OBVIOUS
<1>2. PICK o : o = Origin(row)
  OBVIOUS
<1>3. ls[m] = [supplier |-> s, price |-> Price[m][s], quantity |-> q,
               needed |-> Recorded(Need[m], q), total |-> Price[m][s] * q,
               overridden |-> TRUE, original |-> o.supplier, originalPrice |-> o.price]
  BY <1>1, <1>2 DEF OverriddenRow
<1>4. Need[m] # NULL
  BY RaceAssumption
<1> QED BY <1>1, <1>3, <1>4 DEF LineExact, DemandOf, Recorded

(* A supplier the line neither leaves nor joins keeps its summary.         *)
LEMMA OthersKeepTheirSum ==
  ASSUME NEW ls, NEW after, NEW m, NEW s, ls[m].supplier # s, after[m].supplier # s,
         \A n \in Materials : n # m => after[n] = ls[n]
  PROVE  Rebuilt(after, s) = Rebuilt(ls, s)
<1>1. LinesOf(after, s) = LinesOf(ls, s) /\ m \notin LinesOf(ls, s)
  BY DEF LinesOf
<1>2. PICK L : L = LinesOf(ls, s)
  OBVIOUS
<1>3. \A n \in L : after[n] = ls[n]
  BY <1>1, <1>2 DEF LinesOf
<1>4. [n \in L |-> after[n].total] = [n \in L |-> ls[n].total]
  BY <1>3
<1> QED BY <1>1, <1>2, <1>4 DEF Rebuilt

LEMMA SerialCommit ==
  ASSUME RaceInv, LoneInv, TypesInv, SerialInv, NEW w \in Workers, Commit(w)
  PROVE  SerialInv'
<1> SUFFICES ASSUME ~overlapped PROVE SerialInv'
  BY DEF Commit, SerialInv
<1>1. PICK t : t = tx[w]
  OBVIOUS
<1>2. /\ Request(t) /\ HasRead(t) /\ At(w, "flushed") /\ t.step = "flushed" /\ Undisturbed(t)
      /\ t.alone
  BY <1>1 DEF Commit, At, RaceInv, RequestTypes, LoneInv, SerialInv
<1>3. PICK m \in Materials : m = t.material
  BY <1>2 DEF Request
<1>4. rows' = [rows EXCEPT ![m] = t.new]
  BY <1>1, <1>2, <1>3, UndisturbedView DEF Commit
<1>5. rows'[m] = OverriddenRow(rows[m], m, t.to) /\ \A n \in Materials : n # m => rows'[n] = rows[n]
  BY <1>2, <1>3, <1>4 DEF RaceInv, RowTypes, HasRead, Undisturbed
<1>6. LineExact(rows', m) /\ rows'[m].supplier = t.to
  BY <1>5, OverriddenRowExact DEF SerialInv, LineExact
<1>7. \A n \in Materials : LineExact(rows', n)
  BY <1>5, <1>6 DEF SerialInv, LineExact
<1>8. ASSUME NEW s \in Suppliers PROVE summaries'[s] = Rebuilt(rows', s)
  <2>1. CASE s \in Touched(w)
    BY <1>1, <1>2, <2>1, LoneCommit
  <2>2. CASE s \notin Touched(w)
    <3>1. rows[m].supplier # s /\ rows'[m].supplier # s
      BY <1>1, <1>2, <1>3, <1>6, <2>2 DEF Touched, Undisturbed
    <3>2. Rebuilt(rows', s) = Rebuilt(rows, s)
      BY <1>5, <3>1, OthersKeepTheirSum
    <3>3. summaries' = Merged(t.seen, t.rebuilt) /\ t.seen = summaries
      BY <1>1, <1>2 DEF Commit, Undisturbed
    <3>4. DOMAIN t.rebuilt = Touched(w)
      BY <1>1 DEF Commit
    <3>5. summaries'[s] = summaries[s]
      BY <2>2, <3>3, <3>4 DEF Merged
    <3> QED BY <3>2, <3>5 DEF SerialInv
  <2> QED BY <2>1, <2>2
<1>9. tx' = [v \in Workers |-> IF v = w THEN NULL ELSE tx[v]]
  BY DEF Commit, RaceInv, RequestTypes
<1>10. \A v \in Workers : tx'[v] # NULL => tx'[v].alone
  BY <1>9 DEF SerialInv
<1>11. \A n \in Materials : LineExact(rows, n)'
  BY <1>7 DEF LineExact
<1>12. \A s \in Suppliers : summaries'[s] = Rebuilt(rows, s)'
  BY <1>8 DEF Rebuilt, LinesOf
<1> QED BY <1>10, <1>11, <1>12 DEF SerialInv

(* A step that leaves the plan as it is.                                   *)
LEMMA SerialStays ==
  ASSUME SerialInv, UNCHANGED <<rows, summaries>>,
         ~overlapped' => ~overlapped /\ \A w \in Workers : tx'[w] # NULL => tx'[w].alone
  PROVE  SerialInv'
<1>1. ASSUME ~overlapped'
      PROVE  /\ \A s \in Suppliers : summaries'[s] = Rebuilt(rows', s)
             /\ \A m \in Materials : LineExact(rows', m)
  BY <1>1 DEF SerialInv
<1>2. /\ \A s : Rebuilt(rows', s) = Rebuilt(rows, s)'
      /\ \A m : LineExact(rows', m) = LineExact(rows, m)'
  BY DEF Rebuilt, LinesOf, LineExact
<1> QED BY <1>1, <1>2 DEF SerialInv

LEMMA SerialMoves ==
  ASSUME RaceInv, SerialInv, NEW w \in Workers, tx[w] # NULL, NEW u, tx' = [tx EXCEPT ![w] = u],
         u # NULL => u.alone = tx[w].alone, UNCHANGED <<rows, summaries, overlapped>>
  PROVE  SerialInv'
<1>1. tx' = [v \in Workers |-> IF v = w THEN u ELSE tx[v]]
  BY DEF RaceInv, RequestTypes
<1>2. ~overlapped' => ~overlapped /\ \A v \in Workers : tx'[v] # NULL => tx'[v].alone
  BY <1>1 DEF SerialInv
<1> QED BY <1>2, SerialStays

LEMMA SerialStep == RaceInv /\ LoneInv /\ TypesInv /\ SerialInv /\ [Next]_vars => SerialInv'
<1> SUFFICES ASSUME RaceInv, LoneInv, TypesInv, SerialInv, [Next]_vars PROVE SerialInv'
  OBVIOUS
<1>1. ASSUME UNCHANGED vars PROVE SerialInv'
  BY <1>1, SerialStays DEF vars, SerialInv
<1>2. ASSUME NEW w \in Workers, NEW m \in Materials, NEW s \in Suppliers, Open(w, m, s)
      PROVE  SerialInv'
  <2>1. PICK mine : mine = [step |-> "opened", material |-> m, to |-> s, seen |-> summaries,
                            read |-> NULL, new |-> NULL, rebuilt |-> <<>>,
                            alone |-> {v \in Workers : tx[v] # NULL} = {}]
    OBVIOUS
  <2>2. PICK others : others = {u \in Workers : tx[u] # NULL}
    OBVIOUS
  <2>3. tx' = [v \in Workers |->
                 IF v = w THEN mine
                 ELSE IF v \in others THEN [tx[v] EXCEPT !.alone = FALSE] ELSE tx[v]]
    BY <1>2, <2>1, <2>2 DEF Open
  <2>4. overlapped' = (overlapped \/ others # {})
    BY <1>2, <2>2 DEF Open
  <2>5. ASSUME ~overlapped' PROVE ~overlapped /\ \A v \in Workers : tx'[v] # NULL => tx'[v].alone
    <3>1. others = {} /\ ~overlapped
      BY <2>4, <2>5
    <3>2. mine.alone = TRUE
      BY <2>1, <2>2, <3>1
    <3>3. ASSUME NEW v \in Workers, tx'[v] # NULL PROVE tx'[v].alone
      <4>1. v = w
        BY <2>2, <2>3, <3>1, <3>3
      <4> QED BY <2>3, <3>2, <4>1
    <3> QED BY <3>1, <3>3
  <2> QED BY <1>2, <2>5, SerialStays DEF Open
<1>4. ASSUME NEW w \in Workers, Read(w) PROVE SerialInv'
  <2>1. PICK t : t = tx[w]
    OBVIOUS
  <2>2. PICK row, n : row = rows[t.material] /\ n = OverriddenRow(row, t.material, t.to)
    OBVIOUS
  <2>3. PICK u : u = [t EXCEPT !.step = "read", !.read = row, !.new = n]
    OBVIOUS
  <2>4. tx' = [tx EXCEPT ![w] = u] /\ Request(t) /\ t # NULL
    BY <1>4, <2>1, <2>2, <2>3 DEF Read, At, RaceInv, RequestTypes
  <2>5. u.alone = t.alone
    BY <2>3, <2>4 DEF Request
  <2> QED BY <1>4, <2>1, <2>4, <2>5, SerialMoves DEF Read
<1>5. ASSUME NEW w \in Workers, Flush(w) PROVE SerialInv'
  <2>1. PICK t : t = tx[w]
    OBVIOUS
  <2>2. PICK u : u = [t EXCEPT !.step = "flushed"]
    OBVIOUS
  <2>3. tx' = [tx EXCEPT ![w] = u] /\ Request(t) /\ t # NULL
    BY <1>5, <2>1, <2>2 DEF Flush, At, RaceInv, RequestTypes
  <2>4. u.alone = t.alone
    BY <2>2, <2>3 DEF Request
  <2> QED BY <1>5, <2>1, <2>3, <2>4, SerialMoves DEF Flush
<1>6. ASSUME NEW w \in Workers, Rebuild(w) PROVE SerialInv'
  <2>1. PICK t : t = tx[w]
    OBVIOUS
  <2>2. PICK sums : tx' = [tx EXCEPT ![w].rebuilt = sums]
    BY <1>6 DEF Rebuild
  <2>3. PICK u : u = [t EXCEPT !.rebuilt = sums]
    OBVIOUS
  <2>4. tx' = [tx EXCEPT ![w] = u] /\ Request(t) /\ t # NULL
    BY <1>6, <2>1, <2>2, <2>3 DEF Rebuild, At, RaceInv, RequestTypes
  <2>5. u.alone = t.alone
    BY <2>3, <2>4 DEF Request
  <2> QED BY <1>6, <2>1, <2>4, <2>5, SerialMoves DEF Rebuild
<1>7. ASSUME NEW w \in Workers, Abort(w) PROVE SerialInv'
  BY <1>7, SerialMoves DEF Abort
<1> QED BY <1>1, <1>2, <1>4, <1>5, <1>6, <1>7, SerialCommit DEF Next, Advance

LEMMA SerialInit == Init => SerialInv
<1> SUFFICES ASSUME Init PROVE SerialInv
  OBVIOUS
<1>1. \A m \in Materials : LineExact(rows, m)
  BY SolverRowExact
<1> QED BY <1>1 DEF Init, SerialInv

(* Types; and while requests come one after another, failed ones included, *)
(* the stored summaries are exactly those of the lines and every line is   *)
(* what its need and its supplier's minimum make it.                       *)
THEOREM SerialCorrect == Spec => []SerialPlanIsExact
<1>1. Init => LoneInv
  BY DEF Init, LoneInv
<1>2. RaceInv /\ TypesInv /\ SerialInv => SerialPlanIsExact
  BY TypesHold DEF SerialInv, SerialPlanIsExact
<1> QED
  BY InitHolds, RaceStep, LoneStep, TypesInit, TypesStep, SerialInit, SerialStep, <1>1, <1>2,
     PTL DEF Spec
=============================================================================
