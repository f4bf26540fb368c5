---------------------------- MODULE Prices_proofs ----------------------------
(***************************************************************************)
(* TLAPS proofs about Prices, for any number of concurrent requests,       *)
(* prices and rows: the types, that a pair never has two active prices,    *)
(* that it never loses its active price to a half-done version, and that   *)
(* the whole implements PriceCell.                                         *)
(***************************************************************************)
EXTENDS Prices, TLAPS

(* Ids are handed out in order: no row sits above the counter.             *)
IdsInOrder == \A i \in Ids : i > inserted => rows[i] = NULL

(* What a request carries at each statement: a row to insert unless it     *)
(* deletes, a row to write when it writes one, and in closed only rows     *)
(* that are still there, because the lock keeps the others away.           *)
RequestsReady ==
  \A w \in Workers : tx[w] # NULL =>
    /\ tx[w].step # "delete" => tx[w].row \in Rows
    /\ tx[w].step = "delete" => tx[w].closed = {}
    /\ tx[w].step \in {"closeRead", "closeFound", "delete"} => tx[w].old \in Ids
    /\ \A i \in tx[w].closed : rows[i] # NULL

PricesInv == TypeOK /\ IdsInOrder /\ RequestsReady /\ OneActive

LEMMA InitHolds == Init => PricesInv
  BY PricesAssumption
  DEF Init, PricesInv, TypeOK, IdsInOrder, RequestsReady, OneActive, Active, Ids

(* A first read only opens a request.                                      *)
LEMMA BeginHolds ==
  ASSUME PricesInv, NEW w \in Workers,
         NEW step \in {"findActive", "insert", "closeRead", "delete"},
         NEW old \in Ids \cup {NULL}, NEW row \in Rows \cup {NULL},
         step # "delete" => row \in Rows,
         step \in {"closeRead", "delete"} => old \in Ids,
         Begins(w, step, old, row)
  PROVE  PricesInv'
<1> DEFINE req == [step |-> step, old |-> old, closed |-> {}, row |-> row]
<1>1. /\ tx' = [tx EXCEPT ![w] = req]
      /\ UNCHANGED <<rows, inserted, confirmed>>
  BY DEF Begins
<1>2. req \in Requests
  BY DEF Requests
<1>3. TypeOK'
  BY <1>1, <1>2 DEF PricesInv, TypeOK
<1>4. RequestsReady'
  <2> SUFFICES ASSUME NEW v \in Workers, tx'[v] # NULL
               PROVE  /\ tx'[v].step # "delete" => tx'[v].row \in Rows
                      /\ tx'[v].step = "delete" => tx'[v].closed = {}
                      /\ tx'[v].step \in {"closeRead", "closeFound", "delete"} => tx'[v].old \in Ids
                      /\ \A i \in tx'[v].closed : rows'[i] # NULL
    BY <1>1 DEF RequestsReady, Ids, Rows
  <2>1. CASE v = w
    <3>1. tx'[v] = req
      BY <1>1, <2>1 DEF PricesInv, TypeOK
    <3> QED BY <3>1
  <2>2. CASE v # w
    <3>1. tx'[v] = tx[v]
      BY <1>1, <2>2 DEF PricesInv, TypeOK
    <3> QED BY <1>1, <3>1 DEF PricesInv, RequestsReady
  <2> QED BY <2>1, <2>2
<1>5. IdsInOrder' /\ OneActive'
  BY <1>1 DEF PricesInv, IdsInOrder, OneActive, Active, Ids
<1> QED BY <1>3, <1>4, <1>5 DEF PricesInv

(* A worker that moves on with a well-formed request, or ends it, while    *)
(* the rows stay.                                                          *)
LEMMA MoveHolds ==
  ASSUME PricesInv, NEW w \in Workers, NEW req \in Requests \cup {NULL},
         UNCHANGED <<rows, inserted>>, confirmed' \in Values \cup {NULL},
         tx' = [tx EXCEPT ![w] = req],
         req # NULL => /\ req.step # "delete" => req.row \in Rows
                       /\ req.step = "delete" => req.closed = {}
                       /\ req.step \in {"closeRead", "closeFound", "delete"} => req.old \in Ids
                       /\ \A i \in req.closed : rows[i] # NULL
  PROVE  PricesInv'
<1>1. TypeOK'
  BY DEF PricesInv, TypeOK, Ids, Rows, Requests
<1>2. RequestsReady'
  <2> SUFFICES ASSUME NEW v \in Workers, tx'[v] # NULL
               PROVE  /\ tx'[v].step # "delete" => tx'[v].row \in Rows
                      /\ tx'[v].step = "delete" => tx'[v].closed = {}
                      /\ tx'[v].step \in {"closeRead", "closeFound", "delete"} => tx'[v].old \in Ids
                      /\ \A i \in tx'[v].closed : rows'[i] # NULL
    BY DEF RequestsReady, Ids, Rows
  <2>1. CASE v = w
    <3>1. tx'[v] = req
      BY <2>1 DEF PricesInv, TypeOK
    <3> QED BY <3>1
  <2>2. CASE v # w
    <3>1. tx'[v] = tx[v]
      BY <2>2 DEF PricesInv, TypeOK
    <3> QED BY <3>1 DEF PricesInv, RequestsReady
  <2> QED BY <2>1, <2>2
<1>3. IdsInOrder' /\ OneActive'
  BY DEF PricesInv, IdsInOrder, OneActive, Active, Ids
<1> QED BY <1>1, <1>2, <1>3 DEF PricesInv

LEMMA FindActiveHolds ==
  ASSUME PricesInv, NEW w \in Workers, FindActive(w) PROVE PricesInv'
<1>1. /\ tx[w] # NULL /\ tx[w] \in Requests /\ tx[w].step = "findActive"
      /\ tx[w].row \in Rows /\ \A i \in tx[w].closed : rows[i] # NULL
  BY DEF FindActive, At, PricesInv, TypeOK, RequestsReady
<1>2. CASE tx' = [tx EXCEPT ![w].step = "insert", ![w].old = NULL]
  <2> DEFINE req == [tx[w] EXCEPT !.step = "insert", !.old = NULL]
  <2>1. req \in Requests /\ req.row = tx[w].row /\ req.step = "insert" /\ req.closed = tx[w].closed
    BY <1>1 DEF Requests
  <2>2. tx' = [tx EXCEPT ![w] = req] /\ UNCHANGED <<rows, inserted, confirmed>>
    BY <1>2 DEF FindActive, PricesInv, TypeOK
  <2> HIDE DEF req
  <2> QED BY <1>1, <2>1, <2>2, MoveHolds DEF PricesInv, TypeOK
<1>3. ASSUME NEW i \in Active \ tx[w].closed,
             tx' = [tx EXCEPT ![w].step = "closeFound", ![w].old = i]
      PROVE  PricesInv'
  <2> DEFINE req == [tx[w] EXCEPT !.step = "closeFound", !.old = i]
  <2>1. /\ req \in Requests /\ req.row = tx[w].row /\ req.step = "closeFound"
        /\ req.closed = tx[w].closed /\ req.old \in Ids
    BY <1>1 DEF Requests, Active
  <2>2. tx' = [tx EXCEPT ![w] = req] /\ UNCHANGED <<rows, inserted, confirmed>>
    BY <1>3 DEF FindActive, PricesInv, TypeOK
  <2> HIDE DEF req
  <2> QED BY <1>1, <2>1, <2>2, MoveHolds DEF PricesInv, TypeOK
<1> QED BY <1>2, <1>3 DEF FindActive

LEMMA CloseHolds ==
  ASSUME PricesInv, NEW w \in Workers, Close(w) PROVE PricesInv'
<1>1. /\ tx[w] # NULL /\ tx[w] \in Requests /\ tx[w].step \in {"closeRead", "closeFound"}
      /\ tx[w].row \in Rows /\ tx[w].old \in Ids /\ \A i \in tx[w].closed : rows[i] # NULL
  BY DEF Close, At, PricesInv, TypeOK, RequestsReady
<1> DEFINE next == IF At(w, "closeRead") THEN "findActive" ELSE "insert"
           req == [tx[w] EXCEPT !.step = next, !.closed = @ \cup {tx[w].old}]
<1>2. next \in {"findActive", "insert"}
  OBVIOUS
<1>3. rows[tx[w].old] # NULL
  BY DEF Close
<1>4. /\ req \in Requests /\ req.row = tx[w].row /\ req.step \in {"findActive", "insert"}
      /\ \A i \in req.closed : rows[i] # NULL
  BY <1>1, <1>2, <1>3 DEF Requests
<1>5. tx' = [tx EXCEPT ![w] = req] /\ UNCHANGED <<rows, inserted, confirmed>>
  BY DEF Close, PricesInv, TypeOK
<1> HIDE DEF req, next
<1> QED BY <1>1, <1>4, <1>5, MoveHolds DEF PricesInv, TypeOK

(* The insert closes what the request closed and adds one row: the unique  *)
(* index makes sure that these were all the active rows.                   *)
LEMMA InsertHolds ==
  ASSUME PricesInv, NEW w \in Workers, InsertAndCommit(w)
  PROVE  PricesInv' /\ (tx[w].row.active => Active' # {})
                    /\ (tx[w].row \in Rows)
<1> DEFINE n == inserted + 1
<1>1. /\ tx[w] # NULL /\ tx[w] \in Requests /\ tx[w].row \in Rows
      /\ \A i \in tx[w].closed : rows[i] # NULL
  BY DEF InsertAndCommit, At, PricesInv, TypeOK, RequestsReady
<1>2. /\ n \in Ids /\ n = inserted + 1 /\ inserted' = n
      /\ rows' = [i \in Ids |-> IF i = n THEN tx[w].row
                                ELSE IF i \in tx[w].closed THEN [rows[i] EXCEPT !.active = FALSE]
                                ELSE rows[i]]
      /\ tx' = [tx EXCEPT ![w] = NULL] /\ confirmed' = confirmed
      /\ tx[w].row.active => Active \subseteq tx[w].closed
  BY DEF InsertAndCommit, IndexAdmits
<1> HIDE DEF n
<1>3. ASSUME NEW i \in Ids, rows[i] # NULL
      PROVE  /\ rows[i] \in Rows
             /\ [rows[i] EXCEPT !.active = FALSE] \in Rows
             /\ ~[rows[i] EXCEPT !.active = FALSE].active
  BY <1>3 DEF PricesInv, TypeOK, Rows
<1>4. tx[w].closed \subseteq Ids
  BY <1>1 DEF Requests
<1>5. rows' \in [Ids -> Rows \cup {NULL}]
  BY <1>1, <1>2, <1>3, <1>4 DEF PricesInv, TypeOK
<1>6. TypeOK'
  BY <1>2, <1>5 DEF PricesInv, TypeOK, Ids
<1>7. IdsInOrder'
  <2> SUFFICES ASSUME NEW i \in Ids, i > inserted' PROVE rows'[i] = NULL
    BY DEF IdsInOrder, Ids
  <2>1. i # n /\ i > inserted
    BY <1>2 DEF Ids, PricesInv, TypeOK
  <2>2. rows[i] = NULL
    BY <2>1 DEF PricesInv, IdsInOrder
  <2> QED BY <1>1, <1>2, <2>1, <2>2
<1>8. ASSUME NEW i \in Ids, rows[i] # NULL PROVE rows'[i] # NULL
  BY <1>1, <1>2, <1>3, <1>8, NullIsNoRow
<1>9. RequestsReady'
  <2> SUFFICES ASSUME NEW v \in Workers, tx'[v] # NULL
               PROVE  /\ tx'[v].step # "delete" => tx'[v].row \in Rows
                      /\ tx'[v].step = "delete" => tx'[v].closed = {}
                      /\ tx'[v].step \in {"closeRead", "closeFound", "delete"} => tx'[v].old \in Ids
                      /\ \A i \in tx'[v].closed : rows'[i] # NULL
    BY DEF RequestsReady, Ids, Rows
  <2>1. tx'[v] = tx[v]
    BY <1>2 DEF PricesInv, TypeOK
  <2>2. tx[v].closed \subseteq Ids
    BY <2>1 DEF PricesInv, TypeOK, Requests
  <2> QED BY <1>8, <2>1, <2>2 DEF PricesInv, RequestsReady
<1>10. ASSUME NEW i \in Ids, i # n, i \in Active' PROVE i \in Active /\ i \notin tx[w].closed
  BY <1>1, <1>2, <1>3, <1>10 DEF Active
<1>11. OneActive'
  <2>1. CASE tx[w].row.active
    <3>1. \A i \in Active' : i = n
      BY <1>2, <1>10, <2>1 DEF Active, Ids
    <3> QED BY <3>1 DEF OneActive
  <2>2. CASE ~tx[w].row.active
    <3>1. n \notin Active'
      BY <1>2, <2>2 DEF Active
    <3>2. \A i \in Active' : i \in Active
      BY <1>10, <3>1 DEF Active, Ids
    <3> QED BY <3>2 DEF PricesInv, OneActive
  <2> QED BY <2>1, <2>2
<1>12. ASSUME tx[w].row.active PROVE n \in Active'
  <2>1. rows'[n] = tx[w].row
    BY <1>2
  <2> QED BY <1>1, <1>2, <1>12, <2>1, NullIsNoRow DEF Active, Ids
<1> QED BY <1>1, <1>6, <1>7, <1>9, <1>11, <1>12 DEF PricesInv

LEMMA DeleteHolds ==
  ASSUME PricesInv, NEW w \in Workers, DeleteAndCommit(w) PROVE PricesInv'
<1> DEFINE i == tx[w].old
<1>1. /\ tx[w] # NULL /\ i \in Ids /\ tx[w].closed = {}
      /\ rows' = [rows EXCEPT ![i] = NULL] /\ tx' = [tx EXCEPT ![w] = NULL]
      /\ UNCHANGED <<inserted, confirmed>>
      /\ \A v \in Workers \ {w} : tx[v] # NULL => i \notin tx[v].closed
  BY DEF DeleteAndCommit, Unlocked, At, PricesInv, RequestsReady
<1> HIDE DEF i
<1>2. TypeOK'
  BY <1>1 DEF PricesInv, TypeOK, Ids
<1>3. IdsInOrder' /\ OneActive'
  BY <1>1 DEF PricesInv, TypeOK, IdsInOrder, OneActive, Active, Ids
<1>4. RequestsReady'
  <2> SUFFICES ASSUME NEW v \in Workers, tx'[v] # NULL
               PROVE  /\ tx'[v].step # "delete" => tx'[v].row \in Rows
                      /\ tx'[v].step = "delete" => tx'[v].closed = {}
                      /\ tx'[v].step \in {"closeRead", "closeFound", "delete"} => tx'[v].old \in Ids
                      /\ \A k \in tx'[v].closed : rows'[k] # NULL
    BY DEF RequestsReady, Ids, Rows
  <2>1. v # w /\ tx'[v] = tx[v]
    BY <1>1 DEF PricesInv, TypeOK
  <2>2. tx[v].closed \subseteq Ids /\ i \notin tx[v].closed
    BY <1>1, <2>1 DEF PricesInv, TypeOK, Requests
  <2>3. \A k \in tx[v].closed : rows'[k] = rows[k]
    BY <1>1, <2>2 DEF PricesInv, TypeOK
  <2> QED BY <2>1, <2>3 DEF PricesInv, RequestsReady
<1> QED BY <1>2, <1>3, <1>4 DEF PricesInv

(* Midnight only lets rows begin: the same rows are active.                *)
LEMMA DayHolds == PricesInv /\ DayPasses => PricesInv' /\ Active' = Active
<1> SUFFICES ASSUME PricesInv, DayPasses PROVE PricesInv' /\ Active' = Active
  OBVIOUS
<1>1. /\ rows' = [i \in Ids |-> IF rows[i] = NULL THEN NULL ELSE [rows[i] EXCEPT !.later = FALSE]]
      /\ UNCHANGED <<inserted, confirmed, tx>>
  BY DEF DayPasses
<1>2. ASSUME NEW i \in Ids, rows[i] # NULL
      PROVE  /\ rows'[i] \in Rows /\ rows'[i] # NULL /\ rows'[i].active = rows[i].active
  <2>1. rows[i] \in Rows
    BY <1>2 DEF PricesInv, TypeOK
  <2>2. rows'[i] = [rows[i] EXCEPT !.later = FALSE]
    BY <1>1, <1>2
  <2>3. rows'[i] \in Rows
    BY <2>1, <2>2 DEF Rows
  <2>4. rows'[i].active = rows[i].active
    BY <2>1, <2>2 DEF Rows
  <2> QED BY <2>3, <2>4, NullIsNoRow
<1>3. ASSUME NEW i \in Ids, rows[i] = NULL PROVE rows'[i] = NULL
  BY <1>1, <1>3
<1>4. TypeOK'
  BY <1>1, <1>2, <1>3 DEF PricesInv, TypeOK
<1>5. Active' = Active
  <2>1. \A i \in Ids : rows'[i] # NULL /\ rows'[i].active <=> rows[i] # NULL /\ rows[i].active
    BY <1>2, <1>3
  <2> QED BY <2>1 DEF Active, Ids
<1>6. IdsInOrder' /\ OneActive'
  BY <1>1, <1>3, <1>5 DEF PricesInv, IdsInOrder, OneActive, Ids
<1>7. RequestsReady'
  <2> SUFFICES ASSUME NEW v \in Workers, tx[v] # NULL
               PROVE  /\ tx[v].step # "delete" => tx[v].row \in Rows
                      /\ tx[v].step = "delete" => tx[v].closed = {}
                      /\ tx[v].step \in {"closeRead", "closeFound", "delete"} => tx[v].old \in Ids
                      /\ \A i \in tx[v].closed : rows'[i] # NULL
    BY <1>1 DEF RequestsReady, Ids, Rows
  <2>1. tx[v].closed \subseteq Ids
    BY DEF PricesInv, TypeOK, Requests
  <2> QED BY <1>2, <2>1 DEF PricesInv, RequestsReady
<1> QED BY <1>4, <1>5, <1>6, <1>7 DEF PricesInv

-----------------------------------------------------------------------------
(* Every step, sorted by what it does to the rows.                         *)
LEMMA StepsSorted ==
  ASSUME PricesInv, [Next]_vars
  PROVE  /\ PricesInv'
         /\ \/ UNCHANGED rows
            \/ DayPasses
            \/ \E w \in Workers : InsertAndCommit(w) \/ DeleteAndCommit(w)
<1>1. ASSUME NEW w \in Workers, NEW row \in Rows, StartCreate(w, row)
      PROVE  PricesInv' /\ UNCHANGED rows
  BY <1>1, BeginHolds DEF StartCreate, Begins
<1>2. ASSUME NEW w \in Workers, NEW row \in Rows, NEW i \in Ids, StartUpdate(w, i, row)
      PROVE  PricesInv' /\ UNCHANGED rows
  <2>1. CASE Begins(w, "closeRead", i, row)
    BY <2>1, BeginHolds DEF Begins
  <2>2. CASE Begins(w, "findActive", NULL, row)
    BY <2>2, BeginHolds DEF Begins
  <2> QED BY <1>2, <2>1, <2>2 DEF StartUpdate
<1>3. ASSUME NEW w \in Workers, NEW i \in Ids, StartDelete(w, i)
      PROVE  PricesInv' /\ UNCHANGED rows
  BY <1>3, BeginHolds DEF StartDelete, Begins
<1>4. ASSUME NEW w \in Workers, StartConfirm(w) PROVE PricesInv' /\ UNCHANGED rows
  <2>1. confirmed \in Values
    BY <1>4 DEF StartConfirm, PricesInv, TypeOK
  <2>2. [price |-> confirmed, active |-> TRUE, later |-> FALSE] \in Rows
    BY <2>1 DEF Rows
  <2> QED BY <1>4, <2>2, BeginHolds DEF StartConfirm, Begins
<1>5. ASSUME NEW w \in Workers, NEW p \in Values, StartMatch(w, p)
      PROVE  PricesInv' /\ UNCHANGED rows
  <2>1. [price |-> p, active |-> TRUE, later |-> FALSE] \in Rows
    BY DEF Rows
  <2> QED BY <1>5, <2>1, BeginHolds DEF StartMatch, Begins
<1>6. ASSUME NEW w \in Workers, Advance(w)
      PROVE  PricesInv' /\ (UNCHANGED rows \/ InsertAndCommit(w) \/ DeleteAndCommit(w))
  <2>1. CASE FindActive(w)
    BY <2>1, FindActiveHolds DEF FindActive
  <2>2. CASE Close(w)
    BY <2>2, CloseHolds DEF Close
  <2>3. CASE InsertAndCommit(w)
    BY <2>3, InsertHolds
  <2>4. CASE DeleteAndCommit(w)
    BY <2>4, DeleteHolds
  <2> QED BY <1>6, <2>1, <2>2, <2>3, <2>4 DEF Advance
<1>7. ASSUME NEW w \in Workers, Abort(w) PROVE PricesInv' /\ UNCHANGED rows
  BY <1>7, MoveHolds DEF Abort, PricesInv, TypeOK
<1>8. ASSUME NEW p \in Values \cup {NULL}, SetConfirmed(p) PROVE PricesInv' /\ UNCHANGED rows
  BY <1>8 DEF SetConfirmed, PricesInv, TypeOK, IdsInOrder, RequestsReady, OneActive, Active,
              Ids, Rows, Requests
<1>9. ASSUME UNCHANGED vars PROVE PricesInv' /\ UNCHANGED rows
  BY <1>9 DEF vars, PricesInv, TypeOK, IdsInOrder, RequestsReady, OneActive, Active,
              Ids, Rows, Requests
<1> QED BY <1>1, <1>2, <1>3, <1>4, <1>5, <1>6, <1>7, <1>8, <1>9, DayHolds DEF Next

LEMMA InvariantHolds == Spec => []PricesInv
  BY InitHolds, StepsSorted, PTL DEF Spec

(* Types: every committed row and every open request is well formed.       *)
THEOREM TypeCorrect == Spec => []TypeOK
<1>1. PricesInv => TypeOK
  BY DEF PricesInv
<1> QED BY <1>1, InvariantHolds, PTL

(* One active price at most: the code's own check before the insert is     *)
(* stale under concurrency; the index together with the order close-then-  *)
(* insert inside one transaction is what keeps it true.                    *)
THEOREM OneActiveCorrect == Spec => []OneActive
<1>1. PricesInv => OneActive
  BY DEF PricesInv
<1> QED BY <1>1, InvariantHolds, PTL

(* No failure, rollback or interleaving leaves a priced pair closed        *)
(* without the successor it was closed for.                                *)
THEOREM StaysPricedCorrect == Spec => StaysPriced
<1> DEFINE Lost == Active # {} /\ Active' = {}
           Meant == \E w \in Workers : /\ tx[w] # NULL /\ tx'[w] = NULL
                                       /\ tx[w].step = "delete" \/ (tx[w].row # NULL /\ ~tx[w].row.active)
<1>1. ASSUME PricesInv, [Next]_vars PROVE [Lost => Meant]_vars
  <2> SUFFICES ASSUME Lost PROVE Meant
    OBVIOUS
  <2>1. CASE UNCHANGED rows
    BY <2>1 DEF Active
  <2>2. CASE DayPasses
    BY <1>1, <2>2, DayHolds
  <2>3. ASSUME NEW w \in Workers, InsertAndCommit(w) PROVE Meant
    <3>1. tx[w] # NULL /\ tx'[w] = NULL
      BY <1>1, <2>3 DEF InsertAndCommit, At, PricesInv, TypeOK
    <3>2. tx[w].row # NULL /\ ~tx[w].row.active
      BY <1>1, <2>3, InsertHolds, NullIsNoRow
    <3> QED BY <3>1, <3>2
  <2>4. ASSUME NEW w \in Workers, DeleteAndCommit(w) PROVE Meant
    BY <1>1, <2>4 DEF DeleteAndCommit, At, PricesInv, TypeOK
  <2> QED BY <1>1, <2>1, <2>2, <2>3, <2>4, StepsSorted
<1> QED BY <1>1, InvariantHolds, PTL DEF Spec, StaysPriced
-----------------------------------------------------------------------------
(* The refinement.  An only active row is the price in force.              *)
LEMMA InForceIs ==
  ASSUME OneActive, NEW i \in Active PROVE InForce = i /\ InForceAmount = rows[i].price
<1>1. \A j \in Active : j = i
  BY DEF OneActive
<1>2. (CHOOSE j \in Active : TRUE) \in Active
  OBVIOUS
<1> QED BY <1>1, <1>2 DEF InForce, InForceAmount

LEMMA NothingInForce == Active = {} => InForce = NULL /\ InForceAmount = NULL
  BY DEF InForce, InForceAmount

LEMMA SameRowsSameCell == UNCHANGED rows => UNCHANGED <<InForce, InForceAmount>>
  BY DEF InForce, InForceAmount, Active

(* A version comes into force, is recorded as ended, or ends the pair.     *)
LEMMA InsertIsCellStep ==
  ASSUME PricesInv, PricesInv', NEW w \in Workers, InsertAndCommit(w) PROVE Cell!Next
<1> PICK n : n = inserted + 1
  OBVIOUS
<1>a. tx[w].row \in Rows /\ (tx[w].row.active => Active' # {})
  BY InsertHolds
<1>b. /\ n \in Ids /\ inserted' = inserted + 1
      /\ rows' = [i \in Ids |-> IF i = n THEN tx[w].row
                                ELSE IF i \in tx[w].closed THEN [rows[i] EXCEPT !.active = FALSE]
                                ELSE rows[i]]
      /\ tx[w].row.active => Active \subseteq tx[w].closed
  BY DEF InsertAndCommit, IndexAdmits
<1>c. tx[w].closed \subseteq Ids /\ \A i \in tx[w].closed : rows[i] # NULL
  BY DEF InsertAndCommit, At, PricesInv, TypeOK, Requests, RequestsReady
<1>d. tx[w].row.active => n \in Active'
  BY <1>a, <1>b, NullIsNoRow DEF Active
<1>1. /\ tx[w].row \in Rows /\ n \in Ids /\ inserted' = inserted + 1
      /\ rows' = [i \in Ids |-> IF i = n THEN tx[w].row
                                ELSE IF i \in tx[w].closed THEN [rows[i] EXCEPT !.active = FALSE]
                                ELSE rows[i]]
      /\ tx[w].row.active => n \in Active'
      /\ tx[w].closed \subseteq Ids
  BY <1>a, <1>b, <1>c, <1>d
<1>2. CASE tx[w].row.active
  <2>1. InForce' = n /\ InForceAmount' = rows'[n].price
    BY <1>1, <1>2, InForceIs DEF PricesInv, OneActive, Active, InForce, InForceAmount
  <2>2. rows'[n].price = tx[w].row.price /\ tx[w].row.price \in Values
    BY <1>1 DEF Rows
  <2> QED BY <1>1, <2>1, <2>2 DEF Cell!Next, Cell!Publish
<1>3. CASE ~tx[w].row.active
  <2>1. ASSUME NEW i \in Active' PROVE i \in Active /\ rows'[i] = rows[i]
    <3>1. i # n /\ i \in Ids
      BY <1>1, <1>3, <2>1 DEF Active
    <3>2. CASE i \in tx[w].closed
      <4>1. rows[i] # NULL
        BY <1>1, <3>2 DEF InsertAndCommit, At, PricesInv, RequestsReady
      <4>2. ~[rows[i] EXCEPT !.active = FALSE].active
        BY <3>1, <4>1 DEF PricesInv, TypeOK, Rows
      <4> QED BY <1>1, <2>1, <3>1, <3>2, <4>2 DEF Active
    <3> QED BY <1>1, <2>1, <3>1, <3>2 DEF Active
  <2>2. CASE Active' = {} /\ Active = {}
    BY <1>1, <2>2 DEF Cell!Next, Cell!RecordEnded, InForce, InForceAmount
  <2>3. CASE Active' = {} /\ Active # {}
    <3>1. PICK i : i \in Active
      BY <2>3
    <3>2. InForce = i /\ i # NULL
      BY <3>1, InForceIs, PricesAssumption DEF PricesInv, Active, Ids
    <3>3. InForce' = NULL /\ InForceAmount' = NULL
      BY <2>3 DEF InForce, InForceAmount
    <3> QED BY <1>1, <3>2, <3>3 DEF Cell!Next, Cell!Withdraw
  <2>4. CASE Active' # {}
    <3>1. PICK i : i \in Active'
      BY <2>4
    <3>2. InForce = i /\ InForceAmount = rows[i].price
      BY <2>1, <3>1, InForceIs DEF PricesInv
    <3>3. \A j \in Active' : j = i
      BY <3>1 DEF PricesInv, OneActive
    <3>4. InForce' = i /\ InForceAmount' = rows'[i].price
      BY <3>1, <3>3 DEF InForce, InForceAmount
    <3> QED BY <1>1, <2>1, <3>1, <3>2, <3>4 DEF Cell!Next, Cell!RecordEnded
  <2> QED BY <2>2, <2>3, <2>4
<1> QED BY <1>2, <1>3

(* A deletion withdraws the price in force, or takes a row of the history  *)
(* and changes nothing that readers see.                                   *)
LEMMA DeleteIsCellStep ==
  ASSUME PricesInv, PricesInv', NEW w \in Workers, DeleteAndCommit(w) PROVE [Cell!Next]_(Cell!cell)
<1> PICK d : d = tx[w].old
  OBVIOUS
<1>1. /\ d \in Ids /\ rows' = [rows EXCEPT ![d] = NULL] /\ inserted' = inserted
  BY DEF DeleteAndCommit, At, PricesInv, RequestsReady
<1>2. \A i \in Ids : i # d => rows'[i] = rows[i]
  BY <1>1 DEF PricesInv, TypeOK
<1>3. Active' = Active \ {d}
  <2>1. rows'[d] = NULL
    BY <1>1 DEF PricesInv, TypeOK
  <2> QED BY <1>1, <1>2, <2>1 DEF Active
<1>4. CASE d \in Active
  <2>1. InForce = d /\ d # NULL
    BY <1>1, <1>4, InForceIs, PricesAssumption DEF PricesInv, Ids
  <2>2. Active' = {}
    BY <1>3, <1>4 DEF PricesInv, OneActive
  <2>3. InForce' = NULL /\ InForceAmount' = NULL
    BY <2>2 DEF InForce, InForceAmount
  <2> QED BY <1>1, <2>1, <2>3 DEF Cell!Next, Cell!Withdraw
<1>5. CASE d \notin Active
  <2>1. Active' = Active
    BY <1>3, <1>5
  <2>2. \A i \in Active : rows'[i] = rows[i]
    BY <1>2, <1>5 DEF Active
  <2>3. CASE Active = {}
    BY <1>1, <2>1, <2>3 DEF Cell!cell, InForce, InForceAmount
  <2>4. CASE Active # {}
    <3>1. PICK i : i \in Active
      BY <2>4
    <3>2. InForce = i /\ InForceAmount = rows[i].price
      BY <3>1, InForceIs DEF PricesInv
    <3>3. \A j \in Active' : j = i
      BY <2>1, <3>1 DEF PricesInv, OneActive
    <3>4. InForce' = i /\ InForceAmount' = rows'[i].price
      BY <2>1, <3>1, <3>3 DEF InForce, InForceAmount
    <3> QED BY <1>1, <2>2, <3>1, <3>2, <3>4 DEF Cell!cell
  <2> QED BY <2>3, <2>4
<1> QED BY <1>4, <1>5

LEMMA DayIsCellStutter ==
  ASSUME PricesInv, PricesInv', DayPasses PROVE UNCHANGED Cell!cell
<1>1. Active' = Active /\ inserted' = inserted
  BY DayHolds DEF DayPasses
<1>2. CASE Active = {}
  BY <1>1, <1>2 DEF Cell!cell, InForce, InForceAmount
<1>3. CASE Active # {}
  <2>1. PICK i : i \in Active
    BY <1>3
  <2>2. i \in Ids /\ rows[i] # NULL /\ rows[i] \in Rows
    BY <2>1 DEF Active, PricesInv, TypeOK
  <2>3. rows'[i] = [rows[i] EXCEPT !.later = FALSE]
    BY <2>2 DEF DayPasses
  <2>4. rows'[i].price = rows[i].price
    BY <2>2, <2>3 DEF Rows
  <2>5. InForce = i /\ InForceAmount = rows[i].price
    BY <2>1, InForceIs DEF PricesInv
  <2>6. \A j \in Active' : j = i
    BY <1>1, <2>1 DEF PricesInv, OneActive
  <2>7. InForce' = i /\ InForceAmount' = rows'[i].price
    BY <1>1, <2>1, <2>6 DEF InForce, InForceAmount
  <2> QED BY <1>1, <2>4, <2>5, <2>7 DEF Cell!cell
<1> QED BY <1>2, <1>3

(* A step that leaves the rows alone has inserted nothing.                 *)
LEMMA NothingInserted ==
  ASSUME [Next]_vars, UNCHANGED rows PROVE inserted' = inserted \/ \E w \in Workers : InsertAndCommit(w)
  BY DEF Next, vars, StartCreate, StartUpdate, StartDelete, StartConfirm, StartMatch, Begins,
         Advance, FindActive, Close, DeleteAndCommit, Abort, SetConfirmed, DayPasses

(* The four racing endpoints together implement the register that the      *)
(* readers of prices rely on.                                              *)
THEOREM ImplementsPriceCell == Spec => IsPriceCell
<1>1. Init => Cell!Init
  BY DEF Init, Cell!Init, InForce, InForceAmount, Active, Ids
<1>2. ASSUME PricesInv, PricesInv', [Next]_vars PROVE [Cell!Next]_(Cell!cell)
  <2>1. CASE UNCHANGED rows /\ inserted' = inserted
    BY <2>1, SameRowsSameCell DEF Cell!cell
  <2>2. CASE DayPasses
    BY <1>2, <2>2, DayIsCellStutter
  <2>3. ASSUME NEW w \in Workers, InsertAndCommit(w) PROVE [Cell!Next]_(Cell!cell)
    BY <1>2, <2>3, InsertIsCellStep
  <2>4. ASSUME NEW w \in Workers, DeleteAndCommit(w) PROVE [Cell!Next]_(Cell!cell)
    BY <1>2, <2>4, DeleteIsCellStep
  <2> QED BY <1>2, <2>1, <2>2, <2>3, <2>4, StepsSorted, NothingInserted
<1> QED BY <1>1, <1>2, InvariantHolds, PTL DEF Spec, IsPriceCell, Cell!Spec
=============================================================================
