-------------------------------- MODULE Prices --------------------------------
(***************************************************************************)
(* The versioned Price rows of one (material, supplier) pair, written by   *)
(* four endpoints at once: POST, PUT and DELETE /prices (app/api/price.py),*)
(* confirm-price-updates of an order (order_service.py) and the apply of a *)
(* reviewed price-list entry (price_ingestion/apply.py).  Pairs share no   *)
(* row, so one pair stands for all.                                        *)
(*                                                                         *)
(* A request reads, then writes, in one READ COMMITTED transaction: what   *)
(* it read may be stale when it writes, an UPDATE or DELETE waits for the  *)
(* row's lock, and the database refuses a second active row (the partial   *)
(* unique index) and a closing date before the row's first day.            *)
(***************************************************************************)
EXTENDS Integers, FiniteSets

CONSTANTS
  Workers, (* requests that may be open at the same time                   *)
  Values,  (* prices                                                       *)
  NULL,    (* no row, no price                                             *)
  MaxRows  (* bound: rows ever inserted                                    *)

ASSUME PricesAssumption == MaxRows \in Nat /\ NULL \notin Values /\ NULL \notin 1..MaxRows

Ids == 1..MaxRows

VARIABLES
  rows,      (* rows[i]: the committed Price row, or NULL                  *)
  inserted,  (* rows ever inserted; ids are not reused                     *)
  confirmed, (* the order item's confirmed_price, or NULL                  *)
  tx         (* tx[w]: the request worker w serves, or NULL                *)

vars == <<rows, inserted, confirmed, tx>>

(* active: valid_to IS NULL; later: valid_from is still in the future.     *)
Rows == [price : Values, active : BOOLEAN, later : BOOLEAN]

ASSUME NullIsNoRow == NULL \notin Rows

(* step: the next statement; old: the row it writes; closed: rows it has   *)
(* closed and holds locked; row: what it will insert.                      *)
Requests ==
  [step : {"closeRead", "findActive", "closeFound", "insert", "delete"},
   old : Ids \cup {NULL}, closed : SUBSET Ids, row : Rows \cup {NULL}]

Init ==
  /\ rows = [i \in Ids |-> NULL] /\ inserted = 0
  /\ confirmed = NULL
  /\ tx = [w \in Workers |-> NULL]

Active == {i \in Ids : rows[i] # NULL /\ rows[i].active}

-----------------------------------------------------------------------------
(* The first read of each endpoint, and what it refuses at once.           *)

Begins(w, step, old, row) ==
  /\ tx[w] = NULL
  /\ tx' = [tx EXCEPT ![w] = [step |-> step, old |-> old, closed |-> {}, row |-> row]]
  /\ UNCHANGED <<rows, inserted, confirmed>>

(* POST /prices: an ended price needs no free place.                       *)
StartCreate(w, row) == (row.active => Active = {}) /\ Begins(w, "insert", NULL, row)

(* PUT /prices/{i}: any row of the pair, a historical one too.             *)
StartUpdate(w, i, row) ==
  /\ rows[i] # NULL
  /\ row.active => Active \subseteq {i}
  /\ IF rows[i].active THEN Begins(w, "closeRead", i, row) ELSE Begins(w, "findActive", NULL, row)

(* DELETE /prices/{i}: closed rows are history and are refused.            *)
StartDelete(w, i) == i \in Active /\ Begins(w, "delete", i, NULL)

(* confirm-price-updates: the divergence is detected again, then the       *)
(* active row is looked up once more to be closed.                         *)
StartConfirm(w) ==
  /\ confirmed # NULL
  /\ \A i \in Active : rows[i].price # confirmed
  /\ Begins(w, "findActive", NULL, [price |-> confirmed, active |-> TRUE, later |-> FALSE])

(* Applying a price-list entry as a match does not compare the prices.     *)
StartMatch(w, p) ==
  Begins(w, "findActive", NULL, [price |-> p, active |-> TRUE, later |-> FALSE])

-----------------------------------------------------------------------------
At(w, step) == tx[w] # NULL /\ tx[w].step = step

(* No other request has written row i and not ended yet.                   *)
Unlocked(w, i) == \A v \in Workers \ {w} : tx[v] # NULL => i \notin tx[v].closed

(* version_price's own look for the active row, its own closing included.  *)
FindActive(w) ==
  /\ At(w, "findActive")
  /\ \/ /\ Active \subseteq tx[w].closed
        /\ tx' = [tx EXCEPT ![w].step = "insert", ![w].old = NULL]
     \/ \E i \in Active \ tx[w].closed :
          tx' = [tx EXCEPT ![w].step = "closeFound", ![w].old = i]
  /\ UNCHANGED <<rows, inserted, confirmed>>

(* UPDATE prices SET valid_to = today: the row must still be there and     *)
(* must have begun.  In update_price it is flushed, not committed.         *)
CloseAtOnce(w) ==                                               (* faulty *)
  LET i == tx[w].old
  IN /\ At(w, "closeRead") \/ At(w, "closeFound")
     /\ Unlocked(w, i) /\ rows[i] # NULL /\ ~rows[i].later
     /\ rows' = [rows EXCEPT ![i].active = FALSE]
     /\ tx' = [tx EXCEPT ![w].step = IF At(w, "closeRead") THEN "findActive" ELSE "insert"]
     /\ UNCHANGED <<inserted, confirmed>>
Close(w) ==
  LET i == tx[w].old
  IN /\ At(w, "closeRead") \/ At(w, "closeFound")
     /\ Unlocked(w, i) /\ rows[i] # NULL /\ ~rows[i].later
     /\ tx' = [tx EXCEPT ![w].step = IF At(w, "closeRead") THEN "findActive" ELSE "insert",
                         ![w].closed = @ \cup {i}]
     /\ UNCHANGED <<rows, inserted, confirmed>>

(* The unique index lets an active row in once every other active row is   *)
(* closed by this request itself.                                          *)
IndexIgnored(w) == TRUE                                         (* faulty *)
IndexAdmits(w)  == tx[w].row.active => Active \subseteq tx[w].closed

InsertAndCommit(w) ==
  LET n == inserted + 1
  IN /\ At(w, "insert") /\ IndexAdmits(w) /\ n \in Ids
     /\ rows' = [i \in Ids |-> IF i = n THEN tx[w].row
                               ELSE IF i \in tx[w].closed THEN [rows[i] EXCEPT !.active = FALSE]
                               ELSE rows[i]]
     /\ inserted' = n
     /\ tx' = [tx EXCEPT ![w] = NULL]
     /\ UNCHANGED confirmed

DeleteAndCommit(w) ==
  /\ At(w, "delete") /\ Unlocked(w, tx[w].old)
  /\ rows' = [rows EXCEPT ![tx[w].old] = NULL]
  /\ tx' = [tx EXCEPT ![w] = NULL]
  /\ UNCHANGED <<inserted, confirmed>>

(* Rolled back: refused by an index or a check, the row gone, or the       *)
(* connection lost.                                                        *)
Abort(w) ==
  /\ tx[w] # NULL
  /\ tx' = [tx EXCEPT ![w] = NULL]
  /\ UNCHANGED <<rows, inserted, confirmed>>

-----------------------------------------------------------------------------
(* PATCH of the order item, and midnight.                                  *)

SetConfirmed(p) ==
  /\ p # confirmed /\ confirmed' = p
  /\ UNCHANGED <<rows, inserted, tx>>

DayPasses ==
  /\ \E i \in Ids : rows[i] # NULL /\ rows[i].later
  /\ rows' = [i \in Ids |-> IF rows[i] = NULL THEN NULL ELSE [rows[i] EXCEPT !.later = FALSE]]
  /\ UNCHANGED <<inserted, confirmed, tx>>

Advance(w) == FindActive(w) \/ Close(w) \/ InsertAndCommit(w) \/ DeleteAndCommit(w)

Next ==
  \/ \E w \in Workers :
       \/ \E row \in Rows :
            StartCreate(w, row) \/ \E i \in Ids : StartUpdate(w, i, row)
       \/ \E i \in Ids : StartDelete(w, i)
       \/ StartConfirm(w)
       \/ \E p \in Values : StartMatch(w, p)
       \/ Advance(w)
       \/ Abort(w)
  \/ \E p \in Values \cup {NULL} : SetConfirmed(p)
  \/ DayPasses

Spec == Init /\ [][Next]_vars

-----------------------------------------------------------------------------
(* Types of the rows and of the requests under way.                        *)
TypeOK ==
  /\ rows \in [Ids -> Rows \cup {NULL}]
  /\ inserted \in 0..MaxRows
  /\ confirmed \in Values \cup {NULL}
  /\ tx \in [Workers -> Requests \cup {NULL}]

(* However the endpoints race, the pair never has two active prices for    *)
(* the allocation and the overrides to choose from (ADR-0005).             *)
OneActive == \A i, j \in Active : i = j

(* A priced pair stays priced: only a deletion, or an update that asks for *)
(* an end date, takes the active price away; a version that fails halfway  *)
(* never leaves the pair closed without its successor.                     *)
StaysPriced ==
  [][Active # {} /\ Active' = {} =>
       \E w \in Workers : /\ tx[w] # NULL /\ tx'[w] = NULL
                          /\ tx[w].step = "delete" \/ (tx[w].row # NULL /\ ~tx[w].row.active)]_vars

(* The price in force, as a reader finds it.                               *)
InForce       == IF Active = {} THEN NULL ELSE CHOOSE i \in Active : TRUE
InForceAmount == IF Active = {} THEN NULL ELSE rows[InForce].price

Cell == INSTANCE PriceCell
          WITH current <- InForce, amount <- InForceAmount, versions <- inserted

(* To everyone who only reads prices, the rows and the racing endpoints    *)
(* are one register whose versions come into force whole, newest first,    *)
(* and do not return.                                                      *)
IsPriceCell == Cell!Spec

=============================================================================
