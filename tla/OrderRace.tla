------------------------------ MODULE OrderRace ------------------------------
(***************************************************************************)
(* The draft orders of one project under requests that overlap: creation   *)
(* of orders from the latest run, deletion, replacement of a declined item *)
(* by another supplier, the batch that publishes confirmed prices, and the *)
(* short requests on one item.  Every request has a READ COMMITTED         *)
(* transaction of its own; what it checked is not locked, so another       *)
(* request may change it before the write.  Procurement has these requests *)
(* as single steps and the amounts they compute; here an order is its list *)
(* of items.  No code ever gives an order another status than draft.       *)
(* Sources: app/allocation/order_service.py, app/api/order.py.             *)
(***************************************************************************)
EXTENDS Integers, SequencesExt

CONSTANTS
  Materials,  (* the materials of the plan                                 *)
  Suppliers,  (* the suppliers, every one sells every material             *)
  Workers,    (* requests that may be open at the same time                *)
  Answers,    (* what a create request may say of drafts it would meet     *)
  NULL, RAW,  (* no request, no order; the material of a lightweight item  *)
  MaxOrders,  (* bound: orders ever created                                *)
  MaxItems,   (* bound: items of one order                                 *)
  MaxRequests (* bound: requests in one history                            *)

(* supplier_actions, with the legacy flags as "all replace" and "all add". *)
ASSUME AnswersAssumption ==
  /\ Answers \subseteq [Suppliers -> {"none", "replace", "add", "skip"}]
  /\ RAW \notin Materials /\ NULL \notin Materials
  /\ IsFiniteSet(Materials) /\ IsFiniteSet(Suppliers)

VARIABLES
  lines,      (* lines[m]: the supplier the latest run plans m at          *)
  listed,     (* the suppliers with an entry in its supplier_summaries     *)
  raced,      (* history: two overrides held the list they read at once    *)
  orders,     (* orders[o]: every order ever committed, NULL once deleted  *)
  published,  (* pairs whose active price is the confirmed one             *)
  tx,         (* tx[w]: the request worker w serves, or NULL               *)
  overlapped, (* history: two requests were ever open at the same time     *)
  requests    (* bound: requests so far                                    *)

vars == <<lines, listed, raced, orders, published, tx, overlapped, requests>>

(* An item: sources counts the Price rows whose source_order_item_id it is.*)
Item(m) == [material |-> m, declined |-> FALSE, confirmed |-> FALSE, sources |-> 0]

LinesOf(s) == {m \in Materials : lines[m] = s}

Init ==
  /\ lines \in [Materials -> Suppliers]
  /\ listed = {s \in Suppliers : LinesOf(s) # {}} /\ raced = FALSE
  /\ orders = <<>> /\ published = {}
  /\ tx = [w \in Workers |-> NULL]
  /\ overlapped = FALSE /\ requests = 0

LiveOrders == {o \in DOMAIN orders : orders[o] # NULL}
Items(o)   == orders[o].items
DraftsOf(s) == {o \in LiveOrders : orders[o].supplier = s}
MaterialsIn(o) == {Items(o)[k].material : k \in DOMAIN Items(o)}
WithItems(o, items) ==
  [orders EXCEPT ![o] = [supplier |-> orders[o].supplier, items |-> items]]

-----------------------------------------------------------------------------
(* Requests open and end; alone: no other has been open at the same time.  *)
Busy == {v \in Workers : tx[v] # NULL}
At(w, step) == tx[w] # NULL /\ tx[w].step = step

Opened(w, t) ==
  /\ tx[w] = NULL /\ requests < MaxRequests /\ requests' = requests + 1
  /\ overlapped' = (overlapped \/ Busy # {})
  /\ tx' = [v \in Workers |->
              IF v = w THEN t
              ELSE IF v \in Busy THEN [tx[v] EXCEPT !.alone = FALSE] ELSE tx[v]]

(* A request of one short transaction, seen by every open request.         *)
Short ==
  /\ requests < MaxRequests /\ requests' = requests + 1
  /\ overlapped' = (overlapped \/ Busy # {})
  /\ tx' = [v \in Workers |-> IF v \in Busy THEN [tx[v] EXCEPT !.alone = FALSE] ELSE NULL]

Goes(w, t) == tx' = [tx EXCEPT ![w] = t] /\ UNCHANGED <<overlapped, requests>>
Ends(w)    == Goes(w, NULL)

(* Row locks: the items of an order whose deletion has reached them, the   *)
(* order's own row, the lines a creation has stamped and flushed, and the  *)
(* line an override has.                                                   *)
Deleting(v) == tx[v] # NULL /\ tx[v].kind \in {"create", "delete"} /\ tx[v].victims # {}
ItemsLocked(o) ==
  \E v \in Workers : Deleting(v) /\ o \in tx[v].victims /\ tx[v].step \in {"items", "reading"}
OrderLocked(o) == \E v \in Workers : Deleting(v) /\ o \in tx[v].victims /\ tx[v].step = "reading"
Overriding(v) == tx[v] # NULL /\ tx[v].kind = "replace" /\ tx[v].step \in {"flushed", "rebuilt"}
Overridden(w) == {tx[v].material : v \in {u \in Workers \ {w} : Overriding(u)}}
StampedBy(v) == IF tx[v] # NULL /\ tx[v].kind = "create" THEN tx[v].stamped ELSE {}
Stamped(w)   == UNION {StampedBy(v) : v \in Workers \ {w}}

-----------------------------------------------------------------------------
(* set_order_item_fields: declined and confirmed_price are independent.    *)
PatchItem ==
  \E o \in LiveOrders : \E k \in DOMAIN Items(o) :
    /\ ~ItemsLocked(o)
    /\ \/ orders' = WithItems(o, [Items(o) EXCEPT ![k].declined = ~@])
       \/ orders' = WithItems(o, [Items(o) EXCEPT ![k].confirmed = ~@])
    /\ Short /\ UNCHANGED <<lines, listed, raced, published>>

AddRawItem ==
  \E o \in LiveOrders :
    /\ ~OrderLocked(o) /\ Len(Items(o)) < MaxItems
    /\ orders' = WithItems(o, Append(Items(o), Item(RAW)))
    /\ Short /\ UNCHANGED <<lines, listed, raced, published>>

-----------------------------------------------------------------------------
(* _delete_orders, for one request or inside a creation: the references of *)
(* prices are cleared for the items seen, then all items there are now are *)
(* deleted, then the orders.                                               *)
Victims(w) == {o \in tx[w].victims : orders[o] # NULL}

UnlinkNothing(o) == <<>>                                        (* faulty *)
Unlinked(o) == [k \in DOMAIN Items(o) |-> Items(o)[k].sources]

Unlink(w) ==
  /\ At(w, "unlinking")
  /\ Goes(w, [tx[w] EXCEPT !.step = "unlinked", !.freed = [o \in Victims(w) |-> Unlinked(o)]])
  /\ UNCHANGED <<lines, listed, raced, orders, published>>

(* A price still points at an item: its foreign key refuses the deletion.  *)
StillSource(w) ==
  \E o \in Victims(w) : \E k \in DOMAIN Items(o) :
    Items(o)[k].sources > IF k \in DOMAIN tx[w].freed[o] THEN tx[w].freed[o][k] ELSE 0

RemoveItems(w) ==
  /\ At(w, "unlinked") /\ ~StillSource(w)
  /\ \A o \in Victims(w) : ~ItemsLocked(o)
  /\ Goes(w, [tx[w] EXCEPT !.step = "items", !.freed = [o \in Victims(w) |-> Len(Items(o))]])
  /\ UNCHANGED <<lines, listed, raced, orders, published>>

(* An item was added after the others were deleted: refused likewise.      *)
HasNewItem(w) == \E o \in Victims(w) : Len(Items(o)) > tx[w].freed[o]

Without(os, gone) == [o \in DOMAIN os |-> IF o \in gone THEN NULL ELSE os[o]]

(* delete_order_by_id: the order is gone with the commit.                  *)
OpenDelete(w) ==
  \E o \in LiveOrders :
    /\ Opened(w, [kind |-> "delete", step |-> "unlinking", victims |-> {o}, freed |-> <<>>,
                  alone |-> Busy = {}])
    /\ UNCHANGED <<lines, listed, raced, orders, published>>

CommitDelete(w) ==
  /\ At(w, "items") /\ tx[w].kind = "delete" /\ ~HasNewItem(w)
  /\ orders' = Without(orders, tx[w].victims)
  /\ Ends(w) /\ UNCHANGED <<lines, listed, raced, published>>

-----------------------------------------------------------------------------
(* create_orders_for_run.  A draft is in conflict unless all its items are *)
(* declined and none is confirmed.                                         *)
FullyDeclined(o) == Items(o) # <<>> /\ \A k \in DOMAIN Items(o) : Items(o)[k].declined
HasConfirmed(o)  == \E k \in DOMAIN Items(o) : Items(o)[k].confirmed
Conflicting(s) == {o \in DraftsOf(s) : ~FullyDeclined(o) \/ HasConfirmed(o)}

ToOrder(seen, answer) == {s \in seen : answer[s] = "skip" => Conflicting(s) = {}}

(* The run and the conflicts of the suppliers in its summaries are read;   *)
(* without an answer for each the request is refused and changes nothing.  *)
OpenCreate(w) ==
  \E answer \in Answers :
    LET inConflict == {s \in listed : Conflicting(s) # {}}
        victims == UNION {Conflicting(s) : s \in {t \in inConflict : answer[t] = "replace"}}
    IN /\ \A s \in inConflict : answer[s] # "none"
       /\ Opened(w, [kind |-> "create", answer |-> answer, victims |-> victims, freed |-> <<>>,
                     step |-> IF victims = {} THEN "reading" ELSE "unlinking",
                     todo |-> ToOrder(listed, answer),
                     got |-> <<>>, stamped |-> {}, alone |-> Busy = {}])
       /\ UNCHANGED <<lines, listed, raced, orders, published>>

RemoveOrders(w) ==
  /\ At(w, "items") /\ tx[w].kind = "create" /\ ~HasNewItem(w)
  /\ Goes(w, [tx[w] EXCEPT !.step = "reading"])
  /\ UNCHANGED <<lines, listed, raced, orders, published>>

Collected(got) == UNION {got[s] : s \in DOMAIN got}

(* The lines of the next summary's supplier are read; the flush of its     *)
(* order also writes ordered_at of the lines read before.                  *)
EmptyToo(got, s) ==                                             (* faulty *)
  [t \in DOMAIN got \cup {s} |-> IF t = s THEN LinesOf(s) ELSE got[t]]
Gathered(got, s) ==
  IF LinesOf(s) = {} THEN got
  ELSE [t \in DOMAIN got \cup {s} |-> IF t = s THEN LinesOf(s) ELSE got[t]]

ReadLines(w) ==
  /\ At(w, "reading") /\ tx[w].kind = "create" /\ Collected(tx[w].got) \cap (Stamped(w) \cup Overridden(w)) = {}
  /\ \E s \in tx[w].todo :
       Goes(w, [tx[w] EXCEPT !.todo = @ \ {s}, !.got = Gathered(@, s),
                             !.stamped = IF LinesOf(s) = {} THEN @ ELSE Collected(tx[w].got)])
  /\ UNCHANGED <<lines, listed, raced, orders, published>>

NewOrders(got) ==
  LET Order(s) == [supplier |-> s, items |-> SetToSeq({Item(m) : m \in got[s]})]
  IN SetToSeq({Order(s) : s \in DOMAIN got})

CommitCreate(w) ==
  /\ At(w, "reading") /\ tx[w].kind = "create" /\ tx[w].todo = {}
  /\ Collected(tx[w].got) \cap (Stamped(w) \cup Overridden(w)) = {}
  /\ orders' = Without(orders, tx[w].victims) \o NewOrders(tx[w].got)
  /\ Len(orders') <= MaxOrders
  /\ Ends(w) /\ UNCHANGED <<lines, listed, raced, published>>

-----------------------------------------------------------------------------
(* replace_and_sync_order: every check is made, and the line read, before  *)
(* the override, which commits by itself; the item follows in a second one.*)
OneDraftOnly(m, s) == \A o, p \in DraftsOf(s) : o = p           (* faulty *)
MayReceive(m, s) ==
  /\ \A o, p \in DraftsOf(s) : o = p
  /\ \A o \in DraftsOf(s) : m \notin MaterialsIn(o)

(* A lightweight item names no material a supplier could be found for.     *)
Replaceable(o, k) == Items(o)[k].material # RAW

OpenReplace(w) ==
  \E o \in LiveOrders : \E k \in DOMAIN Items(o), s \in Suppliers :
    LET m == Items(o)[k].material
    IN /\ Replaceable(o, k) /\ MayReceive(m, s)
       /\ Opened(w, [kind |-> "replace", step |-> "checked", material |-> m, from |-> lines[m], to |-> s,
                     target |-> IF DraftsOf(s) = {} THEN 0 ELSE CHOOSE p \in DraftsOf(s) : TRUE,
                     seen |-> {}, list |-> {}, alone |-> Busy = {}])
       /\ UNCHANGED <<lines, listed, raced, orders, published>>

(* override_allocation_line_supplier: the line is flushed, its row held,   *)
(* then the run is read with the list of its summaries.                    *)
FlushOverride(w) ==
  /\ At(w, "checked") /\ tx[w].material \notin Stamped(w) \cup Overridden(w)
  /\ raced' = (raced \/ \E v \in Workers \ {w} : Overriding(v))
  /\ Goes(w, [tx[w] EXCEPT !.step = "flushed", !.seen = listed])
  /\ UNCHANGED <<lines, listed, orders, published>>

(* The UPDATE names the supplier only where it is not the one read.        *)
Reassigned(t) == IF t.to = t.from THEN lines ELSE [lines EXCEPT ![t.material] = t.to]
HasLines(plan, s) == \E m \in Materials : plan[m] = s

(* The entries of both suppliers are rebuilt from the lines there are now. *)
NeverAppended(t) ==                                             (* faulty *)
  (t.seen \ {t.from, t.to})
    \cup {s \in t.seen \cap {t.from, t.to} : HasLines(Reassigned(t), s)}
Relisted(t) ==
  (t.seen \ {t.from, t.to}) \cup {s \in {t.from, t.to} : HasLines(Reassigned(t), s)}

RebuildList(w) ==
  /\ At(w, "flushed")
  /\ Goes(w, [tx[w] EXCEPT !.step = "rebuilt", !.list = Relisted(tx[w])])
  /\ UNCHANGED <<lines, listed, raced, orders, published>>

(* The list is written whole, or not at all when it is the one read.       *)
CommitOverride(w) ==
  /\ At(w, "rebuilt") /\ lines' = Reassigned(tx[w])
  /\ \/ listed' = tx[w].list
     \/ tx[w].list = tx[w].seen /\ UNCHANGED listed
  /\ Goes(w, [tx[w] EXCEPT !.step = "overridden"])
  /\ UNCHANGED <<raced, orders, published>>

TargetGone(w) == tx[w].target # 0 /\ orders[tx[w].target] = NULL

(* The draft's total is that of the supplier's entry, which must be there. *)
CannotPlace(w) == TargetGone(w) \/ tx[w].to \notin listed

PlaceReplacement(w) ==
  LET t == tx[w]
  IN /\ At(w, "overridden") /\ ~CannotPlace(w)
     /\ \/ /\ t.target = 0 /\ Len(orders) < MaxOrders
           /\ orders' = Append(orders, [supplier |-> t.to, items |-> <<Item(t.material)>>])
        \/ /\ t.target # 0 /\ ~OrderLocked(t.target) /\ Len(Items(t.target)) < MaxItems
           /\ orders' = WithItems(t.target, Append(Items(t.target), Item(t.material)))
     /\ Ends(w) /\ UNCHANGED <<lines, listed, raced, published>>

-----------------------------------------------------------------------------
(* confirm_price_updates: row after row, each committed by version_price.  *)
OpenConfirm(w) ==
  \E o \in LiveOrders :
    /\ Opened(w, [kind |-> "confirm", step |-> "detecting", order |-> o, row |-> 0,
                  todo |-> DOMAIN Items(o), alone |-> Busy = {}])
    /\ UNCHANGED <<lines, listed, raced, orders, published>>

Pair(o, k) == <<Items(o)[k].material, orders[o].supplier>>

(* _detect_price_divergence on what the row and the price are now.         *)
Diverges(o, k) ==
  /\ orders[o] # NULL /\ Items(o)[k].material # RAW
  /\ Items(o)[k].confirmed /\ Pair(o, k) \notin published

Detect(w) ==
  /\ At(w, "detecting")
  /\ \E k \in tx[w].todo :
       IF Diverges(tx[w].order, k)
       THEN Goes(w, [tx[w] EXCEPT !.step = "publishing", !.row = k])
       ELSE IF tx[w].todo = {k} THEN Ends(w) ELSE Goes(w, [tx[w] EXCEPT !.todo = @ \ {k}])
  /\ UNCHANGED <<lines, listed, raced, orders, published>>

(* The row's item was deleted, or another request has published the price: *)
(* an IntegrityError that nothing catches ends the whole batch.            *)
CannotPublish(w) ==
  orders[tx[w].order] = NULL \/ Pair(tx[w].order, tx[w].row) \in published

Publish(w) ==
  LET o == tx[w].order
      k == tx[w].row
  IN /\ At(w, "publishing") /\ orders[o] # NULL /\ ~ItemsLocked(o)
     /\ published' = published \cup {Pair(o, k)}
     /\ orders' = WithItems(o, [Items(o) EXCEPT ![k].sources = @ + 1])
     /\ IF tx[w].todo = {k} THEN Ends(w)
        ELSE Goes(w, [tx[w] EXCEPT !.step = "detecting", !.row = 0, !.todo = @ \ {k}])
     /\ UNCHANGED <<lines, listed, raced>>

(* The request fails, or its connection is lost: what it did not commit is *)
(* rolled back.                                                            *)
Abort(w) == tx[w] # NULL /\ Ends(w) /\ UNCHANGED <<lines, listed, raced, orders, published>>

Next ==
  \/ PatchItem \/ AddRawItem
  \/ \E w \in Workers :
       \/ OpenDelete(w) \/ Unlink(w) \/ RemoveItems(w) \/ CommitDelete(w)
       \/ OpenCreate(w) \/ RemoveOrders(w) \/ ReadLines(w) \/ CommitCreate(w)
       \/ OpenReplace(w) \/ FlushOverride(w) \/ RebuildList(w) \/ CommitOverride(w)
       \/ PlaceReplacement(w)
       \/ OpenConfirm(w) \/ Detect(w) \/ Publish(w)
       \/ Abort(w)

Spec == Init /\ [][Next]_vars

-----------------------------------------------------------------------------
(* Every committed order has an item, whatever moved the lines of its      *)
(* supplier away between the reading of the run and of the lines; and an   *)
(* item a price points at is one whose pair was published.                 *)
OrdersHaveItems ==
  /\ lines \in [Materials -> Suppliers] /\ listed \subseteq Suppliers
  /\ published \subseteq Materials \X Suppliers
  /\ \A o \in LiveOrders :
       /\ Items(o) # <<>>
       /\ \A k \in DOMAIN Items(o) : Items(o)[k].sources > 0 => Pair(o, k) \in published

(* While requests come one after another, no draft lists a material twice, *)
(* so a supplier's answer can be matched to one item.                      *)
SerialDraftsUnambiguous ==
  ~overlapped =>
    \A o \in LiveOrders : \A j, k \in DOMAIN Items(o) :
      Items(o)[j].material = Items(o)[k].material => j = k \/ Items(o)[j].material = RAW

(* A request that no other one overlaps never fails on a foreign key, a    *)
(* vanished row, a unique index or a summary that is not in the list,      *)
(* whatever earlier races left behind.                                     *)
LoneRequestSucceeds ==
  \A w \in Workers : tx[w] # NULL /\ tx[w].alone =>
    /\ tx[w].step = "unlinked" => ~StillSource(w)
    /\ tx[w].step = "items" => ~HasNewItem(w)
    /\ tx[w].step = "overridden" => ~CannotPlace(w)
    /\ tx[w].step = "publishing" => ~CannotPublish(w)

(* Where an order lists a material.                                        *)
Lists(order, m) == {k \in DOMAIN order.items : order.items[k].material = m}

(* Every line is listed once, by a new order of its supplier, or by none:  *)
(* the request was told to skip its supplier, or overrides that held the   *)
(* list at the same time have lost its supplier's entry.                   *)
LinesPlaced(w) ==
  \A m \in Materials :
    LET new == DOMAIN orders' \ DOMAIN orders
        s   == lines[m]
    IN \/ \E o \in new : /\ orders'[o].supplier = s
                         /\ \E k \in DOMAIN orders'[o].items : Lists(orders'[o], m) = {k}
                         /\ \A p \in new \ {o} : Lists(orders'[p], m) = {}
       \/ /\ \A p \in new : Lists(orders'[p], m) = {}
          /\ \/ tx[w].answer[s] = "skip" /\ Conflicting(s) # {}
             \/ raced /\ s \notin listed

(* A draft in conflict stays only where the request was told to.           *)
DraftsAnswered(w) ==
  \A o \in DOMAIN orders :
    (orders'[o] # NULL /\ o \in Conflicting(orders[o].supplier)
       /\ orders[o].supplier \in listed) =>
      tx[w].answer[orders[o].supplier] \in {"add", "skip"}

(* A creation that no other request overlaps walks the stored summaries,   *)
(* and yet orders every line of the plan exactly once, at its supplier,    *)
(* except at a supplier in conflict that it was told to skip and, only     *)
(* once two overrides have held the list of summaries at the same time, at *)
(* a supplier whose entry they lost.  It leaves a conflicting draft of a   *)
(* listed supplier only where it was told to add or to skip.  No request   *)
(* opens in its commit.                                                    *)
LoneCreateCoversPlan ==
  [][\A w \in Workers :
       At(w, "reading") /\ tx[w].alone /\ requests' = requests /\ orders' # orders =>
         LinesPlaced(w) /\ DraftsAnswered(w)]_vars
=============================================================================
