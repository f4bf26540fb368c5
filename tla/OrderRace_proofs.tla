-------------------------- MODULE OrderRace_proofs --------------------------
(***************************************************************************)
(* TLAPS proofs about OrderRace, for any materials, suppliers, answers and *)
(* numbers of requests: no order without an item, no request that is alone *)
(* fails or leaves a planned line out, and drafts are unambiguous while    *)
(* requests come one by one.                                               *)
(***************************************************************************)
EXTENDS OrderRace, FiniteSetTheorems, TLAPS

ItemRow == [material : Materials \cup {RAW}, declined : BOOLEAN, confirmed : BOOLEAN,
            sources : Nat]
OrderRow == [supplier : Suppliers, items : Seq(ItemRow)]

(* What is true of the tables: an order has an item, and a price that      *)
(* points at an item is one of the item's pair.                            *)
TablesOk ==
  /\ lines \in [Materials -> Suppliers] /\ listed \subseteq Suppliers
  /\ published \subseteq Materials \X Suppliers
  /\ orders \in Seq(OrderRow \cup {NULL})
Shown(order, pairs) ==
  /\ order.items # <<>>
  /\ \A k \in DOMAIN order.items :
       order.items[k].sources > 0 => <<order.items[k].material, order.supplier>> \in pairs
ShownIn(os, pairs) == \A o \in DOMAIN os : os[o] # NULL => Shown(os[o], pairs)
AllShown == ShownIn(orders, published)

(* No material is listed twice.                                            *)
Distinct(items) ==
  \A j, k \in DOMAIN items :
    items[j].material = items[k].material => j = k \/ items[j].material = RAW

(* What a request holds, by kind.                                          *)
IsDelete(t) ==
  /\ t.kind = "delete" /\ t.step \in {"unlinking", "unlinked", "items"}
  /\ {"kind", "step", "victims", "freed", "alone"} \subseteq DOMAIN t
  /\ t.victims \subseteq DOMAIN orders
Gotten(got) == \A s \in DOMAIN got : s \in Suppliers /\ got[s] \subseteq Materials /\ got[s] # {}
IsCreate(t) ==
  /\ t.kind = "create" /\ t.step \in {"unlinking", "unlinked", "items", "reading"}
  /\ {"kind", "step", "victims", "freed", "alone", "todo", "got", "stamped"} \subseteq DOMAIN t
  /\ Gotten(t.got) /\ t.todo \subseteq Suppliers /\ t.victims \subseteq DOMAIN orders
IsReplace(t) ==
  /\ t.kind = "replace" /\ t.step \in {"checked", "flushed", "rebuilt", "overridden"}
  /\ {"kind", "step", "material", "from", "to", "target", "seen", "list", "alone"} \subseteq DOMAIN t
  /\ t.material \in Materials /\ t.from \in Suppliers /\ t.to \in Suppliers
  /\ t.seen \subseteq Suppliers /\ t.list \subseteq Suppliers
  /\ t.target # 0 => t.target \in DOMAIN orders
IsConfirm(t) ==
  /\ t.kind = "confirm" /\ t.step \in {"detecting", "publishing"}
  /\ {"kind", "step", "order", "row", "todo", "alone"} \subseteq DOMAIN t
  /\ t.order \in DOMAIN orders
  /\ orders[t.order] # NULL =>
       /\ t.todo \subseteq DOMAIN Items(t.order)
       /\ t.step = "publishing" => t.row \in t.todo /\ Items(t.order)[t.row].material # RAW
Good(t) == IsDelete(t) \/ IsCreate(t) \/ IsReplace(t) \/ IsConfirm(t)

RequestsOk == DOMAIN tx = Workers /\ \A w \in Workers : tx[w] # NULL => Good(tx[w])

OrdersInv == TablesOk /\ AllShown /\ RequestsOk

(* Orders are added and deleted, items only added.                         *)
Grown(before, after) ==
  /\ DOMAIN before \subseteq DOMAIN after
  /\ \A o \in DOMAIN before : after[o] # NULL =>
       /\ before[o] # NULL
       /\ DOMAIN before[o].items \subseteq DOMAIN after[o].items
       /\ \A k \in DOMAIN before[o].items :
            after[o].items[k].material = before[o].items[k].material

LEMMA GoodKept ==
  ASSUME NEW t, Good(t), Grown(orders, orders')
  PROVE  Good(t)'
<1>1. CASE IsDelete(t) BY <1>1 DEF Good, IsDelete, Grown
<1>2. CASE IsCreate(t) BY <1>2 DEF Good, IsCreate, Grown
<1>3. CASE IsReplace(t) BY <1>3 DEF Good, IsReplace, Grown
<1>4. CASE IsConfirm(t)
  <2>1. t.order \in DOMAIN orders' BY <1>4 DEF IsConfirm, Grown
  <2>2. ASSUME orders'[t.order] # NULL
        PROVE  /\ t.todo \subseteq DOMAIN Items(t.order)'
               /\ t.step = "publishing" => t.row \in t.todo /\ Items(t.order)'[t.row].material # RAW
    BY <1>4, <2>2 DEF IsConfirm, Grown, Items
  <2> QED BY <1>4, <2>1, <2>2 DEF Good, IsConfirm
<1> QED BY <1>1, <1>2, <1>3, <1>4 DEF Good

LEMMA Goes_ok ==
  ASSUME RequestsOk, NEW w \in Workers, NEW t, Goes(w, t), Grown(orders, orders'),
         t # NULL => Good(t)'
  PROVE  RequestsOk'
<1>1. DOMAIN tx' = Workers /\ tx'[w] = t /\ \A v \in Workers : v # w => tx'[v] = tx[v]
  BY DEF Goes, RequestsOk
<1>2. ASSUME NEW v \in Workers, tx'[v] # NULL PROVE Good(tx[v])'
  <2>1. CASE v = w BY <1>1, <1>2, <2>1
  <2>2. CASE v # w
    <3>1. tx'[v] = tx[v] /\ Good(tx[v]) BY <1>1, <1>2, <2>2 DEF RequestsOk
    <3>2. PICK u : u = tx[v] OBVIOUS
    <3>3. Good(u)' BY <3>1, <3>2, GoodKept
    <3> QED BY <3>1, <3>2, <3>3
  <2> QED BY <2>1, <2>2
<1> QED BY <1>1, <1>2 DEF RequestsOk

(* A request learns that it is not alone.                                  *)
LEMMA GoodCrowded ==
  ASSUME NEW t, Good(t)
  PROVE  Good([t EXCEPT !.alone = FALSE])
<1> DEFINE u == [t EXCEPT !.alone = FALSE]
<1>1. CASE IsDelete(t) BY <1>1 DEF Good, IsDelete
<1>2. CASE IsCreate(t)
  <2>1. u.got = t.got /\ u.todo = t.todo /\ u.victims = t.victims /\ u.kind = t.kind /\ u.step = t.step /\ DOMAIN u = DOMAIN t
    BY <1>2 DEF IsCreate
  <2> QED BY <1>2, <2>1 DEF Good, IsCreate
<1>3. CASE IsReplace(t) BY <1>3 DEF Good, IsReplace
<1>4. CASE IsConfirm(t)
  <2>1. /\ u.order = t.order /\ u.todo = t.todo /\ u.row = t.row
        /\ u.kind = t.kind /\ u.step = t.step /\ DOMAIN u = DOMAIN t
    BY <1>4 DEF IsConfirm
  <2> QED BY <1>4, <2>1 DEF Good, IsConfirm
<1> QED BY <1>1, <1>2, <1>3, <1>4 DEF Good

LEMMA OpenedOk ==
  ASSUME RequestsOk, NEW w \in Workers, NEW t, Opened(w, t), UNCHANGED orders, Good(t)
  PROVE  RequestsOk'
<1>1. /\ DOMAIN tx' = Workers /\ tx'[w] = t
      /\ \A v \in Workers : v # w =>
           tx'[v] = IF v \in Busy THEN [tx[v] EXCEPT !.alone = FALSE] ELSE tx[v]
  BY DEF Opened
<1>2. ASSUME NEW v \in Workers, tx'[v] # NULL PROVE Good(tx'[v])
  <2>1. CASE v = w BY <1>1, <2>1
  <2>2. CASE v # w
    <3>1. v \in Busy /\ tx'[v] = [tx[v] EXCEPT !.alone = FALSE] BY <1>1, <1>2, <2>2 DEF Busy
    <3> QED BY <3>1, GoodCrowded DEF RequestsOk, Busy
  <2> QED BY <2>1, <2>2
<1>3. ASSUME NEW v \in Workers, tx'[v] # NULL PROVE Good(tx[v])'
  <2>1. PICK u : u = tx'[v] OBVIOUS
  <2>2. Good(u) BY <1>2, <1>3, <2>1
  <2>3. Good(u)' BY <2>2 DEF Good, IsDelete, IsCreate, IsReplace, IsConfirm, Items
  <2> QED BY <2>1, <2>3
<1> QED BY <1>1, <1>3 DEF RequestsOk

LEMMA ShortOk ==
  ASSUME RequestsOk, Short, Grown(orders, orders')
  PROVE  RequestsOk'
<1>1. DOMAIN tx' = Workers /\ \A v \in Workers :
        tx'[v] = IF v \in Busy THEN [tx[v] EXCEPT !.alone = FALSE] ELSE NULL
  BY DEF Short
<1>2. ASSUME NEW v \in Workers, tx'[v] # NULL PROVE Good(tx[v])'
  <2>1. PICK u : u = tx'[v] OBVIOUS
  <2>2. Good(u) BY <1>1, <1>2, <2>1, GoodCrowded DEF RequestsOk, Busy
  <2>3. Good(u)' BY <2>2, GoodKept
  <2> QED BY <2>1, <2>3
<1> QED BY <1>1, <1>2 DEF RequestsOk

-----------------------------------------------------------------------------
(* Steps that change one order, add orders or delete some                  *)

LEMMA SameOrders == ASSUME UNCHANGED orders PROVE Grown(orders, orders')
BY DEF Grown

(* The items of one order become others, which include the old ones.       *)
LEMMA OneOrder ==
  ASSUME TablesOk, AllShown, NEW o \in LiveOrders, NEW order \in OrderRow,
         orders' = [orders EXCEPT ![o] = order], lines' \in [Materials -> Suppliers], listed' \subseteq Suppliers,
         published \subseteq published', published' \subseteq Materials \X Suppliers,
         order.supplier = orders[o].supplier,
         DOMAIN orders[o].items \subseteq DOMAIN order.items,
         \A k \in DOMAIN orders[o].items : order.items[k].material = orders[o].items[k].material,
         \A k \in DOMAIN order.items : order.items[k].sources > 0 =>
           <<order.items[k].material, order.supplier>> \in published'
  PROVE  TablesOk' /\ AllShown' /\ Grown(orders, orders')
<1>1. o \in DOMAIN orders /\ orders \in Seq(OrderRow \cup {NULL}) /\ orders[o] # NULL
  BY DEF LiveOrders, TablesOk
<1>2. orders' \in Seq(OrderRow \cup {NULL}) /\ DOMAIN orders' = DOMAIN orders
      /\ \A p \in DOMAIN orders : orders'[p] = IF p = o THEN order ELSE orders[p]
  BY <1>1
<1>3. orders[o] \in OrderRow /\ orders[o].items # <<>>
  BY <1>1 DEF AllShown, ShownIn, Shown
<1>4. order.items # <<>>
  <2>1. orders[o].items \in Seq(ItemRow) /\ order.items \in Seq(ItemRow) BY <1>3 DEF OrderRow
  <2> QED BY <1>3, <2>1
<1>5. ASSUME NEW p \in LiveOrders' PROVE Shown(orders'[p], published')
  <2>1. CASE p = o BY <1>2, <1>4, <1>5, <2>1 DEF Shown, LiveOrders
  <2>2. CASE p # o
    <3>1. p \in LiveOrders /\ orders'[p] = orders[p] BY <1>2, <1>5, <2>2 DEF LiveOrders
    <3>2. Shown(orders[p], published) BY <3>1 DEF AllShown, ShownIn, LiveOrders
    <3> QED BY <3>1, <3>2 DEF Shown
  <2> QED BY <2>1, <2>2
<1>6. Grown(orders, orders') BY <1>1, <1>2 DEF Grown
<1> QED BY <1>2, <1>5, <1>6 DEF TablesOk, AllShown, ShownIn, LiveOrders

(* Orders are deleted, then others added: the commit of a creation.        *)
LEMMA DeletedOrders ==
  ASSUME NEW os \in Seq(OrderRow \cup {NULL}), NEW pairs, ShownIn(os, pairs), NEW gone
  PROVE  /\ Without(os, gone) \in Seq(OrderRow \cup {NULL})
         /\ ShownIn(Without(os, gone), pairs) /\ Grown(os, Without(os, gone))
<1>1. PICK after : after = Without(os, gone) OBVIOUS
<1>2. after = [o \in DOMAIN os |-> IF o \in gone THEN NULL ELSE os[o]] BY <1>1 DEF Without
<1>3. after \in Seq(OrderRow \cup {NULL}) /\ DOMAIN after = DOMAIN os BY <1>2
<1>4. \A p \in DOMAIN after : after[p] # NULL => os[p] # NULL /\ after[p] = os[p]
  BY <1>2, <1>3
<1>5. ShownIn(after, pairs) BY <1>3, <1>4 DEF ShownIn
<1>6. Grown(os, after) BY <1>3, <1>4 DEF Grown
<1> QED BY <1>1, <1>3, <1>5, <1>6

LEMMA AddedOrders ==
  ASSUME NEW os \in Seq(OrderRow \cup {NULL}), NEW pairs, ShownIn(os, pairs),
         NEW more \in Seq(OrderRow), \A i \in DOMAIN more : Shown(more[i], pairs)
  PROVE  /\ os \o more \in Seq(OrderRow \cup {NULL})
         /\ ShownIn(os \o more, pairs) /\ Grown(os, os \o more)
<1>1. PICK after : after = os \o more OBVIOUS
<1>2. after \in Seq(OrderRow \cup {NULL}) BY <1>1
<1>3. /\ DOMAIN after = 1..(Len(os) + Len(more)) /\ DOMAIN os = 1..Len(os)
      /\ Len(os) \in Nat /\ Len(more) \in Nat
      /\ \A p \in DOMAIN os : after[p] = os[p]
      /\ \A p \in DOMAIN after \ DOMAIN os :
           p - Len(os) \in DOMAIN more /\ after[p] = more[p - Len(os)]
  BY <1>1
<1>4. ShownIn(after, pairs) BY <1>3 DEF ShownIn
<1>5. DOMAIN os \subseteq DOMAIN after BY <1>3
<1>6. Grown(os, after) BY <1>3, <1>5 DEF Grown
<1> QED BY <1>1, <1>2, <1>4, <1>6

LEMMA GrownTwice ==
  ASSUME NEW before, NEW between, NEW after, Grown(before, between), Grown(between, after)
  PROVE  Grown(before, after)
BY DEF Grown

-----------------------------------------------------------------------------
(* The orders a creation adds                                              *)

LEMMA NewItem ==
  ASSUME NEW m \in Materials \cup {RAW}
  PROVE  Item(m) \in ItemRow /\ Item(m).sources = 0 /\ Item(m).material = m
BY DEF Item, ItemRow

LEMMA SequenceOfSet ==
  ASSUME NEW S, IsFiniteSet(S)
  PROVE  /\ SetToSeq(S) \in Seq(S) /\ (S # {} => SetToSeq(S) # <<>>)
         /\ \A j, k \in DOMAIN SetToSeq(S) : SetToSeq(S)[j] = SetToSeq(S)[k] => j = k
<1>1. Cardinality(S) \in Nat /\ ExistsBijection(1..Cardinality(S), S) BY FS_CardinalityType
<1>2. PICK f \in [1..Cardinality(S) -> S] : IsInjective(f)
  BY <1>1 DEF ExistsBijection, Bijection, Injection, IsInjective
<1>3. SetToSeq(S) \in [1..Cardinality(S) -> S] /\ IsInjective(SetToSeq(S)) BY <1>2 DEF SetToSeq
<1>4. S # {} => Cardinality(S) # 0 BY FS_EmptySet
<1> QED BY <1>1, <1>3, <1>4 DEF IsInjective

(* One item per line of the supplier, and at least one line.               *)
LEMMA ItemsOfLines ==
  ASSUME NEW S \in SUBSET Materials, S # {}
  PROVE  /\ SetToSeq({Item(m) : m \in S}) \in Seq(ItemRow)
         /\ SetToSeq({Item(m) : m \in S}) # <<>>
         /\ \A k \in DOMAIN SetToSeq({Item(m) : m \in S}) :
              SetToSeq({Item(m) : m \in S})[k].sources = 0
         /\ Distinct(SetToSeq({Item(m) : m \in S}))
<1>1. PICK rows : rows = {Item(m) : m \in S} OBVIOUS
<1>2. IsFiniteSet(S) BY AnswersAssumption, FS_Subset
<1>3. [m \in S |-> Item(m)] \in Surjection(S, rows) BY <1>1 DEF Surjection
<1>4. IsFiniteSet(rows) BY <1>2, <1>3, FS_Surjection
<1>5. rows # {} BY <1>1
<1>6. /\ SetToSeq(rows) \in Seq(rows) /\ SetToSeq(rows) # <<>>
      /\ \A j, k \in DOMAIN SetToSeq(rows) : SetToSeq(rows)[j] = SetToSeq(rows)[k] => j = k
  BY <1>4, <1>5, SequenceOfSet
<1>7. \A row \in rows : row \in ItemRow /\ row.sources = 0 BY <1>1, NewItem
<1>8. SetToSeq(rows) \in Seq(ItemRow) BY <1>6, <1>7
<1>9. \A k \in DOMAIN SetToSeq(rows) : SetToSeq(rows)[k] \in rows BY <1>6
<1>10. \A a, b \in rows : a.material = b.material => a = b BY <1>1, NewItem
<1>11. Distinct(SetToSeq(rows)) BY <1>6, <1>9, <1>10 DEF Distinct
<1> QED BY <1>1, <1>6, <1>7, <1>8, <1>9, <1>11

LEMMA NewOrdersShown ==
  ASSUME NEW got, Gotten(got), NEW pairs
  PROVE  /\ NewOrders(got) \in Seq(OrderRow)
         /\ \A i \in DOMAIN NewOrders(got) :
              Shown(NewOrders(got)[i], pairs) /\ Distinct(NewOrders(got)[i].items)
<1> DEFINE Order(s) == [supplier |-> s, items |-> SetToSeq({Item(m) : m \in got[s]})]
<1>1. PICK rows : rows = {Order(s) : s \in DOMAIN got} OBVIOUS
<1>2. NewOrders(got) = SetToSeq(rows) BY <1>1 DEF NewOrders
<1>3. IsFiniteSet(DOMAIN got) BY AnswersAssumption, FS_Subset DEF Gotten
<1>4. [s \in DOMAIN got |-> Order(s)] \in Surjection(DOMAIN got, rows) BY <1>1 DEF Surjection
<1>5. IsFiniteSet(rows) BY <1>3, <1>4, FS_Surjection
<1>6. SetToSeq(rows) \in Seq(rows) BY <1>5, SequenceOfSet
<1>7. ASSUME NEW row \in rows PROVE row \in OrderRow /\ Shown(row, pairs) /\ Distinct(row.items)
  <2>1. PICK s \in DOMAIN got : row = Order(s) BY <1>1, <1>7
  <2>2. s \in Suppliers /\ got[s] \in SUBSET Materials /\ got[s] # {} BY <2>1 DEF Gotten
  <2>3. PICK items : items = SetToSeq({Item(m) : m \in got[s]}) OBVIOUS
  <2>4. /\ items \in Seq(ItemRow) /\ items # <<>> /\ \A k \in DOMAIN items : items[k].sources = 0
        /\ Distinct(items)
    BY <2>2, <2>3, ItemsOfLines
  <2>5. row = [supplier |-> s, items |-> items] BY <2>1, <2>3
  <2> HIDE DEF Order
  <2> QED BY <2>2, <2>4, <2>5 DEF OrderRow, Shown
<1> HIDE DEF Order
<1>8. SetToSeq(rows) \in Seq(OrderRow) BY <1>6, <1>7
<1>9. \A i \in DOMAIN SetToSeq(rows) : SetToSeq(rows)[i] \in rows BY <1>6
<1> QED BY <1>2, <1>7, <1>8, <1>9

-----------------------------------------------------------------------------
(* The steps                                                               *)

(* The tables after a step that leaves them as they are.                   *)
LEMMA TablesUnchanged ==
  ASSUME TablesOk, AllShown, UNCHANGED <<lines, listed, orders, published>>
  PROVE  TablesOk' /\ AllShown' /\ Grown(orders, orders')
BY DEF TablesOk, AllShown, LiveOrders, Shown, Grown

LEMMA LiveRow ==
  ASSUME TablesOk, NEW o \in LiveOrders
  PROVE  /\ o \in DOMAIN orders /\ orders[o] \in OrderRow /\ orders[o] # NULL
         /\ Items(o) = orders[o].items /\ Items(o) \in Seq(ItemRow)
         /\ \A k \in DOMAIN Items(o) : Items(o)[k] \in ItemRow
<1>1. o \in DOMAIN orders /\ orders \in Seq(OrderRow \cup {NULL}) /\ orders[o] # NULL
  BY DEF LiveOrders, TablesOk
<1>2. orders[o] \in OrderRow BY <1>1
<1>3. Items(o) = orders[o].items /\ Items(o) \in Seq(ItemRow) BY <1>2 DEF Items, OrderRow
<1> QED BY <1>1, <1>2, <1>3

(* The items of a live order are extended or changed, no material with it. *)
LEMMA ItemsChanged ==
  ASSUME TablesOk, AllShown, NEW o \in LiveOrders, NEW items \in Seq(ItemRow),
         orders' = WithItems(o, items), UNCHANGED <<lines, listed>>,
         published \subseteq published', published' \subseteq Materials \X Suppliers,
         DOMAIN Items(o) \subseteq DOMAIN items,
         \A j \in DOMAIN Items(o) : items[j].material = Items(o)[j].material,
         \A j \in DOMAIN items : items[j].sources > 0 =>
           \/ <<items[j].material, orders[o].supplier>> \in published'
           \/ j \in DOMAIN Items(o) /\ items[j].sources = Items(o)[j].sources
  PROVE  TablesOk' /\ AllShown' /\ Grown(orders, orders')
<1>1. o \in DOMAIN orders /\ orders[o] \in OrderRow /\ Items(o) = orders[o].items BY LiveRow
<1>2. PICK order : order = [supplier |-> orders[o].supplier, items |-> items] OBVIOUS
<1>3. order \in OrderRow /\ order.items = items /\ order.supplier = orders[o].supplier
  BY <1>1, <1>2 DEF OrderRow
<1>4. orders' = [orders EXCEPT ![o] = order] BY <1>2 DEF WithItems
<1>5. ASSUME NEW j \in DOMAIN items, items[j].sources > 0
      PROVE  <<items[j].material, order.supplier>> \in published'
  <2>1. CASE j \in DOMAIN Items(o) /\ items[j].sources = Items(o)[j].sources
    <3>1. <<Items(o)[j].material, orders[o].supplier>> \in published
      BY <1>1, <1>5, <2>1 DEF AllShown, ShownIn, Shown, LiveOrders
    <3> QED BY <1>3, <2>1, <3>1
  <2> QED BY <1>3, <1>5, <2>1
<1>6. lines' \in [Materials -> Suppliers] /\ listed' \subseteq Suppliers BY DEF TablesOk
<1> QED BY <1>1, <1>3, <1>4, <1>5, <1>6, OneOrder

LEMMA PatchItemOk ==
  ASSUME OrdersInv, PatchItem
  PROVE  OrdersInv'
<1>1. PICK o \in LiveOrders : \E k \in DOMAIN Items(o) : \E items :
        /\ orders' = WithItems(o, items)
        /\ \/ items = [Items(o) EXCEPT ![k].declined = ~@]
           \/ items = [Items(o) EXCEPT ![k].confirmed = ~@]
  BY DEF PatchItem
<1>2. PICK k, items :
        /\ k \in DOMAIN Items(o)
        /\ orders' = WithItems(o, items)
        /\ \/ items = [Items(o) EXCEPT ![k].declined = ~@]
           \/ items = [Items(o) EXCEPT ![k].confirmed = ~@]
  BY <1>1
<1>3. Items(o) \in Seq(ItemRow) /\ Items(o)[k] \in ItemRow BY <1>2, LiveRow DEF OrdersInv
<1>4. PICK row : /\ row = [Items(o)[k] EXCEPT !.declined = ~@]
                      \/ row = [Items(o)[k] EXCEPT !.confirmed = ~@]
                 /\ items = [Items(o) EXCEPT ![k] = row]
  BY <1>2
<1>5. row \in ItemRow /\ row.material = Items(o)[k].material /\ row.sources = Items(o)[k].sources
  BY <1>3, <1>4 DEF ItemRow
<1>6. items \in Seq(ItemRow) /\ DOMAIN items = DOMAIN Items(o)
      /\ \A j \in DOMAIN items : /\ items[j].material = Items(o)[j].material
                                 /\ items[j].sources = Items(o)[j].sources
  BY <1>2, <1>3, <1>4, <1>5
<1>7. UNCHANGED <<lines, listed, published>> /\ Short BY DEF PatchItem
<1>8. TablesOk' /\ AllShown' /\ Grown(orders, orders')
  BY <1>2, <1>6, <1>7, ItemsChanged DEF OrdersInv, TablesOk
<1> QED BY <1>7, <1>8, ShortOk DEF OrdersInv

(* An item no price points at is added to a live order.                    *)
LEMMA ItemAdded ==
  ASSUME TablesOk, AllShown, NEW o \in LiveOrders, NEW m \in Materials \cup {RAW},
         orders' = WithItems(o, Append(Items(o), Item(m))), UNCHANGED <<lines, listed, published>>
  PROVE  TablesOk' /\ AllShown' /\ Grown(orders, orders')
<1>1. PICK items : items = Append(Items(o), Item(m)) OBVIOUS
<1>2. Item(m) \in ItemRow /\ Item(m).sources = 0 BY NewItem
<1>3. Items(o) \in Seq(ItemRow) BY LiveRow
<1>4. /\ items \in Seq(ItemRow) /\ DOMAIN Items(o) \subseteq DOMAIN items
      /\ \A j \in DOMAIN Items(o) : items[j] = Items(o)[j]
      /\ \A j \in DOMAIN items : j \notin DOMAIN Items(o) => items[j] = Item(m)
  BY <1>1, <1>2, <1>3
<1>5. \A j \in DOMAIN items : items[j].sources > 0 =>
        j \in DOMAIN Items(o) /\ items[j].sources = Items(o)[j].sources
  BY <1>2, <1>4
<1> QED BY <1>1, <1>4, <1>5, ItemsChanged DEF TablesOk

LEMMA AddRawItemOk ==
  ASSUME OrdersInv, AddRawItem
  PROVE  OrdersInv'
<1>1. PICK o \in LiveOrders : orders' = WithItems(o, Append(Items(o), Item(RAW)))
  BY DEF AddRawItem
<1>2. UNCHANGED <<lines, listed, published>> /\ Short BY DEF AddRawItem
<1>3. TablesOk' /\ AllShown' /\ Grown(orders, orders') BY <1>1, <1>2, ItemAdded DEF OrdersInv
<1> QED BY <1>2, <1>3, ShortOk DEF OrdersInv

(* A step of one request that leaves the tables alone.                     *)
LEMMA Moves ==
  ASSUME OrdersInv, NEW w \in Workers, NEW t, Goes(w, t), t # NULL => Good(t),
         UNCHANGED <<lines, listed, orders, published>>
  PROVE  OrdersInv'
<1>1. TablesOk' /\ AllShown' /\ Grown(orders, orders') BY TablesUnchanged DEF OrdersInv
<1>2. t # NULL => Good(t)' BY <1>1, GoodKept
<1> QED BY <1>1, <1>2, Goes_ok DEF OrdersInv

LEMMA OpenDeleteOk ==
  ASSUME OrdersInv, NEW w \in Workers, OpenDelete(w)
  PROVE  OrdersInv'
<1>1. PICK o, t :
        /\ o \in LiveOrders
        /\ t = [kind |-> "delete", step |-> "unlinking", victims |-> {o}, freed |-> <<>>,
                alone |-> Busy = {}]
        /\ Opened(w, t) /\ UNCHANGED <<lines, listed, orders, published>>
  BY DEF OpenDelete
<1>2. Good(t) BY <1>1 DEF Good, IsDelete, LiveOrders
<1>3. TablesOk' /\ AllShown' BY <1>1, TablesUnchanged DEF OrdersInv
<1> QED BY <1>1, <1>2, <1>3, OpenedOk DEF OrdersInv

LEMMA UnlinkOk ==
  ASSUME OrdersInv, NEW w \in Workers, Unlink(w)
  PROVE  OrdersInv'
<1>1. PICK freed, t : /\ t = [tx[w] EXCEPT !.step = "unlinked", !.freed = freed]
                      /\ Goes(w, t) /\ UNCHANGED <<lines, listed, orders, published>>
  BY DEF Unlink
<1>2. (IsDelete(tx[w]) \/ IsCreate(tx[w])) /\ tx[w] # NULL
  BY DEF Unlink, At, OrdersInv, RequestsOk, Good, IsReplace, IsConfirm
<1>3. Good(t)
  <2>1. CASE IsDelete(tx[w]) BY <1>1, <2>1 DEF Good, IsDelete
  <2>2. CASE IsCreate(tx[w])
    <3>1. /\ t.kind = "create" /\ t.step = "unlinked" /\ t.got = tx[w].got
          /\ t.todo = tx[w].todo /\ t.victims = tx[w].victims /\ DOMAIN t = DOMAIN tx[w]
      BY <1>1, <2>2 DEF IsCreate
    <3> QED BY <2>2, <3>1 DEF Good, IsCreate
  <2> QED BY <1>2, <2>1, <2>2
<1> QED BY <1>1, <1>3, Moves

LEMMA RemoveItemsOk ==
  ASSUME OrdersInv, NEW w \in Workers, RemoveItems(w)
  PROVE  OrdersInv'
<1>1. PICK freed, t : /\ t = [tx[w] EXCEPT !.step = "items", !.freed = freed]
                      /\ Goes(w, t) /\ UNCHANGED <<lines, listed, orders, published>>
  BY DEF RemoveItems
<1>2. (IsDelete(tx[w]) \/ IsCreate(tx[w])) /\ tx[w] # NULL
  BY DEF RemoveItems, At, OrdersInv, RequestsOk, Good, IsReplace, IsConfirm
<1>3. Good(t)
  <2>1. CASE IsDelete(tx[w]) BY <1>1, <2>1 DEF Good, IsDelete
  <2>2. CASE IsCreate(tx[w])
    <3>1. /\ t.kind = "create" /\ t.step = "items" /\ t.got = tx[w].got
          /\ t.todo = tx[w].todo /\ t.victims = tx[w].victims /\ DOMAIN t = DOMAIN tx[w]
      BY <1>1, <2>2 DEF IsCreate
    <3> QED BY <2>2, <3>1 DEF Good, IsCreate
  <2> QED BY <1>2, <2>1, <2>2
<1> QED BY <1>1, <1>3, Moves

LEMMA CommitDeleteOk ==
  ASSUME OrdersInv, NEW w \in Workers, CommitDelete(w)
  PROVE  OrdersInv'
<1>1. PICK gone : orders' = Without(orders, gone) /\ UNCHANGED <<lines, listed, published>> /\ Goes(w, NULL)
  BY DEF CommitDelete, Ends
<1>2. TablesOk' /\ AllShown' /\ Grown(orders, orders')
  BY <1>1, DeletedOrders DEF OrdersInv, TablesOk, AllShown
<1> QED BY <1>1, <1>2, Goes_ok DEF OrdersInv

LEMMA OpenCreateOk ==
  ASSUME OrdersInv, NEW w \in Workers, OpenCreate(w)
  PROVE  OrdersInv'
<1>1. PICK answer, victims, todo, step, t :
        /\ step \in {"reading", "unlinking"} /\ todo \subseteq Suppliers
        /\ victims \subseteq DOMAIN orders
        /\ t = [kind |-> "create", answer |-> answer, victims |-> victims, freed |-> <<>>,
                step |-> step, todo |-> todo, got |-> <<>>, stamped |-> {}, alone |-> Busy = {}]
        /\ Opened(w, t) /\ UNCHANGED <<lines, listed, orders, published>>
  BY DEF OpenCreate, ToOrder, Conflicting, DraftsOf, LiveOrders, OrdersInv, TablesOk
<1>2. Gotten(<<>>) BY DEF Gotten
<1>3. Good(t) BY <1>1, <1>2 DEF Good, IsCreate
<1>4. TablesOk' /\ AllShown' BY <1>1, TablesUnchanged DEF OrdersInv
<1> QED BY <1>1, <1>3, <1>4, OpenedOk DEF OrdersInv

LEMMA RemoveOrdersOk ==
  ASSUME OrdersInv, NEW w \in Workers, RemoveOrders(w)
  PROVE  OrdersInv'
<1>1. PICK t : /\ t = [tx[w] EXCEPT !.step = "reading"]
               /\ Goes(w, t) /\ UNCHANGED <<lines, listed, orders, published>>
  BY DEF RemoveOrders
<1>2. IsCreate(tx[w])
  BY DEF RemoveOrders, At, OrdersInv, RequestsOk, Good, IsReplace, IsConfirm, IsDelete
<1>3. /\ t.kind = "create" /\ t.step = "reading" /\ t.got = tx[w].got
      /\ t.todo = tx[w].todo /\ t.victims = tx[w].victims /\ DOMAIN t = DOMAIN tx[w]
  BY <1>1, <1>2 DEF IsCreate
<1>4. Good(t) BY <1>2, <1>3 DEF Good, IsCreate
<1> QED BY <1>1, <1>4, Moves

LEMMA ReadLinesOk ==
  ASSUME OrdersInv, NEW w \in Workers, ReadLines(w)
  PROVE  OrdersInv'
<1>1. PICK s, stamped, t :
        /\ s \in tx[w].todo
        /\ t = [tx[w] EXCEPT !.todo = @ \ {s}, !.got = Gathered(@, s), !.stamped = stamped]
        /\ Goes(w, t) /\ UNCHANGED <<lines, listed, orders, published>>
  BY DEF ReadLines
<1>2. IsCreate(tx[w]) /\ tx[w].step = "reading"
  BY DEF ReadLines, At, OrdersInv, RequestsOk, Good, IsReplace, IsConfirm, IsDelete
<1>3. /\ t.kind = "create" /\ t.step = "reading" /\ t.got = Gathered(tx[w].got, s)
      /\ t.todo = tx[w].todo \ {s} /\ t.victims = tx[w].victims /\ DOMAIN t = DOMAIN tx[w]
  BY <1>1, <1>2 DEF IsCreate
<1>4. Gotten(t.got)
  <2>1. PICK got : got = tx[w].got OBVIOUS
  <2>2. Gotten(got) /\ s \in Suppliers BY <1>1, <1>2, <2>1 DEF IsCreate
  <2>3. Gotten(Gathered(got, s)) BY <2>2 DEF Gotten, Gathered, LinesOf
  <2> QED BY <1>3, <2>1, <2>3
<1>5. Good(t) BY <1>2, <1>3, <1>4 DEF Good, IsCreate
<1> QED BY <1>1, <1>5, Moves

LEMMA CommitCreateOk ==
  ASSUME OrdersInv, NEW w \in Workers, CommitCreate(w)
  PROVE  OrdersInv'
<1>1. PICK gone, got, kept, more :
        /\ kept = Without(orders, gone) /\ more = NewOrders(got) /\ orders' = kept \o more
        /\ got = tx[w].got /\ UNCHANGED <<lines, listed, published>> /\ Goes(w, NULL)
  BY DEF CommitCreate, Ends
<1>2. IsCreate(tx[w])
  BY DEF CommitCreate, At, OrdersInv, RequestsOk, Good, IsReplace, IsConfirm, IsDelete
<1>3. Gotten(got) BY <1>1, <1>2 DEF IsCreate
<1>4. more \in Seq(OrderRow) /\ \A i \in DOMAIN more : Shown(more[i], published)
  BY <1>1, <1>3, NewOrdersShown
<1>5. kept \in Seq(OrderRow \cup {NULL}) /\ ShownIn(kept, published) /\ Grown(orders, kept)
  BY <1>1, DeletedOrders DEF OrdersInv, TablesOk, AllShown
<1>6. orders' \in Seq(OrderRow \cup {NULL}) /\ ShownIn(orders', published) /\ Grown(kept, orders')
  BY <1>1, <1>4, <1>5, AddedOrders
<1>7. TablesOk' /\ AllShown' BY <1>1, <1>6 DEF OrdersInv, TablesOk, AllShown
<1>8. Grown(orders, orders') BY <1>5, <1>6, GrownTwice
<1> QED BY <1>1, <1>7, <1>8, Goes_ok DEF OrdersInv

LEMMA OpenReplaceOk ==
  ASSUME OrdersInv, NEW w \in Workers, OpenReplace(w)
  PROVE  OrdersInv'
<1>1. PICK o \in LiveOrders : \E k \in DOMAIN Items(o), s \in Suppliers :
        /\ Replaceable(o, k)
        /\ Opened(w, [kind |-> "replace", step |-> "checked", material |-> Items(o)[k].material,
                      from |-> lines[Items(o)[k].material], to |-> s,
                      target |-> IF DraftsOf(s) = {} THEN 0 ELSE CHOOSE p \in DraftsOf(s) : TRUE,
                      seen |-> {}, list |-> {}, alone |-> Busy = {}])
        /\ UNCHANGED <<lines, listed, orders, published>>
  BY DEF OpenReplace
<1>2. PICK k, s, target, t :
        /\ k \in DOMAIN Items(o) /\ s \in Suppliers
        /\ Replaceable(o, k)
        /\ target = IF DraftsOf(s) = {} THEN 0 ELSE CHOOSE p \in DraftsOf(s) : TRUE
        /\ t = [kind |-> "replace", step |-> "checked", material |-> Items(o)[k].material,
                from |-> lines[Items(o)[k].material], to |-> s, target |-> target,
                seen |-> {}, list |-> {}, alone |-> Busy = {}]
        /\ Opened(w, t) /\ UNCHANGED <<lines, listed, orders, published>>
  BY <1>1
<1>3. target # 0 => target \in DOMAIN orders BY <1>2 DEF DraftsOf, LiveOrders
<1>4. Items(o)[k].material \in Materials /\ lines \in [Materials -> Suppliers]
  BY <1>2, LiveRow DEF OrdersInv, Replaceable, ItemRow, TablesOk
<1>5. Good(t) BY <1>2, <1>3, <1>4 DEF Good, IsReplace
<1>6. TablesOk' /\ AllShown' BY <1>2, TablesUnchanged DEF OrdersInv
<1> QED BY <1>2, <1>5, <1>6, OpenedOk DEF OrdersInv

LEMMA FlushOverrideOk ==
  ASSUME OrdersInv, NEW w \in Workers, FlushOverride(w)
  PROVE  OrdersInv'
<1>1. PICK t : /\ t = [tx[w] EXCEPT !.step = "flushed", !.seen = listed] /\ Goes(w, t)
               /\ UNCHANGED <<lines, listed, orders, published>>
  BY DEF FlushOverride
<1>2. IsReplace(tx[w])
  BY DEF FlushOverride, At, OrdersInv, RequestsOk, Good, IsCreate, IsConfirm, IsDelete
<1>3. Good(t) BY <1>1, <1>2 DEF Good, IsReplace, OrdersInv, TablesOk
<1> QED BY <1>1, <1>3, Moves

LEMMA RebuildListOk ==
  ASSUME OrdersInv, NEW w \in Workers, RebuildList(w)
  PROVE  OrdersInv'
<1>1. PICK list, t :
        /\ list = Relisted(tx[w]) /\ t = [tx[w] EXCEPT !.step = "rebuilt", !.list = list]
        /\ Goes(w, t) /\ UNCHANGED <<lines, listed, orders, published>>
  BY DEF RebuildList
<1>2. IsReplace(tx[w])
  BY DEF RebuildList, At, OrdersInv, RequestsOk, Good, IsCreate, IsConfirm, IsDelete
<1>3. list \subseteq Suppliers BY <1>1, <1>2 DEF Relisted, IsReplace
<1>4. Good(t) BY <1>1, <1>2, <1>3 DEF Good, IsReplace
<1> QED BY <1>1, <1>4, Moves

LEMMA CommitOverrideOk ==
  ASSUME OrdersInv, NEW w \in Workers, CommitOverride(w)
  PROVE  OrdersInv'
<1>1. PICK t : t = [tx[w] EXCEPT !.step = "overridden"] /\ Goes(w, t)
  BY DEF CommitOverride
<1>2. IsReplace(tx[w])
  BY DEF CommitOverride, At, OrdersInv, RequestsOk, Good, IsCreate, IsConfirm, IsDelete
<1>3. /\ lines' = Reassigned(tx[w]) /\ listed' \in {tx[w].list, listed}
      /\ UNCHANGED <<orders, published>>
  BY DEF CommitOverride
<1>4. TablesOk' BY <1>2, <1>3 DEF OrdersInv, TablesOk, IsReplace, Reassigned
<1>5. AllShown' /\ Grown(orders, orders') BY <1>3, SameOrders DEF OrdersInv, AllShown
<1>6. Good(t) BY <1>1, <1>2 DEF Good, IsReplace
<1>7. Good(t)' BY <1>5, <1>6, GoodKept
<1> QED BY <1>1, <1>4, <1>5, <1>7, Goes_ok DEF OrdersInv

LEMMA PlaceReplacementOk ==
  ASSUME OrdersInv, NEW w \in Workers, PlaceReplacement(w)
  PROVE  OrdersInv'
<1>1. PICK t : t = tx[w] OBVIOUS
<1>2. IsReplace(t)
  BY <1>1 DEF PlaceReplacement, At, OrdersInv, RequestsOk, Good, IsCreate, IsConfirm, IsDelete
<1>3. UNCHANGED <<lines, listed, published>> /\ Goes(w, NULL) BY DEF PlaceReplacement, Ends
<1>4. CASE orders' = Append(orders, [supplier |-> t.to, items |-> <<Item(t.material)>>])
  <2>1. PICK items : items = <<Item(t.material)>> OBVIOUS
  <2>2. PICK order : order = [supplier |-> t.to, items |-> items] OBVIOUS
  <2>3. Item(t.material) \in ItemRow /\ Item(t.material).sources = 0 BY <1>2, NewItem DEF IsReplace
  <2>4. /\ items \in Seq(ItemRow) /\ items # <<>>
        /\ \A k \in DOMAIN items : items[k].sources = 0
    BY <2>1, <2>3
  <2>5. order \in OrderRow /\ Shown(order, published) BY <1>2, <2>2, <2>4 DEF IsReplace, OrderRow, Shown
  <2>6. <<order>> \in Seq(OrderRow) /\ \A i \in DOMAIN <<order>> : Shown(<<order>>[i], published)
    BY <2>5
  <2>7. orders \in Seq(OrderRow \cup {NULL}) BY DEF OrdersInv, TablesOk
  <2>8. orders' = orders \o <<order>> BY <1>4, <2>1, <2>2, <2>5, <2>7
  <2>9. orders' \in Seq(OrderRow \cup {NULL}) /\ ShownIn(orders', published) /\ Grown(orders, orders')
    BY <2>6, <2>7, <2>8, AddedOrders DEF OrdersInv, AllShown
  <2>10. TablesOk' /\ AllShown' BY <1>3, <2>9 DEF OrdersInv, TablesOk, AllShown
  <2> QED BY <1>3, <2>9, <2>10, Goes_ok DEF OrdersInv
<1>5. CASE t.target # 0 /\ orders' = WithItems(t.target, Append(Items(t.target), Item(t.material)))
  <2>1. t.target \in LiveOrders
    BY <1>1, <1>2, <1>5 DEF PlaceReplacement, CannotPlace, TargetGone, IsReplace, LiveOrders
  <2>2. TablesOk' /\ AllShown' /\ Grown(orders, orders')
    BY <1>2, <1>3, <1>5, <2>1, ItemAdded DEF OrdersInv, IsReplace
  <2> QED BY <1>3, <2>2, Goes_ok DEF OrdersInv
<1> QED BY <1>1, <1>4, <1>5 DEF PlaceReplacement

LEMMA OpenConfirmOk ==
  ASSUME OrdersInv, NEW w \in Workers, OpenConfirm(w)
  PROVE  OrdersInv'
<1>1. PICK o, t :
        /\ o \in LiveOrders
        /\ t = [kind |-> "confirm", step |-> "detecting", order |-> o, row |-> 0,
                todo |-> DOMAIN Items(o), alone |-> Busy = {}]
        /\ Opened(w, t) /\ UNCHANGED <<lines, listed, orders, published>>
  BY DEF OpenConfirm
<1>2. Good(t) BY <1>1 DEF Good, IsConfirm, LiveOrders
<1>3. TablesOk' /\ AllShown' BY <1>1, TablesUnchanged DEF OrdersInv
<1> QED BY <1>1, <1>2, <1>3, OpenedOk DEF OrdersInv

LEMMA DetectOk ==
  ASSUME OrdersInv, NEW w \in Workers, Detect(w)
  PROVE  OrdersInv'
<1>1. IsConfirm(tx[w])
  BY DEF Detect, At, OrdersInv, RequestsOk, Good, IsCreate, IsReplace, IsDelete
<1>2. PICK k, t :
        /\ k \in tx[w].todo
        /\ \/ Diverges(tx[w].order, k) /\ t = [tx[w] EXCEPT !.step = "publishing", !.row = k]
           \/ t = NULL
           \/ t = [tx[w] EXCEPT !.todo = @ \ {k}] /\ tx[w].step = "detecting"
        /\ Goes(w, t) /\ UNCHANGED <<lines, listed, orders, published>>
  BY DEF Detect, Ends, At
<1>3. CASE Diverges(tx[w].order, k) /\ t = [tx[w] EXCEPT !.step = "publishing", !.row = k]
  <2>1. Good(t) BY <1>1, <1>2, <1>3 DEF Good, IsConfirm, Diverges
  <2> QED BY <1>2, <2>1, Moves
<1>4. CASE t = NULL BY <1>2, <1>4, Moves
<1>5. CASE t = [tx[w] EXCEPT !.todo = @ \ {k}] /\ tx[w].step = "detecting"
  <2>1. Good(t) BY <1>1, <1>5 DEF Good, IsConfirm
  <2> QED BY <1>2, <2>1, Moves
<1> QED BY <1>2, <1>3, <1>4, <1>5

LEMMA PublishOk ==
  ASSUME OrdersInv, NEW w \in Workers, Publish(w)
  PROVE  OrdersInv'
<1>1. IsConfirm(tx[w]) /\ tx[w].step = "publishing" /\ orders[tx[w].order] # NULL
  BY DEF Publish, At, OrdersInv, RequestsOk, Good, IsCreate, IsReplace, IsDelete
<1>2. PICK o, k, items, t :
        /\ o = tx[w].order /\ k = tx[w].row
        /\ items = [Items(o) EXCEPT ![k].sources = @ + 1]
        /\ orders' = WithItems(o, items) /\ published' = published \cup {Pair(o, k)}
        /\ UNCHANGED <<lines, listed>> /\ Goes(w, t)
        /\ t = NULL \/ t = [tx[w] EXCEPT !.step = "detecting", !.row = 0, !.todo = @ \ {k}]
  BY DEF Publish, Ends
<1>3. o \in LiveOrders /\ k \in DOMAIN Items(o) /\ Items(o)[k].material # RAW
  BY <1>1, <1>2 DEF IsConfirm, LiveOrders
<1>4. /\ orders[o] \in OrderRow /\ Items(o) \in Seq(ItemRow) /\ Items(o)[k] \in ItemRow
  BY <1>3, LiveRow DEF OrdersInv
<1>5. PICK row : /\ row = [Items(o)[k] EXCEPT !.sources = @ + 1]
                 /\ items = [Items(o) EXCEPT ![k] = row]
  BY <1>2
<1>6. row \in ItemRow /\ row.material = Items(o)[k].material BY <1>4, <1>5 DEF ItemRow
<1>7. /\ items \in Seq(ItemRow) /\ DOMAIN items = DOMAIN Items(o)
      /\ items[k] = row /\ \A j \in DOMAIN items : j # k => items[j] = Items(o)[j]
  BY <1>3, <1>4, <1>5, <1>6
<1>8. Pair(o, k) \in Materials \X Suppliers BY <1>3, <1>4 DEF Pair, ItemRow, OrderRow
<1>9. published' \subseteq Materials \X Suppliers /\ published \subseteq published'
  BY <1>2, <1>8 DEF OrdersInv, TablesOk
<1>10. TablesOk' /\ AllShown' /\ Grown(orders, orders')
  <2>1. \A j \in DOMAIN items : items[j].material = Items(o)[j].material BY <1>6, <1>7
  <2>2. <<items[k].material, orders[o].supplier>> \in published'
    <3>1. items[k].material = Items(o)[k].material BY <1>6, <1>7
    <3>2. <<items[k].material, orders[o].supplier>> = Pair(o, k) BY <3>1 DEF Pair
    <3> QED BY <1>2, <3>2
  <2>3. \A j \in DOMAIN items : items[j].sources > 0 =>
          \/ <<items[j].material, orders[o].supplier>> \in published'
          \/ j \in DOMAIN Items(o) /\ items[j].sources = Items(o)[j].sources
    BY <1>7, <2>2
  <2>4. TablesOk /\ AllShown BY DEF OrdersInv
  <2>5. orders' = WithItems(o, items) /\ UNCHANGED <<lines, listed>> BY <1>2
  <2>6. items \in Seq(ItemRow) /\ DOMAIN Items(o) \subseteq DOMAIN items BY <1>7
  <2>7. \A j \in DOMAIN Items(o) : items[j].material = Items(o)[j].material BY <1>7, <2>1
  <2> QED BY <1>3, <1>9, <2>3, <2>4, <2>5, <2>6, <2>7, ItemsChanged
<1>11. t # NULL => Good(t)'
  <2>1. t # NULL => Good(t) BY <1>1, <1>2 DEF Good, IsConfirm
  <2> QED BY <1>10, <2>1, GoodKept
<1> QED BY <1>2, <1>10, <1>11, Goes_ok DEF OrdersInv

LEMMA AbortOk ==
  ASSUME OrdersInv, NEW w \in Workers, Abort(w)
  PROVE  OrdersInv'
BY Moves DEF Abort, Ends

LEMMA InitOk == Init => OrdersInv
<1> SUFFICES ASSUME Init PROVE OrdersInv OBVIOUS
<1>1. orders \in Seq(OrderRow \cup {NULL}) /\ DOMAIN orders = {} BY DEF Init
<1> QED BY <1>1 DEF Init, OrdersInv, TablesOk, AllShown, ShownIn, RequestsOk

LEMMA StepOk ==
  ASSUME OrdersInv, [Next]_vars
  PROVE  OrdersInv'
<1>1. CASE UNCHANGED vars
  <2>1. TablesOk' /\ AllShown' BY <1>1, TablesUnchanged DEF OrdersInv, vars
  <2>2. \A t : Good(t) => Good(t)' BY <1>1, GoodKept, SameOrders DEF vars
  <2>3. RequestsOk'
    <3>1. tx' = tx BY <1>1 DEF vars
    <3> QED BY <2>2, <3>1 DEF OrdersInv, RequestsOk
  <2> QED BY <2>1, <2>3 DEF OrdersInv
<1>2. CASE PatchItem BY <1>2, PatchItemOk
<1>3. CASE AddRawItem BY <1>3, AddRawItemOk
<1>4. ASSUME NEW w \in Workers, OpenDelete(w) \/ Unlink(w) \/ RemoveItems(w) \/ CommitDelete(w)
      PROVE  OrdersInv'
  BY <1>4, OpenDeleteOk, UnlinkOk, RemoveItemsOk, CommitDeleteOk
<1>5. ASSUME NEW w \in Workers, OpenCreate(w) \/ RemoveOrders(w) \/ ReadLines(w) \/ CommitCreate(w)
      PROVE  OrdersInv'
  BY <1>5, OpenCreateOk, RemoveOrdersOk, ReadLinesOk, CommitCreateOk
<1>6. ASSUME NEW w \in Workers, OpenReplace(w) \/ PlaceReplacement(w)
      PROVE  OrdersInv'
  BY <1>6, OpenReplaceOk, PlaceReplacementOk
<1>8. ASSUME NEW w \in Workers, FlushOverride(w) \/ RebuildList(w) \/ CommitOverride(w)
      PROVE  OrdersInv'
  BY <1>8, FlushOverrideOk, RebuildListOk, CommitOverrideOk
<1>7. ASSUME NEW w \in Workers, OpenConfirm(w) \/ Detect(w) \/ Publish(w) \/ Abort(w)
      PROVE  OrdersInv'
  BY <1>7, OpenConfirmOk, DetectOk, PublishOk, AbortOk
<1> QED BY <1>1, <1>2, <1>3, <1>4, <1>5, <1>6, <1>7, <1>8 DEF Next

LEMMA OrdersInvHolds == Spec => []OrdersInv
BY InitOk, StepOk, PTL DEF Spec

(* No order is ever left without an item, although create_orders_for_run   *)
(* reads the lines after the summaries and replacements move lines in      *)
(* between; and an item a price points at is of a pair that was published. *)
THEOREM ItemsCorrect == Spec => []OrdersHaveItems
<1>1. ASSUME OrdersInv PROVE OrdersHaveItems
  <2> SUFFICES ASSUME NEW o \in LiveOrders
               PROVE  /\ Items(o) # <<>>
                      /\ \A k \in DOMAIN Items(o) : Items(o)[k].sources > 0 => Pair(o, k) \in published
    BY <1>1 DEF OrdersHaveItems, OrdersInv, TablesOk
  <2> QED BY <1>1 DEF OrdersInv, AllShown, ShownIn, Shown, LiveOrders, Items, Pair
<1> QED BY <1>1, OrdersInvHolds, PTL

-----------------------------------------------------------------------------
(* A request that is alone meets nothing it has not seen                   *)

(* What a request found is still so at its next statement.                 *)
Prepared(t) ==
  /\ t.step = "unlinked" =>
       \A o \in t.victims : orders[o] # NULL =>
         \A k \in DOMAIN Items(o) : k \in DOMAIN t.freed[o] /\ t.freed[o][k] = Items(o)[k].sources
  /\ t.step = "items" => \A o \in t.victims : orders[o] # NULL => t.freed[o] = Len(Items(o))
  /\ t.step \in {"checked", "flushed", "rebuilt", "overridden"} =>
       (t.target # 0 => orders[t.target] # NULL)
  /\ t.step \in {"checked", "flushed", "rebuilt"} => lines[t.material] = t.from
  /\ t.step \in {"flushed", "rebuilt"} => t.seen = listed
  /\ t.step = "rebuilt" => t.to \in t.list
  /\ t.step = "overridden" => t.to \in listed
  /\ t.step = "publishing" => orders[t.order] # NULL /\ Pair(t.order, t.row) \notin published

(* One that is alone is prepared, and no other is open.                    *)
AloneInv ==
  \A w \in Workers : tx[w] # NULL /\ tx[w].alone =>
    Prepared(tx[w]) /\ \A v \in Workers : tx[v] # NULL => v = w

LEMMA AloneGoes ==
  ASSUME OrdersInv, AloneInv, NEW w \in Workers, tx[w] # NULL, NEW t, Goes(w, t),
         t # NULL => t.alone = tx[w].alone /\ (t.alone => Prepared(t)')
  PROVE  AloneInv'
<1>1. tx'[w] = t /\ \A v \in Workers : v # w => tx'[v] = tx[v]
  BY DEF Goes, OrdersInv, RequestsOk
<1>2. SUFFICES ASSUME NEW v \in Workers, tx'[v] # NULL, tx'[v].alone
               PROVE  Prepared(tx[v])' /\ \A u \in Workers : tx'[u] # NULL => u = v
  BY DEF AloneInv
<1>3. v = w BY <1>1, <1>2 DEF AloneInv
<1>4. Prepared(t)' BY <1>1, <1>2, <1>3
<1>5. Prepared(tx[v])' BY <1>1, <1>3, <1>4
<1>6. \A u \in Workers : tx'[u] # NULL => u = v BY <1>1, <1>2, <1>3 DEF AloneInv
<1> QED BY <1>5, <1>6

LEMMA AloneOpened ==
  ASSUME OrdersInv, NEW w \in Workers, NEW t, Opened(w, t), t.alone = (Busy = {}),
         Prepared(t)'
  PROVE  AloneInv'
<1>1. /\ tx'[w] = t
      /\ \A v \in Workers : v # w =>
           tx'[v] = IF v \in Busy THEN [tx[v] EXCEPT !.alone = FALSE] ELSE tx[v]
  BY DEF Opened
<1>2. \A v \in Busy : [tx[v] EXCEPT !.alone = FALSE].alone = FALSE
  <2>1. ASSUME NEW v \in Busy PROVE "alone" \in DOMAIN tx[v]
    BY <2>1 DEF Busy, OrdersInv, RequestsOk, Good, IsDelete, IsCreate, IsReplace, IsConfirm
  <2> QED BY <2>1
<1>3. SUFFICES ASSUME NEW v \in Workers, tx'[v] # NULL, tx'[v].alone
               PROVE  Prepared(tx[v])' /\ \A u \in Workers : tx'[u] # NULL => u = v
  BY DEF AloneInv
<1>4. v = w BY <1>1, <1>2, <1>3 DEF Busy
<1>5. Busy = {} BY <1>1, <1>3, <1>4
<1>6. \A u \in Workers : tx'[u] # NULL => u = v BY <1>1, <1>4, <1>5 DEF Busy
<1>7. Prepared(tx[v])' BY <1>1, <1>4
<1> QED BY <1>6, <1>7

LEMMA AloneShort ==
  ASSUME OrdersInv, Short
  PROVE  AloneInv'
<1>1. \A v \in Workers :
        tx'[v] = IF v \in Busy THEN [tx[v] EXCEPT !.alone = FALSE] ELSE NULL
  BY DEF Short
<1>2. \A v \in Busy : [tx[v] EXCEPT !.alone = FALSE].alone = FALSE
  <2>1. ASSUME NEW v \in Busy PROVE "alone" \in DOMAIN tx[v]
    BY <2>1 DEF Busy, OrdersInv, RequestsOk, Good, IsDelete, IsCreate, IsReplace, IsConfirm
  <2> QED BY <2>1
<1> QED BY <1>1, <1>2 DEF AloneInv

(* Openings: nothing is promised yet, except that a replacement's draft is *)
(* one of those there.                                                     *)
LEMMA AloneOpens ==
  ASSUME OrdersInv, NEW w \in Workers,
         OpenDelete(w) \/ OpenCreate(w) \/ OpenReplace(w) \/ OpenConfirm(w)
  PROVE  AloneInv'
<1>1. CASE OpenDelete(w)
  <2>1. PICK o, t : /\ t = [kind |-> "delete", step |-> "unlinking", victims |-> {o},
                            freed |-> <<>>, alone |-> Busy = {}]
                    /\ Opened(w, t)
    BY <1>1 DEF OpenDelete
  <2>2. t.step = "unlinking" /\ t.alone = (Busy = {}) BY <2>1
  <2> QED BY <2>1, <2>2, AloneOpened DEF Prepared
<1>2. CASE OpenCreate(w)
  <2>1. PICK answer, victims, todo, step, t :
        /\ step \in {"reading", "unlinking"}
        /\ t = [kind |-> "create", answer |-> answer, victims |-> victims, freed |-> <<>>,
                step |-> step, todo |-> todo, got |-> <<>>, stamped |-> {}, alone |-> Busy = {}]
        /\ Opened(w, t)
    BY <1>2 DEF OpenCreate
  <2>2. t.step \in {"reading", "unlinking"} /\ t.alone = (Busy = {}) BY <2>1
  <2> QED BY <2>1, <2>2, AloneOpened DEF Prepared
<1>3. CASE OpenReplace(w)
  <2>0. PICK o \in LiveOrders : \E k \in DOMAIN Items(o), s \in Suppliers :
        /\ Opened(w, [kind |-> "replace", step |-> "checked", material |-> Items(o)[k].material,
                      from |-> lines[Items(o)[k].material], to |-> s,
                      target |-> IF DraftsOf(s) = {} THEN 0 ELSE CHOOSE p \in DraftsOf(s) : TRUE,
                      seen |-> {}, list |-> {}, alone |-> Busy = {}])
        /\ UNCHANGED <<lines, listed, orders, published>>
    BY <1>3 DEF OpenReplace
  <2>1. PICK k, s, target, t :
        /\ k \in DOMAIN Items(o) /\ s \in Suppliers
        /\ target = IF DraftsOf(s) = {} THEN 0 ELSE CHOOSE p \in DraftsOf(s) : TRUE
        /\ t = [kind |-> "replace", step |-> "checked", material |-> Items(o)[k].material,
                from |-> lines[Items(o)[k].material], to |-> s, target |-> target,
                seen |-> {}, list |-> {}, alone |-> Busy = {}]
        /\ Opened(w, t) /\ UNCHANGED <<lines, listed, orders, published>>
    BY <2>0
  <2>2. target # 0 => orders[target] # NULL BY <2>1 DEF DraftsOf, LiveOrders
  <2>3. /\ t.step = "checked" /\ t.target = target /\ t.alone = (Busy = {})
        /\ lines[t.material] = t.from
    BY <2>1
  <2>4. Prepared(t)' BY <2>1, <2>2, <2>3 DEF Prepared
  <2> QED BY <2>1, <2>3, <2>4, AloneOpened
<1>4. CASE OpenConfirm(w)
  <2>1. PICK o, todo, t :
        /\ t = [kind |-> "confirm", step |-> "detecting", order |-> o, row |-> 0,
                todo |-> todo, alone |-> Busy = {}]
        /\ Opened(w, t)
    BY <1>4 DEF OpenConfirm
  <2>2. t.step = "detecting" /\ t.alone = (Busy = {}) BY <2>1
  <2> QED BY <2>1, <2>2, AloneOpened DEF Prepared
<1> QED BY <1>1, <1>2, <1>3, <1>4

LEMMA Field ==
  ASSUME OrdersInv, NEW w \in Workers, tx[w] # NULL
  PROVE  /\ {"kind", "step", "alone"} \subseteq DOMAIN tx[w]
         /\ tx[w].kind \in {"delete", "create"} => {"victims", "freed"} \subseteq DOMAIN tx[w]
         /\ tx[w].kind = "create" => {"todo", "got", "stamped"} \subseteq DOMAIN tx[w]
         /\ tx[w].kind = "confirm" => {"row", "todo"} \subseteq DOMAIN tx[w]
         /\ tx[w].step \in {"unlinking", "unlinked", "items", "reading"} =>
              tx[w].kind \in {"delete", "create"}
         /\ tx[w].kind = "replace" =>
              {"material", "from", "to", "target", "seen", "list"} \subseteq DOMAIN tx[w]
         /\ tx[w].step \in {"checked", "flushed", "rebuilt", "overridden"} => tx[w].kind = "replace"
         /\ tx[w].step \in {"detecting", "publishing"} => tx[w].kind = "confirm"
BY DEF OrdersInv, RequestsOk, Good, IsDelete, IsCreate, IsReplace, IsConfirm

(* A request ends.                                                         *)
LEMMA AloneEnds ==
  ASSUME OrdersInv, AloneInv, NEW w \in Workers, tx[w] # NULL, Ends(w)
  PROVE  AloneInv'
BY AloneGoes DEF Ends

(* Deletion: between its statements nobody has published a price of one of *)
(* its items, or added an item.                                            *)
LEMMA AloneDeletes ==
  ASSUME OrdersInv, AloneInv, NEW w \in Workers,
         Unlink(w) \/ RemoveItems(w) \/ RemoveOrders(w) \/ ReadLines(w)
  PROVE  AloneInv'
<1>1. CASE Unlink(w)
  <2>1. PICK freed, t : /\ freed = [o \in Victims(w) |-> Unlinked(o)]
                        /\ t = [tx[w] EXCEPT !.step = "unlinked", !.freed = freed]
                        /\ Goes(w, t) /\ UNCHANGED <<lines, listed, orders, published>>
    BY <1>1 DEF Unlink
  <2>2. tx[w] # NULL /\ tx[w].step = "unlinking" BY <1>1 DEF Unlink, At
  <2>3. t.step = "unlinked" /\ t.freed = freed /\ t.victims = tx[w].victims /\ t.alone = tx[w].alone
    BY <2>1, <2>2, Field
  <2>4. ASSUME NEW o \in t.victims, orders[o] # NULL, NEW k \in DOMAIN Items(o)
        PROVE  k \in DOMAIN t.freed[o] /\ t.freed[o][k] = Items(o)[k].sources
    <3>1. o \in Victims(w) BY <2>3, <2>4 DEF Victims
    <3>2. t.freed[o] = Unlinked(o) BY <2>1, <2>3, <3>1
    <3> QED BY <2>4, <3>2 DEF Unlinked
  <2>5. Prepared(t) BY <2>3, <2>4 DEF Prepared
  <2>6. Prepared(t)' BY <2>1, <2>5 DEF Prepared, Items, Pair
  <2> QED BY <2>1, <2>2, <2>3, <2>6, AloneGoes
<1>2. CASE RemoveItems(w)
  <2>1. PICK freed, t : /\ freed = [o \in Victims(w) |-> Len(Items(o))]
                        /\ t = [tx[w] EXCEPT !.step = "items", !.freed = freed]
                        /\ Goes(w, t) /\ UNCHANGED <<lines, listed, orders, published>>
    BY <1>2 DEF RemoveItems
  <2>2. tx[w] # NULL /\ tx[w].step = "unlinked" BY <1>2 DEF RemoveItems, At
  <2>3. t.step = "items" /\ t.freed = freed /\ t.victims = tx[w].victims /\ t.alone = tx[w].alone
    BY <2>1, <2>2, Field
  <2>4. \A o \in t.victims : orders[o] # NULL => t.freed[o] = Len(Items(o))
    BY <2>1, <2>3 DEF Victims
  <2>5. Prepared(t) BY <2>3, <2>4 DEF Prepared
  <2>6. Prepared(t)' BY <2>1, <2>5 DEF Prepared, Items, Pair
  <2> QED BY <2>1, <2>2, <2>3, <2>6, AloneGoes
<1>3. CASE RemoveOrders(w)
  <2>1. PICK t : t = [tx[w] EXCEPT !.step = "reading"] /\ Goes(w, t)
    BY <1>3 DEF RemoveOrders
  <2>2. tx[w] # NULL BY <1>3 DEF RemoveOrders, At
  <2>3. t.step = "reading" /\ t.alone = tx[w].alone BY <2>1, <2>2, Field
  <2> QED BY <2>1, <2>2, <2>3, AloneGoes DEF Prepared
<1>4. CASE ReadLines(w)
  <2>1. PICK s, stamped, t :
        /\ t = [tx[w] EXCEPT !.todo = @ \ {s}, !.got = Gathered(@, s), !.stamped = stamped]
        /\ Goes(w, t)
    BY <1>4 DEF ReadLines
  <2>2. tx[w] # NULL /\ tx[w].step = "reading" BY <1>4 DEF ReadLines, At
  <2>3. t.step = "reading" /\ t.alone = tx[w].alone BY <2>1, <2>2, Field
  <2> QED BY <2>1, <2>2, <2>3, AloneGoes DEF Prepared
<1> QED BY <1>1, <1>2, <1>3, <1>4

(* Replacement: the line and the list are still those it read, so that its *)
(* supplier's entry is in the list it writes, and the draft it found is    *)
(* still there when the item is placed.                                    *)
LEMMA AloneOverrides ==
  ASSUME OrdersInv, AloneInv, NEW w \in Workers,
         FlushOverride(w) \/ RebuildList(w) \/ CommitOverride(w)
  PROVE  AloneInv'
<1>1. CASE FlushOverride(w)
  <2>1. PICK t : /\ t = [tx[w] EXCEPT !.step = "flushed", !.seen = listed] /\ Goes(w, t)
                 /\ UNCHANGED <<lines, listed, orders, published>>
    BY <1>1 DEF FlushOverride
  <2>2. tx[w] # NULL /\ tx[w].step = "checked" BY <1>1 DEF FlushOverride, At
  <2>3. /\ t.step = "flushed" /\ t.target = tx[w].target /\ t.alone = tx[w].alone
        /\ t.material = tx[w].material /\ t.from = tx[w].from /\ t.seen = listed
    BY <2>1, <2>2, Field
  <2>4. ASSUME t.alone PROVE Prepared(t)'
    <3>1. /\ t.target # 0 => orders[t.target] # NULL
          /\ lines[t.material] = t.from
      BY <2>2, <2>3, <2>4 DEF AloneInv, Prepared
    <3> QED BY <2>1, <2>3, <3>1 DEF Prepared
  <2> QED BY <2>1, <2>2, <2>3, <2>4, AloneGoes
<1>2. CASE RebuildList(w)
  <2>1. PICK list, t :
          /\ list = Relisted(tx[w]) /\ t = [tx[w] EXCEPT !.step = "rebuilt", !.list = list]
          /\ Goes(w, t) /\ UNCHANGED <<lines, listed, orders, published>>
    BY <1>2 DEF RebuildList
  <2>2. tx[w] # NULL /\ tx[w].step = "flushed" BY <1>2 DEF RebuildList, At
  <2>3. /\ t.step = "rebuilt" /\ t.target = tx[w].target /\ t.alone = tx[w].alone
        /\ t.material = tx[w].material /\ t.from = tx[w].from /\ t.to = tx[w].to
        /\ t.seen = tx[w].seen /\ t.list = list
    BY <2>1, <2>2, Field
  <2>4. ASSUME t.alone PROVE Prepared(t)'
    <3>1. /\ t.target # 0 => orders[t.target] # NULL
          /\ lines[t.material] = t.from /\ t.seen = listed
      BY <2>2, <2>3, <2>4 DEF AloneInv, Prepared
    <3>2. tx[w].material \in Materials /\ lines \in [Materials -> Suppliers]
      BY <2>2 DEF OrdersInv, RequestsOk, Good, IsReplace, IsCreate, IsConfirm, IsDelete, TablesOk
    <3>3. Reassigned(tx[w])[tx[w].material] = tx[w].to BY <2>3, <3>1, <3>2 DEF Reassigned
    <3>4. t.to \in t.list BY <2>1, <2>3, <3>2, <3>3 DEF Relisted, HasLines
    <3> QED BY <2>1, <2>3, <3>1, <3>4 DEF Prepared
  <2> QED BY <2>1, <2>2, <2>3, <2>4, AloneGoes
<1>3. CASE CommitOverride(w)
  <2>1. PICK t : /\ t = [tx[w] EXCEPT !.step = "overridden"] /\ Goes(w, t)
                 /\ listed' = tx[w].list \/ (tx[w].list = tx[w].seen /\ UNCHANGED listed)
                 /\ UNCHANGED <<orders, published>>
    BY <1>3 DEF CommitOverride
  <2>2. tx[w] # NULL /\ tx[w].step = "rebuilt" BY <1>3 DEF CommitOverride, At
  <2>3. /\ t.step = "overridden" /\ t.target = tx[w].target /\ t.alone = tx[w].alone
        /\ t.to = tx[w].to
    BY <2>1, <2>2, Field
  <2>4. ASSUME t.alone PROVE Prepared(t)'
    <3>1. /\ t.target # 0 => orders[t.target] # NULL
          /\ tx[w].seen = listed /\ tx[w].to \in tx[w].list
      BY <2>2, <2>3, <2>4 DEF AloneInv, Prepared
    <3>2. t.to \in listed' BY <2>1, <2>3, <3>1
    <3> QED BY <2>1, <2>3, <3>1, <3>2 DEF Prepared
  <2> QED BY <2>1, <2>2, <2>3, <2>4, AloneGoes
<1> QED BY <1>1, <1>2, <1>3

(* Publication: the price compared is still the active one.                *)
LEMMA AlonePublishes ==
  ASSUME OrdersInv, AloneInv, NEW w \in Workers, Detect(w) \/ Publish(w)
  PROVE  AloneInv'
<1>1. CASE Detect(w)
  <2>1. PICK k, t :
        /\ \/ Diverges(tx[w].order, k) /\ t = [tx[w] EXCEPT !.step = "publishing", !.row = k]
           \/ t = NULL
           \/ t = [tx[w] EXCEPT !.todo = @ \ {k}]
        /\ Goes(w, t) /\ UNCHANGED <<lines, listed, orders, published>>
    BY <1>1 DEF Detect, Ends
  <2>2. tx[w] # NULL /\ tx[w].step = "detecting" BY <1>1 DEF Detect, At
  <2>3. CASE Diverges(tx[w].order, k) /\ t = [tx[w] EXCEPT !.step = "publishing", !.row = k]
    <3>1. /\ t.step = "publishing" /\ t.order = tx[w].order /\ t.row = k
          /\ t.alone = tx[w].alone
      BY <2>2, <2>3, Field
    <3>2. Prepared(t) BY <2>3, <3>1 DEF Prepared, Diverges
    <3>3. Prepared(t)' BY <2>1, <3>2 DEF Prepared, Items, Pair
    <3> QED BY <2>1, <2>2, <3>1, <3>3, AloneGoes
  <2>4. CASE t = NULL BY <2>1, <2>2, <2>4, AloneGoes
  <2>5. CASE t = [tx[w] EXCEPT !.todo = @ \ {k}]
    <3>1. t.step = "detecting" /\ t.alone = tx[w].alone BY <2>2, <2>5, Field
    <3> QED BY <2>1, <2>2, <3>1, AloneGoes DEF Prepared
  <2> QED BY <2>1, <2>3, <2>4, <2>5
<1>2. CASE Publish(w)
  <2>1. PICK k, t :
        /\ t = NULL \/ t = [tx[w] EXCEPT !.step = "detecting", !.row = 0, !.todo = @ \ {k}]
        /\ Goes(w, t)
    BY <1>2 DEF Publish, Ends
  <2>2. tx[w] # NULL BY <1>2 DEF Publish, At
  <2>3. t # NULL => t.step = "detecting" /\ t.alone = tx[w].alone BY <2>1, <2>2, Field
  <2> QED BY <2>1, <2>2, <2>3, AloneGoes DEF Prepared
<1> QED BY <1>1, <1>2

LEMMA AloneStep ==
  ASSUME OrdersInv, AloneInv, [Next]_vars
  PROVE  AloneInv'
<1>1. CASE UNCHANGED vars
  <2>1. tx' = tx /\ orders' = orders /\ published' = published /\ lines' = lines /\ listed' = listed
    BY <1>1 DEF vars
  <2>2. \A o : Items(o)' = Items(o) BY <2>1 DEF Items
  <2>3. \A o, i : Pair(o, i)' = Pair(o, i) BY <2>1, <2>2 DEF Pair
  <2>4. \A t : Prepared(t)' = Prepared(t) BY <2>1, <2>2, <2>3 DEF Prepared
  <2> QED BY <2>1, <2>4 DEF AloneInv
<1>2. CASE PatchItem \/ AddRawItem BY <1>2, AloneShort DEF PatchItem, AddRawItem
<1>3. ASSUME NEW w \in Workers, OpenDelete(w) \/ OpenCreate(w) \/ OpenReplace(w) \/ OpenConfirm(w)
      PROVE  AloneInv'
  BY <1>3, AloneOpens
<1>4. ASSUME NEW w \in Workers, Unlink(w) \/ RemoveItems(w) \/ RemoveOrders(w) \/ ReadLines(w)
      PROVE  AloneInv'
  BY <1>4, AloneDeletes
<1>5. ASSUME NEW w \in Workers,
             FlushOverride(w) \/ RebuildList(w) \/ CommitOverride(w) \/ Detect(w) \/ Publish(w)
      PROVE  AloneInv'
  BY <1>5, AloneOverrides, AlonePublishes
<1>6. ASSUME NEW w \in Workers, CommitDelete(w) \/ CommitCreate(w) \/ PlaceReplacement(w) \/ Abort(w)
      PROVE  AloneInv'
  BY <1>6, AloneEnds DEF CommitDelete, CommitCreate, PlaceReplacement, Abort, At
<1> QED BY <1>1, <1>2, <1>3, <1>4, <1>5, <1>6 DEF Next

(* Whatever overlapping requests did before, one that no other overlaps    *)
(* never meets a price that still names an item it deletes, an item it has *)
(* not seen, a draft that has gone, a summary missing from the list its    *)
(* own override has written, or a price already published.                 *)
THEOREM LoneSucceeds == Spec => []LoneRequestSucceeds
<1>1. Init => AloneInv BY DEF Init, AloneInv
<1>2. ASSUME OrdersInv, AloneInv PROVE LoneRequestSucceeds
  <2> SUFFICES ASSUME NEW w \in Workers, tx[w] # NULL, tx[w].alone
               PROVE  /\ tx[w].step = "unlinked" => ~StillSource(w)
                      /\ tx[w].step = "items" => ~HasNewItem(w)
                      /\ tx[w].step = "overridden" => ~CannotPlace(w)
                      /\ tx[w].step = "publishing" => ~CannotPublish(w)
    BY DEF LoneRequestSucceeds
  <2>1. Prepared(tx[w]) /\ Good(tx[w]) BY <1>2 DEF AloneInv, OrdersInv, RequestsOk
  <2>2. ASSUME tx[w].step = "unlinked" PROVE ~StillSource(w)
    <3> SUFFICES ASSUME NEW o \in Victims(w), NEW k \in DOMAIN Items(o)
                 PROVE  ~(Items(o)[k].sources >
                            IF k \in DOMAIN tx[w].freed[o] THEN tx[w].freed[o][k] ELSE 0)
      BY DEF StillSource
    <3>1. o \in LiveOrders
      BY <2>1, <2>2 DEF Victims, LiveOrders, Good, IsDelete, IsCreate, IsReplace, IsConfirm
    <3>2. Items(o)[k].sources \in Nat BY <1>2, <3>1, LiveRow DEF OrdersInv, ItemRow
    <3>3. k \in DOMAIN tx[w].freed[o] /\ tx[w].freed[o][k] = Items(o)[k].sources
      BY <2>1, <2>2 DEF Prepared, Victims
    <3> QED BY <3>2, <3>3
  <2>3. ASSUME tx[w].step = "items" PROVE ~HasNewItem(w)
    <3> SUFFICES ASSUME NEW o \in Victims(w) PROVE ~(Len(Items(o)) > tx[w].freed[o])
      BY DEF HasNewItem
    <3>1. o \in LiveOrders
      BY <2>1, <2>3 DEF Victims, LiveOrders, Good, IsDelete, IsCreate, IsReplace, IsConfirm
    <3>2. Len(Items(o)) \in Nat BY <1>2, <3>1, LiveRow DEF OrdersInv
    <3>3. tx[w].freed[o] = Len(Items(o)) BY <2>1, <2>3 DEF Prepared, Victims
    <3> QED BY <3>2, <3>3
  <2>4. tx[w].step = "overridden" => ~CannotPlace(w)
    BY <2>1 DEF Prepared, TargetGone, CannotPlace
  <2>5. tx[w].step = "publishing" => ~CannotPublish(w) BY <2>1 DEF Prepared, CannotPublish
  <2> QED BY <2>2, <2>3, <2>4, <2>5
<1>3. ASSUME OrdersInv, AloneInv, [Next]_vars PROVE AloneInv' BY <1>3, AloneStep
<1> QED BY <1>1, <1>2, <1>3, OrdersInvHolds, PTL DEF Spec

-----------------------------------------------------------------------------
(* While requests come one after another, drafts stay unambiguous          *)

AllDistinct == \A o \in DOMAIN orders : orders[o] # NULL => Distinct(orders[o].items)

(* A replacement's draft does not list the material.                       *)
Fresh(t) ==
  t.kind = "replace" /\ t.target # 0 /\ orders[t.target] # NULL =>
    t.material \notin MaterialsIn(t.target)

SerialInv ==
  ~overlapped =>
    /\ AllDistinct
    /\ \A v, w \in Workers : tx[v] # NULL /\ tx[w] # NULL => v = w
    /\ \A w \in Workers : tx[w] # NULL => Fresh(tx[w])

LEMMA SerialGoes ==
  ASSUME OrdersInv, SerialInv, NEW w \in Workers, tx[w] # NULL, NEW t, Goes(w, t),
         ~overlapped => AllDistinct', ~overlapped => (t # NULL => Fresh(t)')
  PROVE  SerialInv'
<1>1. tx'[w] = t /\ \A v \in Workers : v # w => tx'[v] = tx[v]
  BY DEF Goes, OrdersInv, RequestsOk
<1>2. overlapped' = overlapped BY DEF Goes
<1>3. SUFFICES ASSUME ~overlapped
               PROVE  /\ AllDistinct'
                      /\ \A v, u \in Workers : tx'[v] # NULL /\ tx'[u] # NULL => v = u
                      /\ \A v \in Workers : tx'[v] # NULL => Fresh(tx[v])'
  BY <1>2 DEF SerialInv
<1>4. \A v \in Workers : tx[v] # NULL => v = w BY <1>3 DEF SerialInv
<1>5. \A v, u \in Workers : tx'[v] # NULL /\ tx'[u] # NULL => v = u BY <1>1, <1>4
<1>6. ASSUME NEW v \in Workers, tx'[v] # NULL PROVE Fresh(tx[v])'
  <2>1. v = w BY <1>1, <1>4, <1>6
  <2>2. Fresh(t)' BY <1>1, <1>3, <1>6, <2>1
  <2> QED BY <1>1, <2>1, <2>2
<1> QED BY <1>3, <1>5, <1>6

LEMMA SerialOpened ==
  ASSUME SerialInv, NEW w \in Workers, NEW t, Opened(w, t), UNCHANGED orders, Fresh(t)
  PROVE  SerialInv'
<1>1. /\ tx'[w] = t /\ overlapped' = (overlapped \/ Busy # {})
      /\ \A v \in Workers : v # w =>
           tx'[v] = IF v \in Busy THEN [tx[v] EXCEPT !.alone = FALSE] ELSE tx[v]
  BY DEF Opened
<1>2. SUFFICES ASSUME ~overlapped'
               PROVE  /\ AllDistinct'
                      /\ \A v, u \in Workers : tx'[v] # NULL /\ tx'[u] # NULL => v = u
                      /\ \A v \in Workers : tx'[v] # NULL => Fresh(tx[v])'
  BY DEF SerialInv
<1>3. ~overlapped /\ Busy = {} BY <1>1, <1>2
<1>4. AllDistinct' BY <1>3 DEF SerialInv, AllDistinct
<1>5. ASSUME NEW v \in Workers, tx'[v] # NULL PROVE v = w
  <2>1. v \notin Busy /\ tx[v] = NULL BY <1>3 DEF Busy
  <2> QED BY <1>1, <1>5, <2>1
<1>6. Fresh(t)' BY DEF Fresh, MaterialsIn, Items
<1>7. ASSUME NEW v \in Workers, tx'[v] # NULL PROVE Fresh(tx[v])' BY <1>1, <1>5, <1>6, <1>7
<1> QED BY <1>4, <1>5, <1>7

(* An order's items are extended or changed so that none repeats.          *)
LEMMA DistinctKept ==
  ASSUME OrdersInv, AllDistinct, NEW o \in LiveOrders, NEW items, orders' = WithItems(o, items),
         Distinct(items)
  PROVE  AllDistinct'
<1>1. DOMAIN orders' = DOMAIN orders
      /\ \A p \in DOMAIN orders :
           orders'[p] = IF p = o THEN [supplier |-> orders[o].supplier, items |-> items] ELSE orders[p]
  BY DEF WithItems, OrdersInv, TablesOk
<1> QED BY <1>1 DEF AllDistinct

LEMMA DistinctAppend ==
  ASSUME NEW items \in Seq(ItemRow), NEW row, Distinct(items),
         row.material = RAW \/ \A k \in DOMAIN items : items[k].material # row.material
  PROVE  Distinct(Append(items, row))
<1>1. PICK more : more = Append(items, row) OBVIOUS
<1>2. /\ DOMAIN more = DOMAIN items \cup {Len(items) + 1}
      /\ \A k \in DOMAIN items : more[k] = items[k]
      /\ more[Len(items) + 1] = row
  BY <1>1
<1>3. Distinct(more) BY <1>2 DEF Distinct
<1> QED BY <1>1, <1>3

LEMMA SerialShort ==
  ASSUME Short, SerialInv, ~overlapped => AllDistinct'
  PROVE  SerialInv'
<1>1. /\ overlapped' = (overlapped \/ Busy # {})
      /\ \A v \in Workers : tx'[v] = IF v \in Busy THEN [tx[v] EXCEPT !.alone = FALSE] ELSE NULL
  BY DEF Short
<1>2. ASSUME ~overlapped', NEW v \in Workers PROVE tx'[v] = NULL
  <2>1. v \notin Busy BY <1>1, <1>2
  <2> QED BY <1>1, <2>1
<1>3. ~overlapped' => ~overlapped BY <1>1
<1> QED BY <1>2, <1>3 DEF SerialInv

LEMMA SerialShortSteps ==
  ASSUME OrdersInv, SerialInv, PatchItem \/ AddRawItem
  PROVE  SerialInv'
<1>1. Short BY DEF PatchItem, AddRawItem
<1>2. SUFFICES ASSUME AllDistinct PROVE AllDistinct' BY <1>1, SerialShort DEF SerialInv
<1>3. CASE PatchItem
  <2>1. PICK o \in LiveOrders : \E k \in DOMAIN Items(o) : \E items :
          /\ orders' = WithItems(o, items)
          /\ \/ items = [Items(o) EXCEPT ![k].declined = ~@]
             \/ items = [Items(o) EXCEPT ![k].confirmed = ~@]
    BY <1>3 DEF PatchItem
  <2>2. PICK k, items, row :
          /\ k \in DOMAIN Items(o)
          /\ orders' = WithItems(o, items) /\ items = [Items(o) EXCEPT ![k] = row]
          /\ \/ row = [Items(o)[k] EXCEPT !.declined = ~@]
             \/ row = [Items(o)[k] EXCEPT !.confirmed = ~@]
    BY <2>1
  <2>3. Items(o) \in Seq(ItemRow) /\ Items(o)[k] \in ItemRow BY <2>2, LiveRow DEF OrdersInv
  <2>4. row.material = Items(o)[k].material BY <2>2, <2>3 DEF ItemRow
  <2>5. DOMAIN items = DOMAIN Items(o)
        /\ \A j \in DOMAIN items : items[j].material = Items(o)[j].material
    BY <2>2, <2>3, <2>4
  <2>6. Distinct(Items(o)) BY <1>2, LiveRow DEF OrdersInv, AllDistinct
  <2>7. Distinct(items) BY <2>5, <2>6 DEF Distinct
  <2> QED BY <1>2, <2>2, <2>7, DistinctKept
<1>4. CASE AddRawItem
  <2>1. PICK o \in LiveOrders : orders' = WithItems(o, Append(Items(o), Item(RAW)))
    BY <1>4 DEF AddRawItem
  <2>2. PICK items : items = Append(Items(o), Item(RAW)) OBVIOUS
  <2>3. Item(RAW).material = RAW BY NewItem
  <2>4. Distinct(Items(o)) /\ Items(o) \in Seq(ItemRow)
    BY <1>2, LiveRow DEF OrdersInv, AllDistinct
  <2>5. Distinct(items) BY <2>2, <2>3, <2>4, DistinctAppend
  <2> QED BY <1>2, <2>1, <2>2, <2>5, DistinctKept
<1> QED BY <1>3, <1>4

(* The steps of one request.                                               *)
LEMMA SerialOpens ==
  ASSUME OrdersInv, SerialInv, NEW w \in Workers,
         OpenDelete(w) \/ OpenCreate(w) \/ OpenReplace(w) \/ OpenConfirm(w)
  PROVE  SerialInv'
<1>1. CASE OpenDelete(w)
  <2>1. PICK o, t : /\ t = [kind |-> "delete", step |-> "unlinking", victims |-> {o},
                            freed |-> <<>>, alone |-> Busy = {}]
                    /\ Opened(w, t) /\ UNCHANGED orders
    BY <1>1 DEF OpenDelete
  <2>2. t.kind = "delete" BY <2>1
  <2> QED BY <2>1, <2>2, SerialOpened DEF Fresh
<1>2. CASE OpenCreate(w)
  <2>1. PICK answer, victims, todo, step, t :
        /\ t = [kind |-> "create", answer |-> answer, victims |-> victims, freed |-> <<>>,
                step |-> step, todo |-> todo, got |-> <<>>, stamped |-> {}, alone |-> Busy = {}]
        /\ Opened(w, t) /\ UNCHANGED orders
    BY <1>2 DEF OpenCreate
  <2>2. t.kind = "create" BY <2>1
  <2> QED BY <2>1, <2>2, SerialOpened DEF Fresh
<1>3. CASE OpenReplace(w)
  <2>0. PICK o \in LiveOrders : \E k \in DOMAIN Items(o), s \in Suppliers :
        /\ MayReceive(Items(o)[k].material, s)
        /\ Opened(w, [kind |-> "replace", step |-> "checked", material |-> Items(o)[k].material,
                      from |-> lines[Items(o)[k].material], to |-> s,
                      target |-> IF DraftsOf(s) = {} THEN 0 ELSE CHOOSE p \in DraftsOf(s) : TRUE,
                      seen |-> {}, list |-> {}, alone |-> Busy = {}])
        /\ UNCHANGED <<lines, listed, orders, published>>
    BY <1>3 DEF OpenReplace
  <2>1. PICK k, s, target, t :
        /\ k \in DOMAIN Items(o) /\ s \in Suppliers
        /\ MayReceive(Items(o)[k].material, s)
        /\ target = IF DraftsOf(s) = {} THEN 0 ELSE CHOOSE p \in DraftsOf(s) : TRUE
        /\ t = [kind |-> "replace", step |-> "checked", material |-> Items(o)[k].material,
                from |-> lines[Items(o)[k].material], to |-> s, target |-> target,
                seen |-> {}, list |-> {}, alone |-> Busy = {}]
        /\ Opened(w, t) /\ UNCHANGED <<lines, listed, orders, published>>
    BY <2>0
  <2>2. t.target = target /\ t.material = Items(o)[k].material BY <2>1
  <2>3. target # 0 => target \in DraftsOf(s) BY <2>1
  <2>4. Fresh(t) BY <2>1, <2>2, <2>3 DEF Fresh, MayReceive
  <2> QED BY <2>1, <2>4, SerialOpened
<1>4. CASE OpenConfirm(w)
  <2>1. PICK o, todo, t :
        /\ t = [kind |-> "confirm", step |-> "detecting", order |-> o, row |-> 0,
                todo |-> todo, alone |-> Busy = {}]
        /\ Opened(w, t) /\ UNCHANGED orders
    BY <1>4 DEF OpenConfirm
  <2>2. t.kind = "confirm" BY <2>1
  <2> QED BY <2>1, <2>2, SerialOpened DEF Fresh
<1> QED BY <1>1, <1>2, <1>3, <1>4

LEMMA SerialMoves ==
  ASSUME OrdersInv, SerialInv, NEW w \in Workers, tx[w] # NULL, NEW t, Goes(w, t),
         UNCHANGED orders, Fresh(tx[w]) /\ t # NULL => Fresh(t)
  PROVE  SerialInv'
<1>1. ~overlapped => AllDistinct' BY DEF SerialInv, AllDistinct
<1>2. ~overlapped /\ t # NULL => Fresh(t) BY DEF SerialInv, Fresh
<1>3. ~overlapped => (t # NULL => Fresh(t)') BY <1>2 DEF Fresh, MaterialsIn, Items
<1> QED BY <1>1, <1>3, SerialGoes

LEMMA SerialSteps ==
  ASSUME OrdersInv, SerialInv, NEW w \in Workers,
         \/ Unlink(w) \/ RemoveItems(w) \/ RemoveOrders(w) \/ ReadLines(w)
         \/ FlushOverride(w) \/ RebuildList(w) \/ CommitOverride(w) \/ Detect(w) \/ Abort(w)
  PROVE  SerialInv'
<1>1. CASE Unlink(w) \/ RemoveItems(w) \/ RemoveOrders(w) \/ ReadLines(w)
  <2>1. PICK t : /\ \/ \E freed, step : t = [tx[w] EXCEPT !.step = step, !.freed = freed]
                    \/ t = [tx[w] EXCEPT !.step = "reading"]
                    \/ \E s, stamped : t = [tx[w] EXCEPT !.todo = @ \ {s}, !.got = Gathered(@, s),
                                                         !.stamped = stamped]
                 /\ Goes(w, t) /\ UNCHANGED orders /\ tx[w] # NULL
                 /\ tx[w].step \in {"unlinking", "unlinked", "items", "reading"}
    BY <1>1 DEF Unlink, RemoveItems, RemoveOrders, ReadLines, At
  <2>2. t.kind = tx[w].kind /\ tx[w].kind \in {"delete", "create"} BY <2>1, Field
  <2> QED BY <2>1, <2>2, SerialMoves DEF Fresh
<1>2. CASE FlushOverride(w) \/ RebuildList(w) \/ CommitOverride(w)
  <2>1. PICK list, t : /\ \/ t = [tx[w] EXCEPT !.step = "flushed", !.seen = list]
                          \/ t = [tx[w] EXCEPT !.step = "rebuilt", !.list = list]
                          \/ t = [tx[w] EXCEPT !.step = "overridden"]
                       /\ Goes(w, t) /\ UNCHANGED orders
    BY <1>2 DEF FlushOverride, RebuildList, CommitOverride
  <2>2. tx[w] # NULL /\ tx[w].step \in {"checked", "flushed", "rebuilt"}
    BY <1>2 DEF FlushOverride, RebuildList, CommitOverride, At
  <2>3. t.kind = tx[w].kind /\ t.target = tx[w].target /\ t.material = tx[w].material
    BY <2>1, <2>2, Field
  <2>4. Fresh(tx[w]) => Fresh(t) BY <2>3 DEF Fresh
  <2> QED BY <2>1, <2>2, <2>4, SerialMoves
<1>3. CASE Detect(w)
  <2>1. PICK k, t : /\ \/ t = [tx[w] EXCEPT !.step = "publishing", !.row = k]
                       \/ t = NULL
                       \/ t = [tx[w] EXCEPT !.todo = @ \ {k}]
                    /\ Goes(w, t) /\ UNCHANGED orders
    BY <1>3 DEF Detect, Ends
  <2>2. tx[w] # NULL /\ tx[w].kind = "confirm" BY <1>3, Field DEF Detect, At
  <2>3. t # NULL => t.kind = "confirm" BY <2>1, <2>2, Field
  <2> QED BY <2>1, <2>2, <2>3, SerialMoves DEF Fresh
<1>4. CASE Abort(w) BY <1>4, SerialMoves DEF Abort, Ends
<1> QED BY <1>1, <1>2, <1>3, <1>4

(* Commits that change the orders.                                         *)
LEMMA SerialCommits ==
  ASSUME OrdersInv, SerialInv, NEW w \in Workers,
         CommitDelete(w) \/ CommitCreate(w) \/ PlaceReplacement(w)
  PROVE  SerialInv'
<1>1. tx[w] # NULL /\ Goes(w, NULL) BY DEF CommitDelete, CommitCreate, PlaceReplacement, At, Ends
<1>2. SUFFICES ASSUME ~overlapped PROVE AllDistinct' BY <1>1, SerialGoes
<1>3. AllDistinct /\ Fresh(tx[w]) BY <1>1, <1>2 DEF SerialInv
<1>4. orders \in Seq(OrderRow \cup {NULL}) BY DEF OrdersInv, TablesOk
<1>5. CASE CommitDelete(w) BY <1>3, <1>5 DEF CommitDelete, Without, AllDistinct
<1>6. CASE CommitCreate(w)
  <2>1. IsCreate(tx[w])
    BY <1>6 DEF CommitCreate, At, OrdersInv, RequestsOk, Good, IsReplace, IsConfirm, IsDelete
  <2>2. PICK gone, more : /\ gone = Without(orders, tx[w].victims) /\ more = NewOrders(tx[w].got)
                          /\ orders' = gone \o more
    BY <1>6 DEF CommitCreate
  <2>3. /\ more \in Seq(OrderRow) /\ \A i \in DOMAIN more : Distinct(more[i].items)
    BY <2>1, <2>2, NewOrdersShown DEF IsCreate
  <2>4. /\ gone \in Seq(OrderRow \cup {NULL})
        /\ \A p \in DOMAIN gone : gone[p] # NULL => Distinct(gone[p].items)
    <3>1. gone = [o \in DOMAIN orders |-> IF o \in tx[w].victims THEN NULL ELSE orders[o]]
      BY <2>2 DEF Without
    <3>2. gone \in Seq(OrderRow \cup {NULL}) BY <1>4, <3>1
    <3>3. \A p \in DOMAIN gone : gone[p] # NULL => p \in DOMAIN orders /\ gone[p] = orders[p]
      BY <3>1
    <3> QED BY <1>3, <3>2, <3>3 DEF AllDistinct
  <2>5. \A p \in DOMAIN orders' : \/ p \in DOMAIN gone /\ orders'[p] = gone[p]
                                  \/ \E i \in DOMAIN more : orders'[p] = more[i]
    <3>1. /\ DOMAIN orders' = 1..(Len(gone) + Len(more)) /\ DOMAIN gone = 1..Len(gone)
          /\ Len(gone) \in Nat /\ Len(more) \in Nat
          /\ \A p \in DOMAIN gone : orders'[p] = gone[p]
          /\ \A p \in DOMAIN orders' \ DOMAIN gone :
               p - Len(gone) \in DOMAIN more /\ orders'[p] = more[p - Len(gone)]
      BY <2>2, <2>3, <2>4
    <3> QED BY <3>1
  <2> QED BY <2>3, <2>4, <2>5 DEF AllDistinct
<1>7. CASE PlaceReplacement(w)
  <2>1. PICK t : t = tx[w] OBVIOUS
  <2>2. IsReplace(t)
    BY <1>7, <2>1 DEF PlaceReplacement, At, OrdersInv, RequestsOk, Good, IsCreate, IsConfirm, IsDelete
  <2>3. CASE orders' = Append(orders, [supplier |-> t.to, items |-> <<Item(t.material)>>])
    <3>1. PICK order : order = [supplier |-> t.to, items |-> <<Item(t.material)>>] OBVIOUS
    <3>2. Distinct(order.items) BY <3>1 DEF Distinct
    <3>3. /\ DOMAIN orders' = DOMAIN orders \cup {Len(orders) + 1}
          /\ \A p \in DOMAIN orders : orders'[p] = orders[p]
          /\ orders'[Len(orders) + 1] = order
      BY <1>4, <2>3, <3>1
    <3>4. ASSUME NEW p \in DOMAIN orders', orders'[p] # NULL PROVE Distinct(orders'[p].items)
      <4>1. CASE p \in DOMAIN orders BY <1>3, <3>3, <3>4, <4>1 DEF AllDistinct
      <4>2. CASE p = Len(orders) + 1 BY <3>2, <3>3, <4>2
      <4> QED BY <3>3, <4>1, <4>2
    <3> QED BY <3>4 DEF AllDistinct
  <2>4. CASE t.target # 0 /\ orders' = WithItems(t.target, Append(Items(t.target), Item(t.material)))
    <3>1. t.target \in LiveOrders
      BY <1>7, <2>1, <2>2, <2>4 DEF PlaceReplacement, CannotPlace, TargetGone, IsReplace, LiveOrders
    <3>2. PICK items : items = Append(Items(t.target), Item(t.material)) OBVIOUS
    <3>3. Distinct(Items(t.target)) /\ Items(t.target) \in Seq(ItemRow)
      BY <1>3, <3>1, LiveRow DEF OrdersInv, AllDistinct
    <3>4. t.material \notin MaterialsIn(t.target)
      BY <1>3, <2>1, <2>2, <2>4, <3>1 DEF Fresh, IsReplace, LiveOrders
    <3>5. Item(t.material).material = t.material BY <2>2, NewItem DEF IsReplace
    <3>6. Distinct(items) BY <3>2, <3>3, <3>4, <3>5, DistinctAppend DEF MaterialsIn
    <3> QED BY <1>3, <2>4, <3>1, <3>2, <3>6, DistinctKept
  <2> QED BY <1>7, <2>1, <2>3, <2>4 DEF PlaceReplacement
<1> QED BY <1>5, <1>6, <1>7

LEMMA SerialPublishes ==
  ASSUME OrdersInv, SerialInv, NEW w \in Workers, Publish(w)
  PROVE  SerialInv'
<1>1. IsConfirm(tx[w]) /\ tx[w].step = "publishing" /\ orders[tx[w].order] # NULL /\ tx[w] # NULL
  BY DEF Publish, At, OrdersInv, RequestsOk, Good, IsCreate, IsReplace, IsDelete
<1>2. PICK o, k, items, t, row :
        /\ o = tx[w].order /\ k = tx[w].row
        /\ row = [Items(o)[k] EXCEPT !.sources = @ + 1] /\ items = [Items(o) EXCEPT ![k] = row]
        /\ orders' = WithItems(o, items) /\ Goes(w, t)
        /\ t = NULL \/ t = [tx[w] EXCEPT !.step = "detecting", !.row = 0, !.todo = @ \ {k}]
  BY DEF Publish, Ends
<1>3. o \in LiveOrders /\ k \in DOMAIN Items(o) BY <1>1, <1>2 DEF IsConfirm, LiveOrders
<1>4. Items(o) \in Seq(ItemRow) /\ Items(o)[k] \in ItemRow BY <1>3, LiveRow DEF OrdersInv
<1>5. row.material = Items(o)[k].material BY <1>2, <1>4 DEF ItemRow
<1>6. DOMAIN items = DOMAIN Items(o)
      /\ \A j \in DOMAIN items : items[j].material = Items(o)[j].material
  BY <1>2, <1>4, <1>5
<1>7. ASSUME ~overlapped PROVE AllDistinct'
  <2>1. AllDistinct BY <1>7 DEF SerialInv
  <2>2. Distinct(Items(o)) BY <1>3, <2>1, LiveRow DEF OrdersInv, AllDistinct
  <2>3. Distinct(items) BY <1>6, <2>2 DEF Distinct
  <2> QED BY <1>2, <1>3, <2>1, <2>3, DistinctKept
<1>8. t # NULL => t.kind = "confirm" BY <1>1, <1>2 DEF IsConfirm
<1>9. t # NULL => Fresh(t)' BY <1>8 DEF Fresh
<1> QED BY <1>1, <1>2, <1>7, <1>9, SerialGoes

(* A supplier's answer can be matched to one item of a draft, unless two   *)
(* requests have ever been open at once.                                   *)
THEOREM SerialCorrect == Spec => []SerialDraftsUnambiguous
<1>1. Init => SerialInv BY DEF Init, SerialInv, AllDistinct
<1>2. ASSUME OrdersInv, SerialInv, [Next]_vars PROVE SerialInv'
  <2>1. CASE UNCHANGED vars BY <1>2, <2>1 DEF vars, SerialInv, AllDistinct, Fresh, MaterialsIn, Items
  <2>2. CASE PatchItem \/ AddRawItem BY <1>2, <2>2, SerialShortSteps
  <2>3. ASSUME NEW w \in Workers, OpenDelete(w) \/ OpenCreate(w) \/ OpenReplace(w) \/ OpenConfirm(w)
        PROVE  SerialInv'
    BY <1>2, <2>3, SerialOpens
  <2>4. ASSUME NEW w \in Workers,
               \/ Unlink(w) \/ RemoveItems(w) \/ RemoveOrders(w) \/ ReadLines(w)
               \/ FlushOverride(w) \/ RebuildList(w) \/ CommitOverride(w)
               \/ Detect(w) \/ Abort(w)
        PROVE  SerialInv'
    BY <1>2, <2>4, SerialSteps
  <2>5. ASSUME NEW w \in Workers,
               CommitDelete(w) \/ CommitCreate(w) \/ PlaceReplacement(w) \/ Publish(w)
        PROVE  SerialInv'
    BY <1>2, <2>5, SerialCommits, SerialPublishes
  <2> QED BY <1>2, <2>1, <2>2, <2>3, <2>4, <2>5 DEF Next
<1>3. ASSUME OrdersInv, SerialInv PROVE SerialDraftsUnambiguous
  BY <1>3 DEF SerialInv, AllDistinct, Distinct, SerialDraftsUnambiguous, LiveOrders, Items
<1> QED BY <1>1, <1>2, <1>3, OrdersInvHolds, PTL DEF Spec
-----------------------------------------------------------------------------
(* The list of summaries names every planned supplier until two overrides  *)
(* hold it at once                                                         *)

(* Until then an override that has read the list is the only one to have,  *)
(* and the list it is going to write names every supplier of the plan it   *)
(* leaves.                                                                 *)
Writes(t) == \A s \in Suppliers : HasLines(Reassigned(t), s) => s \in t.list
ListInv ==
  ~raced =>
    /\ \A s \in Suppliers : LinesOf(s) # {} => s \in listed
    /\ \A v, w \in Workers : Overriding(v) /\ Overriding(w) => v = w
    /\ \A w \in Workers : Overriding(w) =>
         tx[w].seen = listed /\ (tx[w].step = "rebuilt" => Writes(tx[w]))

(* What ListInv reads of a request.                                        *)
Override(t) ==
  [material |-> t.material, from |-> t.from, to |-> t.to, seen |-> t.seen, list |-> t.list,
   step |-> t.step]

LEMMA WritesAlike ==
  ASSUME NEW t, NEW u, Override(u) = Override(t), Writes(t)
  PROVE  Writes(u)
BY DEF Override, Writes, Reassigned

(* A step after which the same requests hold the list they held before.    *)
LEMMA ListKept ==
  ASSUME ListInv, UNCHANGED <<lines, listed, raced>>,
         \A w \in Workers : Overriding(w)' => Overriding(w) /\ Override(tx'[w]) = Override(tx[w])
  PROVE  ListInv'
<1> SUFFICES ASSUME ~raced PROVE ListInv' BY DEF ListInv
<1>1. \A s \in Suppliers : (LinesOf(s) # {})' => s \in listed' BY DEF ListInv, LinesOf
<1>2. \A v, w \in Workers : Overriding(v)' /\ Overriding(w)' => v = w BY DEF ListInv
<1>3. ASSUME NEW w \in Workers, Overriding(w)'
      PROVE  tx'[w].seen = listed' /\ (tx'[w].step = "rebuilt" => Writes(tx[w])')
  <2>1. PICK t, u : t = tx[w] /\ u = tx'[w] OBVIOUS
  <2>2. Override(u) = Override(t) /\ t.seen = listed /\ (t.step = "rebuilt" => Writes(t))
    BY <1>3, <2>1 DEF ListInv
  <2>3. u.seen = t.seen /\ u.step = t.step BY <2>2 DEF Override
  <2>4. u.step = "rebuilt" => Writes(u) BY <2>2, <2>3, WritesAlike
  <2>5. Writes(u) => Writes(u)' BY DEF Writes, Reassigned, HasLines
  <2> QED BY <2>1, <2>2, <2>3, <2>4, <2>5
<1> QED BY <1>1, <1>2, <1>3 DEF ListInv

(* One request moves and neither before nor after holds the list.          *)
LEMMA ListGoes ==
  ASSUME OrdersInv, ListInv, NEW w \in Workers, NEW t, Goes(w, t),
         UNCHANGED <<lines, listed, raced>>,
         t # NULL => ~(t.kind = "replace" /\ t.step \in {"flushed", "rebuilt"})
  PROVE  ListInv'
<1>1. tx'[w] = t /\ \A v \in Workers : v # w => tx'[v] = tx[v]
  BY DEF Goes, OrdersInv, RequestsOk
<1>2. \A v \in Workers : Overriding(v)' => v # w /\ Overriding(v) BY <1>1 DEF Overriding
<1> QED BY <1>1, <1>2, ListKept

(* Requests open: those there learn that they are not alone.               *)
LEMMA ListCrowded ==
  ASSUME OrdersInv, ListInv, UNCHANGED <<lines, listed, raced>>,
         \A v \in Workers :
           \/ tx'[v] = NULL \/ (tx'[v].step \notin {"flushed", "rebuilt"})
           \/ v \in Busy /\ tx'[v] = [tx[v] EXCEPT !.alone = FALSE]
  PROVE  ListInv'
<1>1. ASSUME NEW w \in Workers, Overriding(w)'
      PROVE  Overriding(w) /\ Override(tx'[w]) = Override(tx[w])
  <2>1. PICK t, u : t = tx[w] /\ u = tx'[w] OBVIOUS
  <2>2. u.kind = "replace" /\ u.step \in {"flushed", "rebuilt"} /\ u # NULL
    BY <1>1, <2>1 DEF Overriding
  <2>3. w \in Busy /\ u = [t EXCEPT !.alone = FALSE] /\ t # NULL BY <2>1, <2>2 DEF Busy
  <2>4. {"kind", "step"} \subseteq DOMAIN t BY <2>1, <2>3, Field
  <2>5. t.kind = "replace" /\ t.step \in {"flushed", "rebuilt"} BY <2>2, <2>3, <2>4
  <2>6. {"material", "from", "to", "seen", "list"} \subseteq DOMAIN t BY <2>1, <2>3, <2>5, Field
  <2>7. Override(u) = Override(t) BY <2>3, <2>4, <2>6 DEF Override
  <2> QED BY <2>1, <2>3, <2>5, <2>7 DEF Overriding
<1> QED BY <1>1, ListKept

LEMMA ListOpens ==
  ASSUME OrdersInv, ListInv, NEW w \in Workers,
         OpenDelete(w) \/ OpenCreate(w) \/ OpenReplace(w) \/ OpenConfirm(w)
  PROVE  ListInv'
<1>1. PICK t : /\ Opened(w, t) /\ t.step \notin {"flushed", "rebuilt"}
               /\ UNCHANGED <<lines, listed, raced>>
  <2>1. CASE OpenDelete(w)
    <3>1. PICK o, t : /\ t = [kind |-> "delete", step |-> "unlinking", victims |-> {o},
                              freed |-> <<>>, alone |-> Busy = {}]
                      /\ Opened(w, t) /\ UNCHANGED <<lines, listed, raced>>
      BY <2>1 DEF OpenDelete
    <3> QED BY <3>1
  <2>2. CASE OpenCreate(w)
    <3>1. PICK answer, victims, todo, step, t :
          /\ step \in {"reading", "unlinking"}
          /\ t = [kind |-> "create", answer |-> answer, victims |-> victims, freed |-> <<>>,
                  step |-> step, todo |-> todo, got |-> <<>>, stamped |-> {}, alone |-> Busy = {}]
          /\ Opened(w, t) /\ UNCHANGED <<lines, listed, raced>>
      BY <2>2 DEF OpenCreate
    <3> QED BY <3>1
  <2>3. CASE OpenReplace(w)
    <3>1. PICK m, s, target, t :
          /\ t = [kind |-> "replace", step |-> "checked", material |-> m, from |-> lines[m],
                  to |-> s, target |-> target, seen |-> {}, list |-> {}, alone |-> Busy = {}]
          /\ Opened(w, t) /\ UNCHANGED <<lines, listed, raced>>
      BY <2>3 DEF OpenReplace
    <3> QED BY <3>1
  <2>4. CASE OpenConfirm(w)
    <3>1. PICK o, todo, t :
          /\ t = [kind |-> "confirm", step |-> "detecting", order |-> o, row |-> 0,
                  todo |-> todo, alone |-> Busy = {}]
          /\ Opened(w, t) /\ UNCHANGED <<lines, listed, raced>>
      BY <2>4 DEF OpenConfirm
    <3> QED BY <3>1
  <2> QED BY <2>1, <2>2, <2>3, <2>4
<1>2. \A v \in Workers :
        \/ tx'[v] = NULL \/ (tx'[v].step \notin {"flushed", "rebuilt"})
        \/ v \in Busy /\ tx'[v] = [tx[v] EXCEPT !.alone = FALSE]
  BY <1>1 DEF Opened, Busy
<1> QED BY <1>1, <1>2, ListCrowded

(* The override itself.                                                    *)
LEMMA ListOverrides ==
  ASSUME OrdersInv, ListInv, NEW w \in Workers,
         FlushOverride(w) \/ RebuildList(w) \/ CommitOverride(w)
  PROVE  ListInv'
<1>1. PICK t, u : t = tx[w] /\ u = tx'[w] OBVIOUS
<1>2. IsReplace(t)
  BY <1>1 DEF FlushOverride, RebuildList, CommitOverride, At, OrdersInv, RequestsOk, Good, IsCreate,
              IsConfirm, IsDelete
<1>3. \A v \in Workers : v # w => tx'[v] = tx[v]
  BY DEF FlushOverride, RebuildList, CommitOverride, Goes, OrdersInv, RequestsOk
<1>4. \A v \in Workers : v # w => Overriding(v)' = Overriding(v) BY <1>3 DEF Overriding
<1> SUFFICES ASSUME ~raced' PROVE ListInv' BY DEF ListInv
<1>5. ~raced BY DEF FlushOverride, RebuildList, CommitOverride
<1>6. CASE FlushOverride(w)
  <2>1. u = [t EXCEPT !.step = "flushed", !.seen = listed] /\ UNCHANGED <<lines, listed>>
    BY <1>1, <1>6 DEF FlushOverride, Goes, OrdersInv, RequestsOk
  <2>2. u.step = "flushed" /\ u.seen = listed BY <1>2, <2>1 DEF IsReplace
  <2>3. \A v \in Workers \ {w} : ~Overriding(v)' BY <1>4, <1>6 DEF FlushOverride
  <2>4. \A s \in Suppliers : (LinesOf(s) # {})' => s \in listed' BY <1>5, <2>1 DEF ListInv, LinesOf
  <2> QED BY <1>1, <2>1, <2>2, <2>3, <2>4 DEF ListInv
<1>7. CASE RebuildList(w)
  <2>1. Overriding(w) BY <1>1, <1>2, <1>7 DEF RebuildList, At, Overriding, IsReplace
  <2>2. PICK list : list = Relisted(t) OBVIOUS
  <2>3. u = [t EXCEPT !.step = "rebuilt", !.list = list] /\ UNCHANGED <<lines, listed>>
    BY <1>1, <1>7, <2>2 DEF RebuildList, Goes, OrdersInv, RequestsOk
  <2>4. /\ u.step = "rebuilt" /\ u.list = list /\ u.seen = t.seen
        /\ u.material = t.material /\ u.from = t.from /\ u.to = t.to
    BY <1>2, <2>3 DEF IsReplace
  <2>5. t.seen = listed BY <1>1, <1>5, <2>1 DEF ListInv
  <2>6. ASSUME NEW s \in Suppliers, HasLines(Reassigned(t), s) PROVE s \in list
    <3>1. CASE s \in {t.from, t.to} BY <2>2, <2>6, <3>1 DEF Relisted
    <3>2. CASE s \notin {t.from, t.to}
      <4>1. PICK m \in Materials : Reassigned(t)[m] = s BY <2>6 DEF HasLines
      <4>2. lines[m] = s
        BY <3>2, <4>1 DEF Reassigned, OrdersInv, TablesOk
      <4>3. s \in listed BY <1>5, <4>2 DEF ListInv, LinesOf
      <4> QED BY <2>2, <2>5, <3>2, <4>3 DEF Relisted
    <3> QED BY <3>1, <3>2
  <2>7. Writes(u) BY <2>4, <2>6 DEF Writes, Reassigned
  <2>8. Writes(u)' BY <2>3, <2>7 DEF Writes, Reassigned, HasLines
  <2>9. \A s \in Suppliers : (LinesOf(s) # {})' => s \in listed' BY <1>5, <2>3 DEF ListInv, LinesOf
  <2>10. \A v \in Workers : Overriding(v)' => v = w BY <1>4, <1>5, <2>1 DEF ListInv
  <2> QED BY <1>1, <2>3, <2>4, <2>5, <2>8, <2>9, <2>10 DEF ListInv
<1>8. CASE CommitOverride(w)
  <2>1. Overriding(w) /\ t.step = "rebuilt"
    BY <1>1, <1>2, <1>8 DEF CommitOverride, At, Overriding, IsReplace
  <2>2. t.seen = listed /\ Writes(t) BY <1>1, <1>5, <2>1 DEF ListInv
  <2>3. lines' = Reassigned(t) /\ listed' = t.list BY <1>1, <1>8, <2>2 DEF CommitOverride
  <2>4. \A s \in Suppliers : (LinesOf(s) # {})' => s \in listed'
    BY <2>2, <2>3 DEF Writes, HasLines, LinesOf
  <2>5. \A v \in Workers : v # w => ~Overriding(v)' BY <1>4, <1>5, <2>1 DEF ListInv
  <2>6. u = [t EXCEPT !.step = "overridden"]
    BY <1>1, <1>8 DEF CommitOverride, Goes, OrdersInv, RequestsOk
  <2>7. ~Overriding(w)' BY <1>1, <1>2, <2>6 DEF Overriding, IsReplace
  <2> QED BY <2>4, <2>5, <2>7 DEF ListInv
<1> QED BY <1>6, <1>7, <1>8

LEMMA ListStep ==
  ASSUME OrdersInv, ListInv, [Next]_vars
  PROVE  ListInv'
<1>1. CASE UNCHANGED vars
  <2>1. \A w \in Workers : Overriding(w)' => Overriding(w) /\ Override(tx'[w]) = Override(tx[w])
    BY <1>1 DEF vars, Overriding
  <2> QED BY <1>1, <2>1, ListKept DEF vars
<1>2. CASE PatchItem \/ AddRawItem
  <2>1. UNCHANGED <<lines, listed, raced>> /\ Short BY <1>2 DEF PatchItem, AddRawItem
  <2> QED BY <2>1, ListCrowded DEF Short
<1>3. ASSUME NEW w \in Workers, OpenDelete(w) \/ OpenCreate(w) \/ OpenReplace(w) \/ OpenConfirm(w)
      PROVE  ListInv'
  BY <1>3, ListOpens
<1>4. ASSUME NEW w \in Workers, Unlink(w) \/ RemoveItems(w) \/ RemoveOrders(w) \/ ReadLines(w)
      PROVE  ListInv'
  <2>1. PICK t : /\ \/ \E freed, step : t = [tx[w] EXCEPT !.step = step, !.freed = freed]
                    \/ t = [tx[w] EXCEPT !.step = "reading"]
                    \/ \E s, stamped : t = [tx[w] EXCEPT !.todo = @ \ {s}, !.got = Gathered(@, s),
                                                         !.stamped = stamped]
                 /\ Goes(w, t) /\ UNCHANGED <<lines, listed, raced>> /\ tx[w] # NULL
                 /\ tx[w].step \in {"unlinking", "unlinked", "items", "reading"}
    BY <1>4 DEF Unlink, RemoveItems, RemoveOrders, ReadLines, At
  <2>2. t.kind = tx[w].kind /\ tx[w].kind \in {"delete", "create"} BY <2>1, Field
  <2> QED BY <2>1, <2>2, ListGoes
<1>5. ASSUME NEW w \in Workers, FlushOverride(w) \/ RebuildList(w) \/ CommitOverride(w)
      PROVE  ListInv'
  BY <1>5, ListOverrides
<1>6. ASSUME NEW w \in Workers, Detect(w) \/ Publish(w)
      PROVE  ListInv'
  <2>1. PICK k, t :
          /\ \/ t = NULL
             \/ t = [tx[w] EXCEPT !.step = "publishing", !.row = k]
             \/ t = [tx[w] EXCEPT !.todo = @ \ {k}]
             \/ t = [tx[w] EXCEPT !.step = "detecting", !.row = 0, !.todo = @ \ {k}]
          /\ Goes(w, t) /\ UNCHANGED <<lines, listed, raced>>
    BY <1>6 DEF Detect, Publish, Ends
  <2>2. tx[w] # NULL /\ tx[w].kind = "confirm" BY <1>6, Field DEF Detect, Publish, At
  <2>3. t # NULL => t.kind = "confirm" BY <2>1, <2>2, Field
  <2> QED BY <2>1, <2>3, ListGoes
<1>7. ASSUME NEW w \in Workers, CommitDelete(w) \/ CommitCreate(w) \/ PlaceReplacement(w) \/ Abort(w)
      PROVE  ListInv'
  BY <1>7, ListGoes DEF CommitDelete, CommitCreate, PlaceReplacement, Abort, Ends
<1> QED BY <1>1, <1>2, <1>3, <1>4, <1>5, <1>6, <1>7 DEF Next

LEMMA ListInvHolds == Spec => []ListInv
<1>1. Init => ListInv BY DEF Init, ListInv, Overriding
<1>2. ASSUME OrdersInv, ListInv, [Next]_vars PROVE ListInv' BY <1>2, ListStep
<1> QED BY OrdersInvHolds, <1>1, <1>2, PTL DEF Spec

-----------------------------------------------------------------------------
(* A creation that is alone orders the whole plan                          *)

(* SetToSeq leaves no element out.                                         *)
LEMMA SequenceIsOnto ==
  ASSUME NEW S, IsFiniteSet(S), NEW x \in S
  PROVE  \E i \in DOMAIN SetToSeq(S) : SetToSeq(S)[i] = x
<1>1. PICK n : n = Cardinality(S) OBVIOUS
<1>2. n \in Nat /\ ExistsBijection(1..n, S) BY <1>1, FS_CardinalityType
<1>3. PICK f \in [1..n -> S] : IsInjective(f)
  BY <1>2 DEF ExistsBijection, Bijection, Injection, IsInjective
<1>4. SetToSeq(S) \in [1..n -> S] /\ IsInjective(SetToSeq(S)) BY <1>1, <1>3 DEF SetToSeq
<1>5. PICK g : g = SetToSeq(S) OBVIOUS
<1>6. g \in Injection(1..n, S) BY <1>4, <1>5 DEF Injection, IsInjective
<1>7. Cardinality(1..n) = n
  <2>1. 1 \in Int /\ n \in Int BY <1>2
  <2> QED BY <1>2, <2>1, FS_Interval
<1>8. g \in Surjection(1..n, S) BY <1>1, <1>6, <1>7, FS_Injection
<1> QED BY <1>5, <1>8 DEF Surjection

(* The order a creation makes of one supplier's lines.                     *)
OrderOf(got, s) == [supplier |-> s, items |-> SetToSeq({Item(m) : m \in got[s]})]

ListsOnce(order, m) == \E k \in DOMAIN order.items : Lists(order, m) = {k}

LEMMA OrderLists ==
  ASSUME NEW got, Gotten(got), NEW s \in DOMAIN got, NEW m \in Materials
  PROVE  IF m \in got[s] THEN ListsOnce(OrderOf(got, s), m) ELSE Lists(OrderOf(got, s), m) = {}
<1>1. got[s] \in SUBSET Materials /\ got[s] # {} BY DEF Gotten
<1>2. PICK rows, items : rows = {Item(n) : n \in got[s]} /\ items = SetToSeq(rows) OBVIOUS
<1>3. IsFiniteSet(got[s]) BY <1>1, AnswersAssumption, FS_Subset
<1>4. [n \in got[s] |-> Item(n)] \in Surjection(got[s], rows) BY <1>2 DEF Surjection
<1>5. IsFiniteSet(rows) BY <1>3, <1>4, FS_Surjection
<1>6. \A k \in DOMAIN items : items[k] \in rows
  <2>1. items \in Seq(rows) BY <1>2, <1>5, SequenceOfSet
  <2> QED BY <2>1
<1>7. \A j, k \in DOMAIN items : items[j] = items[k] => j = k BY <1>2, <1>5, SequenceOfSet
<1>8. \A row \in rows : row \in {Item(n) : n \in got[s]} /\ row.material \in got[s] /\ row = Item(row.material)
  BY <1>1, <1>2, NewItem
<1>9. PICK order : order = OrderOf(got, s) OBVIOUS
<1>10. order.items = items BY <1>2, <1>9 DEF OrderOf
<1>11. CASE m \in got[s]
  <2>1. Item(m) \in rows /\ Item(m).material = m BY <1>2, <1>11, NewItem
  <2>2. PICK k \in DOMAIN items : items[k] = Item(m) BY <1>2, <1>5, <2>1, SequenceIsOnto
  <2>3. \A j \in DOMAIN items : items[j].material = m <=> j = k
    BY <1>6, <1>7, <1>8, <2>1, <2>2
  <2>4. Lists(order, m) = {k} BY <1>10, <2>2, <2>3 DEF Lists
  <2> QED BY <1>9, <1>10, <1>11, <2>2, <2>4 DEF ListsOnce
<1>12. CASE m \notin got[s]
  <2>1. \A j \in DOMAIN items : items[j].material # m BY <1>6, <1>8, <1>12
  <2>2. Lists(order, m) = {} BY <1>10, <2>1 DEF Lists
  <2> QED BY <1>9, <1>12, <2>2
<1> QED BY <1>11, <1>12

(* One order for each supplier whose lines were read, and no other.        *)
LEMMA NewOrdersAre ==
  ASSUME NEW got, Gotten(got)
  PROVE  /\ \A i \in DOMAIN NewOrders(got) :
              \E s \in DOMAIN got : NewOrders(got)[i] = OrderOf(got, s)
         /\ \A s \in DOMAIN got : \E i \in DOMAIN NewOrders(got) :
              NewOrders(got)[i] = OrderOf(got, s)
         /\ \A i, j \in DOMAIN NewOrders(got) : NewOrders(got)[i] = NewOrders(got)[j] => i = j
<1>1. PICK rows : rows = {OrderOf(got, s) : s \in DOMAIN got} OBVIOUS
<1>2. NewOrders(got) = SetToSeq(rows) BY <1>1 DEF NewOrders, OrderOf
<1>3. IsFiniteSet(DOMAIN got) BY AnswersAssumption, FS_Subset DEF Gotten
<1>4. [s \in DOMAIN got |-> OrderOf(got, s)] \in Surjection(DOMAIN got, rows)
  BY <1>1 DEF Surjection
<1>5. IsFiniteSet(rows) BY <1>3, <1>4, FS_Surjection
<1>6. \A i \in DOMAIN SetToSeq(rows) : SetToSeq(rows)[i] \in rows
  <2>1. SetToSeq(rows) \in Seq(rows) BY <1>5, SequenceOfSet
  <2> QED BY <2>1
<1>7. \A x \in rows : \E i \in DOMAIN SetToSeq(rows) : SetToSeq(rows)[i] = x
  BY <1>5, SequenceIsOnto
<1>8. \A i, j \in DOMAIN SetToSeq(rows) : SetToSeq(rows)[i] = SetToSeq(rows)[j] => i = j
  BY <1>5, SequenceOfSet
<1>9. PICK all : all = NewOrders(got) OBVIOUS
<1>10. \A i \in DOMAIN all : \E s \in DOMAIN got : all[i] = OrderOf(got, s)
  BY <1>1, <1>2, <1>6, <1>9
<1>11. \A s \in DOMAIN got : \E i \in DOMAIN all : all[i] = OrderOf(got, s)
  BY <1>1, <1>2, <1>7, <1>9
<1>12. \A i, j \in DOMAIN all : all[i] = all[j] => i = j
  BY <1>2, <1>8, <1>9
<1> QED BY <1>9, <1>10, <1>11, <1>12

(* While it is alone, what a creation read is so, and what it has left to  *)
(* read and what it has gathered are the suppliers it is to order from.    *)
InConflict == {s \in listed : Conflicting(s) # {}}
Covering(t) == t.kind = "create" =>
  /\ "answer" \in DOMAIN t /\ t.answer \in Answers
  /\ \A s \in InConflict : t.answer[s] # "none"
  /\ \A s \in InConflict : t.answer[s] = "replace" => Conflicting(s) \subseteq t.victims
  /\ \A s \in ToOrder(listed, t.answer) : LinesOf(s) = {} \/ s \in t.todo \cup DOMAIN t.got
  /\ \A s \in DOMAIN t.got : t.got[s] = LinesOf(s)

CoverInv ==
  /\ requests \in Nat
  /\ \A w \in Workers : tx[w] # NULL /\ tx[w].alone => Covering(tx[w])

LEMMA CoveringKept ==
  ASSUME NEW t, Covering(t), UNCHANGED <<lines, listed, orders>>
  PROVE  Covering(t)'
BY DEF Covering, InConflict, Conflicting, DraftsOf, LiveOrders, LinesOf, ToOrder,
       FullyDeclined, HasConfirmed, Items

LEMMA CoverGoes ==
  ASSUME OrdersInv, AloneInv, CoverInv, NEW w \in Workers, tx[w] # NULL, NEW t, Goes(w, t),
         t # NULL => t.alone = tx[w].alone /\ (t.alone => Covering(t)')
  PROVE  CoverInv'
<1>1. tx'[w] = t /\ \A v \in Workers : v # w => tx'[v] = tx[v]
  BY DEF Goes, OrdersInv, RequestsOk
<1>2. ASSUME NEW v \in Workers, tx'[v] # NULL, tx'[v].alone PROVE Covering(tx[v])'
  <2>1. v = w BY <1>1, <1>2 DEF AloneInv
  <2>2. Covering(t)' BY <1>1, <1>2, <2>1
  <2> QED BY <1>1, <2>1, <2>2
<1>3. requests' \in Nat BY DEF Goes, CoverInv
<1> QED BY <1>2, <1>3 DEF CoverInv

(* A request of another kind has nothing to cover.                         *)
LEMMA OtherKind ==
  ASSUME OrdersInv, AloneInv, CoverInv, NEW w \in Workers, tx[w] # NULL, tx[w].kind # "create", NEW t,
         Goes(w, t), t # NULL => t.alone = tx[w].alone /\ t.kind = tx[w].kind
  PROVE  CoverInv'
BY CoverGoes DEF Covering

LEMMA CoverOpened ==
  ASSUME OrdersInv, CoverInv, NEW w \in Workers, NEW t, Opened(w, t),
         UNCHANGED <<lines, listed, orders>>, t.alone => Covering(t)
  PROVE  CoverInv'
<1>1. /\ tx'[w] = t
      /\ \A v \in Workers : v # w =>
           tx'[v] = IF v \in Busy THEN [tx[v] EXCEPT !.alone = FALSE] ELSE tx[v]
  BY DEF Opened
<1>2. \A v \in Busy : [tx[v] EXCEPT !.alone = FALSE].alone = FALSE
  <2>1. ASSUME NEW v \in Busy PROVE "alone" \in DOMAIN tx[v]
    BY <2>1 DEF Busy, OrdersInv, RequestsOk, Good, IsDelete, IsCreate, IsReplace, IsConfirm
  <2> QED BY <2>1
<1>3. ASSUME NEW v \in Workers, tx'[v] # NULL, tx'[v].alone PROVE Covering(tx[v])'
  <2>1. v = w BY <1>1, <1>2, <1>3 DEF Busy
  <2>2. Covering(t)' BY <1>1, <1>3, <2>1, CoveringKept
  <2> QED BY <1>1, <2>1, <2>2
<1>4. requests' \in Nat BY DEF Opened, CoverInv
<1> QED BY <1>3, <1>4 DEF CoverInv

LEMMA CoverShort ==
  ASSUME OrdersInv, CoverInv, Short
  PROVE  CoverInv'
<1>1. \A v \in Workers :
        tx'[v] = IF v \in Busy THEN [tx[v] EXCEPT !.alone = FALSE] ELSE NULL
  BY DEF Short
<1>2. \A v \in Busy : [tx[v] EXCEPT !.alone = FALSE].alone = FALSE
  <2>1. ASSUME NEW v \in Busy PROVE "alone" \in DOMAIN tx[v]
    BY <2>1 DEF Busy, OrdersInv, RequestsOk, Good, IsDelete, IsCreate, IsReplace, IsConfirm
  <2> QED BY <2>1
<1>3. requests' \in Nat BY DEF Short, CoverInv
<1> QED BY <1>1, <1>2, <1>3 DEF CoverInv

LEMMA CoverOpens ==
  ASSUME OrdersInv, CoverInv, NEW w \in Workers,
         OpenDelete(w) \/ OpenCreate(w) \/ OpenReplace(w) \/ OpenConfirm(w)
  PROVE  CoverInv'
<1>1. CASE OpenDelete(w)
  <2>1. PICK o, t : /\ t = [kind |-> "delete", step |-> "unlinking", victims |-> {o},
                            freed |-> <<>>, alone |-> Busy = {}]
                    /\ Opened(w, t) /\ UNCHANGED <<lines, listed, orders, published>>
    BY <1>1 DEF OpenDelete
  <2> QED BY <2>1, CoverOpened DEF Covering
<1>2. CASE OpenCreate(w)
  <2>0. PICK answer \in Answers :
        LET inConflict == {s \in listed : Conflicting(s) # {}}
            victims == UNION {Conflicting(s) : s \in {t \in inConflict : answer[t] = "replace"}}
        IN /\ \A s \in inConflict : answer[s] # "none"
           /\ Opened(w, [kind |-> "create", answer |-> answer, victims |-> victims, freed |-> <<>>,
                         step |-> IF victims = {} THEN "reading" ELSE "unlinking",
                         todo |-> ToOrder(listed, answer),
                         got |-> <<>>, stamped |-> {}, alone |-> Busy = {}])
           /\ UNCHANGED <<lines, listed, orders, published>>
    BY <1>2 DEF OpenCreate
  <2>1. PICK meets, victims, step :
        /\ meets = {s \in listed : Conflicting(s) # {}}
        /\ victims = UNION {Conflicting(s) : s \in {u \in meets : answer[u] = "replace"}}
        /\ step = IF victims = {} THEN "reading" ELSE "unlinking"
    OBVIOUS
  <2>7. PICK t : t = [kind |-> "create", answer |-> answer, victims |-> victims, freed |-> <<>>,
                      step |-> step, todo |-> ToOrder(listed, answer), got |-> <<>>, stamped |-> {},
                      alone |-> Busy = {}]
    OBVIOUS
  <2>8. \A s \in meets : answer[s] # "none"
    BY <2>0, <2>1, Zenon
  <2>9. Opened(w, t) /\ UNCHANGED <<lines, listed, orders, published>>
    BY <2>0, <2>1, <2>7, Zenon
  <2>2. meets = InConflict BY <2>1 DEF InConflict
  <2>3. /\ t.kind = "create" /\ "answer" \in DOMAIN t /\ t.answer = answer /\ t.victims = victims
        /\ t.todo = ToOrder(listed, answer) /\ t.got = <<>>
    BY <2>7
  <2>4. DOMAIN t.got = {} BY <2>3
  <2>5. Covering(t) BY <2>1, <2>2, <2>3, <2>4, <2>8 DEF Covering
  <2> QED BY <2>5, <2>9, CoverOpened
<1>3. CASE OpenReplace(w)
  <2>1. PICK m, s, target, t :
        /\ t = [kind |-> "replace", step |-> "checked", material |-> m, from |-> lines[m],
                to |-> s, target |-> target, seen |-> {}, list |-> {}, alone |-> Busy = {}]
        /\ Opened(w, t) /\ UNCHANGED <<lines, listed, orders, published>>
    BY <1>3 DEF OpenReplace
  <2> QED BY <2>1, CoverOpened DEF Covering
<1>4. CASE OpenConfirm(w)
  <2>1. PICK o, todo, t :
        /\ t = [kind |-> "confirm", step |-> "detecting", order |-> o, row |-> 0,
                todo |-> todo, alone |-> Busy = {}]
        /\ Opened(w, t) /\ UNCHANGED <<lines, listed, orders, published>>
    BY <1>4 DEF OpenConfirm
  <2> QED BY <2>1, CoverOpened DEF Covering
<1> QED BY <1>1, <1>2, <1>3, <1>4

(* A statement of a creation or a deletion that gathers nothing.           *)
LEMMA CoverDeletes ==
  ASSUME OrdersInv, AloneInv, CoverInv, NEW w \in Workers,
         Unlink(w) \/ RemoveItems(w) \/ RemoveOrders(w)
  PROVE  CoverInv'
<1>1. PICK step, freed, t :
        /\ t = [tx[w] EXCEPT !.step = step, !.freed = freed] \/ t = [tx[w] EXCEPT !.step = step]
        /\ Goes(w, t) /\ UNCHANGED <<lines, listed, orders, published>> /\ tx[w] # NULL
  BY DEF Unlink, RemoveItems, RemoveOrders, At
<1>2. PICK u : u = tx[w] OBVIOUS
<1>3. /\ t.alone = u.alone /\ t.kind = u.kind /\ DOMAIN t = DOMAIN u
      /\ u.kind = "create" => t.todo = u.todo /\ t.got = u.got /\ t.victims = u.victims
      /\ "answer" \in DOMAIN u => t.answer = u.answer
  BY <1>1, <1>2, Field
<1>4. ASSUME t.alone PROVE Covering(t)'
  <2>1. Covering(u) BY <1>1, <1>2, <1>3, <1>4 DEF CoverInv
  <2>2. Covering(t) BY <1>3, <2>1 DEF Covering
  <2> QED BY <1>1, <2>2, CoveringKept
<1> QED BY <1>1, <1>2, <1>3, <1>4, CoverGoes

LEMMA CoverReads ==
  ASSUME OrdersInv, AloneInv, CoverInv, NEW w \in Workers, ReadLines(w)
  PROVE  CoverInv'
<1>1. PICK s, stamped, t :
        /\ s \in tx[w].todo
        /\ t = [tx[w] EXCEPT !.todo = @ \ {s}, !.got = Gathered(@, s), !.stamped = stamped]
        /\ Goes(w, t) /\ UNCHANGED <<lines, listed, orders, published>> /\ tx[w] # NULL
        /\ tx[w].kind = "create"
  BY DEF ReadLines, At
<1>2. PICK u : u = tx[w] OBVIOUS
<1>3. /\ t.alone = u.alone /\ t.kind = "create" /\ DOMAIN t = DOMAIN u /\ t.victims = u.victims
      /\ t.todo = u.todo \ {s} /\ t.got = Gathered(u.got, s)
      /\ "answer" \in DOMAIN u => t.answer = u.answer
  BY <1>1, <1>2, Field
<1>4. ASSUME t.alone PROVE Covering(t)'
  <2>1. Covering(u) BY <1>1, <1>2, <1>3, <1>4 DEF CoverInv
  <2>2. PICK got, more : got = u.got /\ more = Gathered(got, s) OBVIOUS
  <2>3. \A x \in DOMAIN more : x \in DOMAIN got \/ x = s BY <2>2 DEF Gathered
  <2>4. /\ DOMAIN got \subseteq DOMAIN more /\ (LinesOf(s) # {} => s \in DOMAIN more)
        /\ \A x \in DOMAIN more : more[x] = LinesOf(x)
    <3>1. \A x \in DOMAIN got : got[x] = LinesOf(x) BY <1>1, <1>2, <2>1, <2>2 DEF Covering
    <3>2. CASE LinesOf(s) = {} BY <2>2, <3>1, <3>2 DEF Gathered
    <3>3. CASE LinesOf(s) # {}
      <4>1. more = [x \in DOMAIN got \cup {s} |-> IF x = s THEN LinesOf(s) ELSE got[x]]
        BY <2>2, <3>3 DEF Gathered
      <4> QED BY <3>1, <4>1
    <3> QED BY <3>2, <3>3
  <2>5. ASSUME NEW x \in ToOrder(listed, t.answer), LinesOf(x) # {}
        PROVE  x \in (u.todo \ {s}) \cup DOMAIN more
    <3>1. x \in u.todo \cup DOMAIN got BY <1>1, <1>2, <1>3, <2>1, <2>2, <2>5 DEF Covering
    <3> QED BY <2>4, <2>5, <3>1
  <2>8. Covering(t) BY <1>1, <1>2, <1>3, <2>1, <2>2, <2>4, <2>5 DEF Covering
  <2> QED BY <1>1, <2>8, CoveringKept
<1> QED BY <1>1, <1>2, <1>3, <1>4, CoverGoes

LEMMA CoverStep ==
  ASSUME OrdersInv, AloneInv, CoverInv, [Next]_vars
  PROVE  CoverInv'
<1>1. CASE UNCHANGED vars
  <2>1. \A t : Covering(t) => Covering(t)' BY <1>1, CoveringKept DEF vars
  <2> QED BY <1>1, <2>1 DEF vars, CoverInv
<1>2. CASE PatchItem \/ AddRawItem BY <1>2, CoverShort DEF PatchItem, AddRawItem
<1>3. ASSUME NEW w \in Workers,
             FlushOverride(w) \/ RebuildList(w) \/ CommitOverride(w) \/ Detect(w) \/ Publish(w)
      PROVE  CoverInv'
  <2>1. tx[w] # NULL /\ tx[w].kind # "create"
    BY <1>3, Field DEF FlushOverride, RebuildList, CommitOverride, Detect, Publish, At
  <2>2. PICK k, t :
          /\ \/ t = NULL \/ t = [tx[w] EXCEPT !.step = "overridden"]
             \/ t = [tx[w] EXCEPT !.step = "flushed", !.seen = k]
             \/ t = [tx[w] EXCEPT !.step = "rebuilt", !.list = k]
             \/ t = [tx[w] EXCEPT !.step = "publishing", !.row = k]
             \/ t = [tx[w] EXCEPT !.todo = @ \ {k}]
             \/ t = [tx[w] EXCEPT !.step = "detecting", !.row = 0, !.todo = @ \ {k}]
          /\ Goes(w, t)
    BY <1>3 DEF FlushOverride, RebuildList, CommitOverride, Detect, Publish, Ends
  <2>3. t # NULL => t.alone = tx[w].alone /\ t.kind = tx[w].kind BY <2>1, <2>2, Field
  <2> QED BY <2>1, <2>2, <2>3, OtherKind
<1>4. ASSUME NEW w \in Workers, CommitDelete(w) \/ CommitCreate(w) \/ PlaceReplacement(w) \/ Abort(w)
      PROVE  CoverInv'
  BY <1>4, CoverGoes DEF CommitDelete, CommitCreate, PlaceReplacement, Abort, At, Ends
<1>5. ASSUME NEW w \in Workers, OpenDelete(w) \/ OpenCreate(w) \/ OpenReplace(w) \/ OpenConfirm(w)
      PROVE  CoverInv'
  BY <1>5, CoverOpens
<1>6. ASSUME NEW w \in Workers,
             Unlink(w) \/ RemoveItems(w) \/ RemoveOrders(w) \/ ReadLines(w)
      PROVE  CoverInv'
  BY <1>6, CoverDeletes, CoverReads
<1> QED BY <1>1, <1>2, <1>3, <1>4, <1>5, <1>6 DEF Next

(* What a sequence holds after another is appended to it.                  *)
LEMMA Joined ==
  ASSUME NEW X, NEW a \in Seq(X), NEW b \in Seq(X)
  PROVE  /\ \A p \in DOMAIN a : (a \o b)[p] = a[p]
         /\ \A p \in DOMAIN (a \o b) \ DOMAIN a :
              p \in Int /\ p - Len(a) \in DOMAIN b /\ (a \o b)[p] = b[p - Len(a)]
         /\ \A i \in DOMAIN b :
              i \in Int /\ i + Len(a) \in DOMAIN (a \o b) \ DOMAIN a /\ (a \o b)[i + Len(a)] = b[i]
<1>1. PICK c, n : c = a \o b /\ n = Len(a) OBVIOUS
<1>2. /\ n \in Nat /\ Len(b) \in Nat /\ DOMAIN a = 1..n /\ DOMAIN b = 1..Len(b)
      /\ DOMAIN c = 1..(n + Len(b))
  BY <1>1
<1>3. \A p \in DOMAIN a : c[p] = a[p] BY <1>1
<1>4. \A p \in DOMAIN c \ DOMAIN a : p \in Int /\ p - n \in DOMAIN b /\ c[p] = b[p - n] BY <1>1
<1>5. ASSUME NEW i \in DOMAIN b PROVE i \in Int /\ i + n \in DOMAIN c \ DOMAIN a /\ c[i + n] = b[i]
  <2>1. i \in Int /\ i + n \in DOMAIN c \ DOMAIN a /\ (i + n) - n = i BY <1>2
  <2> QED BY <1>4, <2>1
<1> QED BY <1>1, <1>3, <1>4, <1>5

LEMMA CreateCovers ==
  ASSUME OrdersInv, ListInv, CoverInv, NEW w \in Workers, CommitCreate(w), tx[w].alone
  PROVE  LinesPlaced(w) /\ DraftsAnswered(w)
<1>1. PICK t : t = tx[w] OBVIOUS
<1>2. t # NULL /\ t.kind = "create" /\ t.todo = {} /\ Covering(t) /\ IsCreate(t)
  BY <1>1 DEF CommitCreate, At, OrdersInv, RequestsOk, CoverInv, Good, IsReplace, IsConfirm, IsDelete
<1>3. PICK got, more, kept : got = t.got /\ more = NewOrders(got) /\ kept = Without(orders, t.victims)
  OBVIOUS
<1>4. orders' = kept \o more BY <1>1, <1>3 DEF CommitCreate
<1>5. Gotten(got) BY <1>2, <1>3 DEF IsCreate
<1>6. more \in Seq(OrderRow) BY <1>3, <1>5, NewOrdersShown
<1>7. orders \in Seq(OrderRow \cup {NULL}) BY DEF OrdersInv, TablesOk
<1>8. kept = [o \in DOMAIN orders |-> IF o \in t.victims THEN NULL ELSE orders[o]]
  BY <1>3 DEF Without
<1>9. kept \in Seq(OrderRow \cup {NULL}) /\ Len(kept) = Len(orders) BY <1>7, <1>8
<1>10. PICK n : n = Len(orders) OBVIOUS
<1>11. /\ n \in Nat
       /\ \A o \in DOMAIN orders : orders'[o] = kept[o]
       /\ \A p \in DOMAIN orders' \ DOMAIN orders :
            p \in Int /\ p - n \in DOMAIN more /\ orders'[p] = more[p - n]
       /\ \A i \in DOMAIN more :
            i \in Int /\ i + n \in DOMAIN orders' \ DOMAIN orders /\ orders'[i + n] = more[i]
  <2>1. more \in Seq(OrderRow \cup {NULL}) BY <1>6
  <2>2. DOMAIN kept = DOMAIN orders /\ Len(kept) = n /\ n \in Nat BY <1>7, <1>8, <1>9, <1>10
  <2>3. /\ \A p \in DOMAIN kept : (kept \o more)[p] = kept[p]
        /\ \A p \in DOMAIN (kept \o more) \ DOMAIN kept :
             /\ p \in Int /\ p - Len(kept) \in DOMAIN more
             /\ (kept \o more)[p] = more[p - Len(kept)]
        /\ \A i \in DOMAIN more :
             /\ i \in Int /\ i + Len(kept) \in DOMAIN (kept \o more) \ DOMAIN kept
             /\ (kept \o more)[i + Len(kept)] = more[i]
    BY <1>9, <2>1, Joined
  <2> QED BY <1>4, <2>2, <2>3
<1>12. \A s \in ToOrder(listed, t.answer) : LinesOf(s) = {} \/ s \in DOMAIN got
  BY <1>2, <1>3 DEF Covering
<1>13. PICK new : new = DOMAIN orders' \ DOMAIN orders OBVIOUS
<1>14. ASSUME NEW p \in new
       PROVE  \E s \in DOMAIN got : /\ orders'[p] = OrderOf(got, s) /\ got[s] = LinesOf(s)
                                    /\ orders'[p].supplier = s
  <2>1. p - n \in DOMAIN more /\ orders'[p] = more[p - n] BY <1>11, <1>13, <1>14
  <2>2. PICK s \in DOMAIN got : more[p - n] = OrderOf(got, s)
    BY <1>3, <1>5, <2>1, NewOrdersAre
  <2>3. OrderOf(got, s).supplier = s BY DEF OrderOf
  <2> QED BY <1>2, <1>3, <2>1, <2>2, <2>3 DEF Covering
<1>15. ASSUME NEW p \in new, NEW m \in Materials, orders'[p].supplier # lines[m]
       PROVE  Lists(orders'[p], m) = {}
  <2>1. PICK s \in DOMAIN got : /\ orders'[p] = OrderOf(got, s) /\ got[s] = LinesOf(s)
                                /\ orders'[p].supplier = s
    BY <1>14, <1>15
  <2>2. m \notin got[s] BY <1>15, <2>1 DEF LinesOf
  <2> QED BY <1>5, <2>1, <2>2, OrderLists
<1>16. ASSUME NEW p \in new, NEW q \in new, orders'[p].supplier = orders'[q].supplier
       PROVE  p = q
  <2>1. PICK i, j : i = p - n /\ j = q - n OBVIOUS
  <2>2. i \in DOMAIN more /\ j \in DOMAIN more /\ orders'[p] = more[i] /\ orders'[q] = more[j]
    BY <1>11, <1>13, <1>16, <2>1
  <2>3. orders'[p] = orders'[q] BY <1>14, <1>16
  <2>4. \A x, y \in DOMAIN more : more[x] = more[y] => x = y BY <1>3, <1>5, NewOrdersAre
  <2>5. i = j BY <2>2, <2>3, <2>4
  <2>6. p \in Int /\ q \in Int BY <1>11, <1>13, <1>16
  <2> QED BY <1>11, <2>1, <2>5, <2>6
<1>17. ASSUME NEW m \in Materials
       PROVE \/ \E o \in new : /\ orders'[o].supplier = lines[m]
                               /\ \E k \in DOMAIN orders'[o].items : Lists(orders'[o], m) = {k}
                               /\ \A p \in new \ {o} : Lists(orders'[p], m) = {}
             \/ /\ \A p \in new : Lists(orders'[p], m) = {}
                /\ \/ t.answer[lines[m]] = "skip" /\ Conflicting(lines[m]) # {}
                   \/ raced /\ lines[m] \notin listed
  <2>1. PICK s : s = lines[m] OBVIOUS
  <2>2. s \in Suppliers /\ m \in LinesOf(s) BY <1>17, <2>1 DEF OrdersInv, TablesOk, LinesOf
  <2>4. CASE s \in DOMAIN got
    <3>1. PICK i \in DOMAIN more : more[i] = OrderOf(got, s)
      BY <1>3, <1>5, <2>4, NewOrdersAre
    <3>2. PICK o : o = i + n OBVIOUS
    <3>3. o \in new /\ orders'[o] = OrderOf(got, s) BY <1>11, <1>13, <3>1, <3>2
    <3>4. orders'[o].supplier = s BY <3>3 DEF OrderOf
    <3>5. m \in got[s] BY <1>2, <1>3, <2>2, <2>4 DEF Covering
    <3>6. ListsOnce(orders'[o], m) BY <1>5, <2>4, <3>3, <3>5, OrderLists
    <3>7. \A p \in new \ {o} : orders'[p].supplier # lines[m] BY <1>16, <2>1, <3>3, <3>4
    <3>8. \A p \in new \ {o} : Lists(orders'[p], m) = {} BY <1>15, <3>7
    <3> QED BY <2>1, <3>3, <3>4, <3>6, <3>8 DEF ListsOnce
  <2>5. CASE s \notin DOMAIN got
    <3>1. \/ t.answer[s] = "skip" /\ Conflicting(s) # {}
          \/ raced /\ s \notin listed
      BY <1>12, <2>2, <2>5 DEF ToOrder, ListInv
    <3>2. \A p \in new : orders'[p].supplier # s BY <1>14, <2>5
    <3>3. \A p \in new : Lists(orders'[p], m) = {} BY <1>15, <2>1, <3>2
    <3> QED BY <2>1, <3>1, <3>3
  <2> QED BY <2>4, <2>5
<1>18. ASSUME NEW o \in DOMAIN orders, orders'[o] # NULL, o \in Conflicting(orders[o].supplier),
              orders[o].supplier \in listed
       PROVE  t.answer[orders[o].supplier] \in {"add", "skip"}
  <2>1. PICK s : s = orders[o].supplier OBVIOUS
  <2>2. o \in LiveOrders BY <1>18 DEF Conflicting, DraftsOf
  <2>3. s \in Suppliers BY <2>1, <2>2, LiveRow DEF OrdersInv, OrderRow
  <2>4. s \in InConflict BY <1>18, <2>1 DEF InConflict
  <2>5. o \notin t.victims BY <1>8, <1>11, <1>18
  <2>6. t.answer[s] # "none" /\ t.answer[s] # "replace"
    BY <1>2, <1>18, <2>1, <2>4, <2>5 DEF Covering
  <2>7. t.answer[s] \in {"none", "replace", "add", "skip"}
    BY <1>2, <2>3, AnswersAssumption DEF Covering
  <2> QED BY <2>1, <2>6, <2>7
<1>19. LinesPlaced(w) BY <1>1, <1>13, <1>17, Zenon DEF LinesPlaced
<1>20. DraftsAnswered(w) BY <1>1, <1>18, Zenon DEF DraftsAnswered
<1> QED BY <1>19, <1>20

(* A creation of orders that no other request overlaps, although it walks  *)
(* the stored summaries and not the lines, leaves no line of the plan      *)
(* unordered or ordered twice, but one whose supplier it was told to skip  *)
(* or whose summary was lost, which takes two overrides that held the list *)
(* at once; and it keeps a conflicting draft only where it was told to.    *)
THEOREM CoverCorrect == Spec => LoneCreateCoversPlan
<1>1. Init => AloneInv /\ CoverInv BY DEF Init, AloneInv, CoverInv
<1>2. ASSUME OrdersInv, AloneInv, [Next]_vars PROVE AloneInv' BY <1>2, AloneStep
<1>3. ASSUME OrdersInv, AloneInv, CoverInv, [Next]_vars PROVE CoverInv' BY <1>3, CoverStep
<1>4. ASSUME OrdersInv, AloneInv, ListInv, CoverInv, [Next]_vars, NEW w \in Workers,
             At(w, "reading"), tx[w].alone, requests' = requests, orders' # orders
      PROVE  LinesPlaced(w) /\ DraftsAnswered(w)
  <2>1. requests + 1 # requests BY <1>4 DEF CoverInv
  <2>2. PICK v \in Workers :
          CommitDelete(v) \/ CommitCreate(v) \/ PlaceReplacement(v) \/ Publish(v)
    <3>1. ~UNCHANGED vars
      BY <1>4 DEF vars
    <3>2. ASSUME PatchItem \/ AddRawItem PROVE FALSE
      BY <1>4, <2>1, <3>2 DEF PatchItem, AddRawItem, Short
    <3>3. ASSUME NEW v \in Workers,
                 OpenDelete(v) \/ OpenCreate(v) \/ OpenReplace(v) \/ OpenConfirm(v)
          PROVE  FALSE
      BY <1>4, <3>3 DEF OpenDelete, OpenCreate, OpenReplace, OpenConfirm
    <3>4. ASSUME NEW v \in Workers, Unlink(v) \/ RemoveItems(v) \/ RemoveOrders(v) \/ ReadLines(v)
          PROVE  FALSE
      BY <1>4, <3>4 DEF Unlink, RemoveItems, RemoveOrders, ReadLines
    <3>5. ASSUME NEW v \in Workers,
                 FlushOverride(v) \/ RebuildList(v) \/ CommitOverride(v) \/ Detect(v) \/ Abort(v)
          PROVE  FALSE
      BY <1>4, <3>5 DEF FlushOverride, RebuildList, CommitOverride, Detect, Abort
    <3> QED BY <1>4, <3>1, <3>2, <3>3, <3>4, <3>5 DEF Next
  <2>3. tx[v] # NULL BY <2>2 DEF CommitDelete, CommitCreate, PlaceReplacement, Publish, At
  <2>4. v = w BY <1>4, <2>3 DEF AloneInv, At
  <2>5. CommitCreate(w) BY <1>4, <2>2, <2>4 DEF CommitDelete, PlaceReplacement, Publish, At
  <2> QED BY <1>4, <2>5, CreateCovers
<1>5. OrdersInv /\ AloneInv /\ ListInv /\ CoverInv /\ [Next]_vars =>
        (\A w \in Workers :
           At(w, "reading") /\ tx[w].alone /\ requests' = requests /\ orders' # orders =>
             LinesPlaced(w) /\ DraftsAnswered(w))
  BY <1>4
<1> QED
  BY OrdersInvHolds, ListInvHolds, <1>1, <1>2, <1>3, <1>5, PTL
     DEF Spec, LoneCreateCoversPlan
=============================================================================
