--------------------------- MODULE ReferenceData ---------------------------
(***************************************************************************)
(* The reference data of the service: categories, materials and their SKU  *)
(* numbers, suppliers with offices and contacts, project templates and     *)
(* purchase records (app/api/{category,material,supplier,template,         *)
(* purchase_record}.py with their services).  The handlers are small; what *)
(* is hard is what two of them do to each other through the foreign keys   *)
(* that tie the tables together.  So a row is its foreign-key columns, a   *)
(* request reads first (Open) and writes last (Commit), and the rules of   *)
(* the foreign keys are one table: what SQLAlchemy does to the child rows  *)
(* of a row it deletes, and what PostgreSQL does to those that are left.   *)
(*                                                                         *)
(* Rows of other components that refer to a material or a supplier (price, *)
(* alias, price-list entry) are inserted here with their keys only; names, *)
(* unique names, embeddings, display order, totals and every other column  *)
(* that no key depends on are left out.                                    *)
(***************************************************************************)
EXTENDS Naturals, FiniteSets

CONSTANTS Row,          \* row identities, each in the table TableOf names
          TableOf,
          Seed,         \* the rows there at the start, with their columns
          PrefixOf,     \* the sku_prefix a category is given; it never changes
          Worker,       \* requests served at the same time
          PolicyKey,    \* the keys of a delivery policy
          NULL, GONE,
          MaxRequests   \* bound: requests opened in a behaviour

VARIABLES db,       \* [Row -> NULL (not yet), a function of columns, or GONE]
          number,   \* [Row -> NULL or the <<category, n>> a material's SKU came from]
          counter,  \* Category.next_sku_number
          policy,   \* Supplier.delivery_policy
          tx,       \* [Worker -> NULL or the open request]
          requests

vars == <<db, number, counter, policy, tx, requests>>

-----------------------------------------------------------------------------
(* The foreign keys                                                          *)

(* orm: what deleting the parent through the session does to the children it *)
(* finds: "nulls" the column (a relationship), "deletes" them (delete-orphan),*)
(* or "none" (no relationship).  onDelete: the database's rule for the rest.  *)
Key(from, column, to, nullable, orm, onDelete) ==
  [from |-> from, column |-> column, to |-> to,
   nullable |-> nullable, orm |-> orm, onDelete |-> onDelete]

PassiveDeletes == "none"  (* faulty: the cascade is left to the database *)

(* Material.aliases and Supplier.aliases are plain relationships.            *)
AliasesOnDelete == "nulls"

ForeignKeys ==
  {Key("material", "category", "category", FALSE, "nulls", "restrict"),
   Key("price", "material", "material", FALSE, "nulls", "restrict"),
   Key("price", "supplier", "supplier", FALSE, "nulls", "restrict"),
   Key("alias", "material", "material", FALSE, AliasesOnDelete, "cascade"),
   Key("alias", "supplier", "supplier", FALSE, AliasesOnDelete, "cascade"),
   Key("entry", "material", "material", TRUE, "nulls", "restrict"),
   Key("purchase", "material", "material", TRUE, "none", "restrict"),
   Key("purchase", "supplier", "supplier", FALSE, "none", "restrict"),
   Key("item", "material", "material", FALSE, "none", "cascade"),
   Key("item", "template", "template", FALSE, "deletes", "cascade"),
   Key("office", "supplier", "supplier", FALSE, "nulls", "restrict"),
   Key("contact", "supplier", "supplier", FALSE, "nulls", "restrict"),
   Key("contact", "office", "office", TRUE, "nulls", "set_null")}

KeysOf(table) == {k \in ForeignKeys : k.from = table}
Columns(table) == {k.column : k \in KeysOf(table)}
Rows(table) == {r \in Row : TableOf[r] = table}
Live(r) == db[r] # NULL /\ db[r] # GONE

(* The values a request may give the columns of a row: ids of rows that are  *)
(* there or were.                                                            *)
Known(table) == {r \in Rows(table) : db[r] # NULL}

Values(table) ==
  {v \in [Columns(table) -> UNION {Known(k.to) : k \in KeysOf(table)} \union {NULL}] :
     \A k \in KeysOf(table) :
        v[k.column] \in Known(k.to) \union (IF k.nullable THEN {NULL} ELSE {})}

(* The contents a row of a table can have.                                   *)
Record(table) == [Columns(table) -> Row \union {NULL}]

ASSUME ReferenceAssumption ==
  /\ NULL # GONE /\ NULL \notin Row
  /\ \A r \in Row : NULL \notin Record(TableOf[r]) /\ GONE \notin Record(TableOf[r])
  /\ DOMAIN Seed \subseteq Row
  /\ \A r \in DOMAIN Seed : Seed[r] \in Record(TableOf[r]) /\ TableOf[r] # "contact"
  /\ \A c, d \in DOMAIN Seed \cap Rows("category") : PrefixOf[c] = PrefixOf[d] => c = d

(* PostgreSQL admits a row only while every row it names is there.           *)
Admitted(v) == \A c \in DOMAIN v : v[c] # NULL => Live(v[c])

(* The rows that refer to r, each with the key it does so by.                *)
Children(r) ==
  UNION {{<<c, k>> : c \in {x \in Rows(k.from) : Live(x) /\ db[x][k.column] = r}} :
           k \in {f \in ForeignKeys : f.to = TableOf[r]}}

-----------------------------------------------------------------------------
Init ==
  /\ db = [r \in Row |-> IF r \in DOMAIN Seed THEN Seed[r] ELSE NULL]
  /\ number = [r \in Row |-> NULL]
  /\ counter = [c \in Rows("category") |-> 1]
  /\ policy = [s \in Rows("supplier") |-> [k \in PolicyKey |-> 0]]
  /\ tx = [w \in Worker |-> NULL]
  /\ requests = 0

MayBegin(w) == tx[w] = NULL /\ requests < MaxRequests

Begin(w, request) ==
  /\ tx' = [tx EXCEPT ![w] = request]
  /\ requests' = requests + 1

Busy(op) == {w \in Worker : tx[w] # NULL /\ tx[w].op = op}

(* A new row gets a fresh id, so no two requests insert the same one.        *)
Fresh(r) == db[r] = NULL /\ \A w \in Busy("insert") : tx[w].row # r

-----------------------------------------------------------------------------
(* Insertions                                                                *)

OfficeExists(office, supplier) == office # NULL => Live(office)  (* faulty *)

(* A contact's office must be one of its supplier's.                         *)
OfficeFits(office, supplier) ==
  office # NULL => Live(office) /\ db[office]["supplier"] = supplier

(* Each handler checks what it looks up (404 or 422 otherwise), then adds a  *)
(* row of the columns given.                                                 *)
OpenInsert(w, r, v) ==
  /\ Fresh(r)
  /\ Begin(w, [op |-> "insert", row |-> r, values |-> v, number |-> NULL])
  /\ UNCHANGED <<db, number, counter, policy>>

CreateCategory(w, r) == TableOf[r] = "category" /\ OpenInsert(w, r, <<>>)
CreateSupplier(w, r) == TableOf[r] = "supplier" /\ OpenInsert(w, r, <<>>)
CreateTemplate(w, r) == TableOf[r] = "template" /\ OpenInsert(w, r, <<>>)

AddTemplateItem(w, r) ==
  /\ TableOf[r] = "item"
  /\ \E v \in Values("item") : Admitted(v) /\ OpenInsert(w, r, v)

CreateOffice(w, r) ==
  /\ TableOf[r] = "office"
  /\ \E v \in Values("office") : Live(v["supplier"]) /\ OpenInsert(w, r, v)

CreateContact(w, r) ==
  /\ TableOf[r] = "contact"
  /\ \E v \in Values("contact") :
       Live(v["supplier"]) /\ OfficeFits(v["office"], v["supplier"]) /\ OpenInsert(w, r, v)

(* Neither the supplier nor the material of a record is looked up.           *)
CreatePurchase(w, r) ==
  TableOf[r] = "purchase" /\ \E v \in Values("purchase") : OpenInsert(w, r, v)

(* Prices, aliases and entries come from the other components.               *)
InsertElsewhere(w, r) ==
  /\ TableOf[r] \in {"price", "alias", "entry"}
  /\ \E v \in Values(TableOf[r]) : OpenInsert(w, r, v)

(* The rows of categories whose counter an open request has incremented.     *)
Locked == {tx[w].number[1] : w \in {v \in Busy("insert") : tx[v].number # NULL}}

CountUnlocked(c) == TRUE  (* faulty: SELECT, then UPDATE *)

(* A creation waits for the lock of the category's row.                      *)
MayCount(c) == c \notin Locked

(* create_material: UPDATE ... RETURNING takes the number under the row lock, *)
(* held while the name is embedded and until the commit or rollback.          *)
CreateMaterial(w, r) ==
  /\ Fresh(r) /\ TableOf[r] = "material"
  /\ \E c \in Rows("category") :
       /\ Live(c) /\ MayCount(c)
       /\ Begin(w, [op |-> "insert", row |-> r, values |-> [column \in {"category"} |-> c],
                    number |-> <<c, counter[c]>>])
  /\ UNCHANGED <<db, number, counter, policy>>

(* internal_sku is the category's prefix with the number, and outlives the    *)
(* category: deleting it frees the prefix, and the next category to take it   *)
(* counts from 1 again.                                                       *)
Sku(n) == <<PrefixOf[n[1]], n[2]>>

Taken(n) ==
  \E r \in Rows("material") : Live(r) /\ number[r] # NULL /\ Sku(number[r]) = Sku(n)

PrefixInUse(c) == \E d \in Rows("category") : Live(d) /\ PrefixOf[d] = PrefixOf[c]

(* What the unique columns and the foreign keys refuse.                       *)
Refused(t) ==
  \/ ~Admitted(t.values)
  \/ t.number # NULL /\ Taken(t.number)
  \/ TableOf[t.row] = "category" /\ PrefixInUse(t.row)

Counted(n) == IF n = NULL THEN counter ELSE [counter EXCEPT ![n[1]] = n[2] + 1]

(* The commit, or the IntegrityError that undoes the whole request.          *)
CommitInsert(w) ==
  /\ w \in Busy("insert")
  /\ LET t == tx[w] IN
     \/ /\ ~Refused(t)
        /\ db' = [db EXCEPT ![t.row] = t.values]
        /\ number' = [number EXCEPT ![t.row] = t.number]
        /\ counter' = Counted(t.number)
     \/ Refused(t) /\ UNCHANGED <<db, number, counter>>
  /\ tx' = [tx EXCEPT ![w] = NULL]
  /\ UNCHANGED <<policy, requests>>

-----------------------------------------------------------------------------
(* Updates                                                                   *)

OpenUpdate(w, r, v) ==
  /\ v # db[r]
  /\ Begin(w, [op |-> "update", row |-> r, values |-> v,
               columns |-> {c \in DOMAIN v : v[c] # db[r][c]}])
  /\ UNCHANGED <<db, number, counter, policy>>

(* A material is reclassified without a new number.                          *)
UpdateMaterial(w, r) ==
  TableOf[r] = "material" /\ Live(r) /\ \E v \in Values("material") : OpenUpdate(w, r, v)

(* A contact keeps its supplier; an office it is given is checked again.     *)
UpdateContact(w, r) ==
  /\ TableOf[r] = "contact" /\ Live(r)
  /\ \E v \in Values("contact") :
       /\ v["supplier"] = db[r]["supplier"] /\ OfficeFits(v["office"], v["supplier"])
       /\ OpenUpdate(w, r, v)

UpdatePurchase(w, r) ==
  TableOf[r] = "purchase" /\ Live(r) /\ \E v \in Values("purchase") : OpenUpdate(w, r, v)

(* Only the columns that changed are written; a row deleted meanwhile or a   *)
(* key that leads nowhere fails the request.                                 *)
CommitUpdate(w) ==
  /\ w \in Busy("update")
  /\ LET t == tx[w]
         written == [c \in t.columns |-> t.values[c]]
     IN \/ /\ Live(t.row) /\ Admitted(written)
           /\ db' = [db EXCEPT ![t.row] =
                       [c \in DOMAIN @ |-> IF c \in t.columns THEN t.values[c] ELSE @[c]]]
        \/ /\ ~Live(t.row) \/ ~Admitted(written)
           /\ UNCHANGED db
  /\ tx' = [tx EXCEPT ![w] = NULL]
  /\ UNCHANGED <<number, counter, policy, requests>>

Replaced(read, k, x) == [j \in PolicyKey |-> IF j = k THEN x ELSE 0]  (* faulty *)

(* update_supplier merges the keys it is given into the policy it read.      *)
Merged(read, k, x) == [read EXCEPT ![k] = x]

OpenPolicy(w, s) ==
  /\ TableOf[s] = "supplier" /\ Live(s)
  /\ \E k \in PolicyKey, x \in 0..1 :
       /\ x # policy[s][k]
       /\ Begin(w, [op |-> "policy", row |-> s, key |-> k,
                    read |-> policy[s], write |-> Merged(policy[s], k, x)])
  /\ UNCHANGED <<db, number, counter, policy>>

CommitPolicy(w) ==
  /\ w \in Busy("policy")
  /\ policy' = IF Live(tx[w].row) THEN [policy EXCEPT ![tx[w].row] = tx[w].write] ELSE policy
  /\ tx' = [tx EXCEPT ![w] = NULL]
  /\ UNCHANGED <<db, number, counter, requests>>

-----------------------------------------------------------------------------
(* Deletions                                                                 *)

(* The session loads the children of the row's relationships.  One whose     *)
(* column may not be NULL fails the flush.                                   *)
OpenDelete(w, r) ==
  /\ Live(r)
  /\ \A ck \in Children(r) : ck[2].orm = "nulls" => ck[2].nullable
  /\ Begin(w, [op |-> "delete", row |-> r, loaded |-> {ck \in Children(r) : ck[2].orm # "none"},
               seen |-> {c \in Row : Live(c)}])
  /\ UNCHANGED <<db, number, counter, policy>>

(* A category's materials are counted first, to the same effect.             *)
DeleteCategory(w, r) == TableOf[r] = "category" /\ OpenDelete(w, r)
DeleteMaterial(w, r) == TableOf[r] = "material" /\ OpenDelete(w, r)
DeleteSupplier(w, r) == TableOf[r] = "supplier" /\ OpenDelete(w, r)
DeleteOffice(w, r)   == TableOf[r] = "office" /\ OpenDelete(w, r)
DeleteContact(w, r)  == TableOf[r] = "contact" /\ OpenDelete(w, r)
DeleteTemplate(w, r) == TableOf[r] = "template" /\ OpenDelete(w, r)
RemoveTemplateItem(w, r) == TableOf[r] = "item" /\ OpenDelete(w, r)
DeletePurchase(w, r) == TableOf[r] = "purchase" /\ OpenDelete(w, r)

(* The UPDATEs and DELETEs of the flush, then the database's own rules for   *)
(* what refers to the row by now: a row that may not be cascaded refuses.    *)
(* An UPDATE that finds its row gone fails, a DELETE only warns; that of a    *)
(* category waits for the creations that hold its row.                       *)
CommitDelete(w) ==
  /\ w \in Busy("delete") /\ tx[w].row \notin Locked
  /\ LET t == tx[w]
         nulled == {ck \in t.loaded : ck[2].orm = "nulls"}
         left == Children(t.row) \ t.loaded
         dropped == {t.row} \union {ck[1] : ck \in t.loaded \ nulled}
                    \union {ck[1] : ck \in {l \in left : l[2].onDelete = "cascade"}}
         freed == nulled \union {l \in left : l[2].onDelete = "set_null"}
         refused == \/ \E ck \in nulled : ~Live(ck[1])
                    \/ \E l \in left : l[2].onDelete = "restrict"
     IN \/ /\ ~refused
           /\ db' = [r \in Row |->
                IF r \in dropped THEN GONE
                ELSE IF ~Live(r) THEN db[r]
                ELSE [c \in DOMAIN db[r] |->
                        IF \E ck \in freed : ck[1] = r /\ ck[2].column = c
                        THEN NULL ELSE db[r][c]]]
        \/ refused /\ UNCHANGED db
  /\ tx' = [tx EXCEPT ![w] = NULL]
  /\ UNCHANGED <<number, counter, policy, requests>>

(* get_db closes the session of a request that dies: everything is undone.   *)
Abort(w) ==
  /\ tx[w] # NULL
  /\ tx' = [tx EXCEPT ![w] = NULL]
  /\ UNCHANGED <<db, number, counter, policy, requests>>

Next ==
  \E w \in Worker :
    \/ /\ MayBegin(w)
       /\ \E r \in Row :
            \/ CreateCategory(w, r) \/ CreateSupplier(w, r) \/ CreateTemplate(w, r)
            \/ AddTemplateItem(w, r) \/ CreateOffice(w, r) \/ CreateContact(w, r)
            \/ CreatePurchase(w, r) \/ InsertElsewhere(w, r) \/ CreateMaterial(w, r)
            \/ UpdateMaterial(w, r) \/ UpdateContact(w, r) \/ UpdatePurchase(w, r)
            \/ OpenPolicy(w, r)
            \/ DeleteCategory(w, r) \/ DeleteMaterial(w, r) \/ DeleteSupplier(w, r)
            \/ DeleteOffice(w, r) \/ DeleteContact(w, r) \/ DeleteTemplate(w, r)
            \/ RemoveTemplateItem(w, r) \/ DeletePurchase(w, r)
    \/ CommitInsert(w) \/ CommitUpdate(w) \/ CommitPolicy(w) \/ CommitDelete(w)
    \/ Abort(w)

Spec == Init /\ [][Next]_vars

-----------------------------------------------------------------------------
(* A contact's office, once it has one, is an office of the contact's own    *)
(* supplier, through creations, moves and deletions in any order             *)
(* (supplier_directory/service.py: supplier_id is kept twice, ADR-0010).     *)
ContactOfficeIsOwn ==
  \A k \in Rows("contact") : Live(k) =>
    LET o == db[k]["office"] IN
    o # NULL => Live(o) /\ db[o]["supplier"] = db[k]["supplier"]

(* Two materials, created or being created, are given one SKU only if the    *)
(* category that numbered one of them is gone: it was emptied by             *)
(* reclassification and deleted, and another took its prefix.  So the 409 of *)
(* create_material for a SKU already taken comes of a reused prefix alone,   *)
(* never of two creations at once (services/material_sku.py).  Of the        *)
(* materials that are there no two share a SKU, and no number is ahead of    *)
(* the counter it came from.                                                 *)
ClashOnlyOnReusedPrefix ==
  LET held == {<<r, number[r]>> : r \in {x \in Rows("material") : number[x] # NULL}}
      coming == {<<tx[w].row, tx[w].number>> : w \in {v \in Busy("insert") : tx[v].number # NULL}}
  IN /\ \A a, b \in held \union coming :
          Sku(a[2]) = Sku(b[2]) /\ Live(a[2][1]) /\ Live(b[2][1]) => a = b
     /\ \A a, b \in held :
          Sku(a[2]) = Sku(b[2]) /\ Live(a[1]) /\ Live(b[1]) => a = b
     /\ \A a \in held : a[2][2] < counter[a[2][1]]

(* A deletion ends its own row and rows of templates only.  An alias goes    *)
(* with it only if it was created after the request had looked: the          *)
(* database's cascade then removes what the handler would have refused for.  *)
(* Prices, price-list entries, offices and purchase records never go.        *)
DeletionSparesHistory ==
  [][\A w \in Busy("delete"), r \in Row :
       (tx'[w] = NULL /\ Live(r) /\ db'[r] = GONE) =>
         \/ r = tx[w].row
         \/ TableOf[r] = "item"
         \/ TableOf[r] = "alias" /\ r \notin tx[w].seen]_vars

(* A partial update of a delivery policy leaves the keys it was not given as *)
(* they were, unless another update of that policy has come between its read *)
(* and its commit (update_supplier).                                         *)
PartialPolicyKeepsTheRest ==
  [][\A w \in Busy("policy") :
       LET s == tx[w].row IN
       (tx'[w] = NULL /\ policy'[s] # policy[s] /\ policy[s] = tx[w].read) =>
         \A k \in PolicyKey \ {tx[w].key} : policy'[s][k] = policy[s][k]]_vars
=============================================================================
