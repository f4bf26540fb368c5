----------------------------- MODULE CatalogSync -----------------------------
(***************************************************************************)
(* Synchronisation of the catalogue with a price matrix: the sheet is      *)
(* parsed, each of its rows finds its material by normalised name or makes *)
(* a new one, and each recognised supplier column updates, closes or       *)
(* creates the pair's active price.  All of it is one transaction, while   *)
(* administrators go on changing prices and adding materials.  The dry run *)
(* is a computation of its own in the script, and one here: DryRun.        *)
(* The session does not flush by itself (autoflush=False), so a closure    *)
(* stays in memory until the next explicit flush or the commit.            *)
(* Sources: app/scripts/sync_catalog_from_file.py and xlsx_price_matrix.py,*)
(* app/services/material_sku.py, version_price of app/api/price.py.        *)
(***************************************************************************)
EXTENDS Integers, SequencesExt

CONSTANTS
  Columns,    (* supplier names found in the header row and recognised     *)
  Texts,      (* descriptions, group texts and names of materials          *)
  NameOf(_),  (* _normalize_name of a description                          *)
  Sheets,     (* sheets, each a sequence of rows below the header          *)
  Bases,      (* states of the catalogue before the synchronisation        *)
  Quotes,     (* prices others may set meanwhile                           *)
  CAT,        (* the category; any other group text resolves to none       *)
  NULL,       (* blank, none                                               *)
  BAD,        (* a cell no price can be read from                          *)
  MaxOutside  (* bound: commits of others in one history                   *)

SheetRow == [desc : Texts \cup {NULL}, group : Texts \cup {NULL}, divider : BOOLEAN,
             cells : [Columns -> Nat \cup {NULL, BAD}]]

(* A row of table prices: by tells which commit of others has written it,  *)
(* 0 none of them.                                                         *)
PriceRow  == [price : Nat, by : Nat]
Catalogue == [mats : Seq([name : Texts, number : Nat]), active : Seq([Columns -> PriceRow \cup {NULL}]),
              next : Nat, known : SUBSET Columns]

(* version_price at work on a column; read: it has read the active price.  *)
Write == [column : Columns, read : BOOLEAN]

(* The next number is above those in use, which are all different.         *)
Numbered(cat) ==
  \A i, j \in 1 .. Len(cat.mats) : /\ cat.mats[i].number < cat.next
                                   /\ cat.mats[i].number = cat.mats[j].number => i = j

ASSUME SyncAssumption ==
  /\ MaxOutside \in Nat /\ {NULL, BAD} \cap Nat = {} /\ NULL \notin PriceRow \cup Write
  /\ Quotes \subseteq Nat
  /\ "handmade" \in Texts
  /\ Sheets \subseteq Seq(SheetRow)
  /\ Bases \subseteq Catalogue
  /\ \A b \in Bases :
       /\ Len(b.active) = Len(b.mats) /\ Numbered(b)
       /\ \A m \in DOMAIN b.active, s \in Columns :
            b.active[m][s] # NULL => b.active[m][s].by = 0 /\ s \in b.known

VARIABLES
  sheet,     (* the file                                                   *)
  db,        (* the committed catalogue: materials, active prices, the     *)
             (* category's next number, suppliers                          *)
  work,      (* the catalogue as the script's transaction sees it          *)
  sync,      (* the script's progress                                      *)
  now,       (* the price it is writing, if any                            *)
  predicted, (* history: the report of a dry run made when the script began*)
  newer,     (* history: pairs changed by others after the script last     *)
             (* read them                                                  *)
  outside    (* bound: commits of others; none means undisturbed           *)

vars == <<sheet, db, work, sync, now, predicted, newer, outside>>

-----------------------------------------------------------------------------
(* parse_price_matrix.  Rows without a description are passed over; a group*)
(* holds for the rows below it, a divider's included; dividers are dropped.*)
Carried(rows) ==
  LET group[i \in 0 .. Len(rows)] ==
        IF i = 0 THEN NULL
        ELSE IF rows[i].desc # NULL /\ rows[i].group # NULL THEN rows[i].group ELSE group[i - 1]
  IN group

Parsed(rows) ==
  LET upto[i \in 0 .. Len(rows)] ==
        IF i = 0 THEN <<>>
        ELSE IF rows[i].desc = NULL \/ rows[i].divider THEN upto[i - 1]
        ELSE Append(upto[i - 1],
                    [desc |-> rows[i].desc, group |-> Carried(rows)[i], cells |-> rows[i].cells])
  IN upto[Len(rows)]

Rows == Parsed(sheet)

(* prices_by_description: the last readable cell of the description.       *)
FilePrice(rows, d, s) ==
  LET readable == {k \in DOMAIN rows : rows[k].desc = d /\ rows[k].cells[s] \in Nat}
  IN IF readable = {} THEN NULL ELSE rows[Max(readable)].cells[s]

(* The material a row stands for, among those read when the script began;  *)
(* of several with one normalised name the last.                           *)
Match(mats, d) ==
  LET same == {i \in DOMAIN mats : NameOf(mats[i].name) = NameOf(d)}
  IN IF same = {} THEN 0 ELSE Max(same)

PriceAt(cat, m, s) == IF cat.active[m][s] = NULL THEN NULL ELSE cat.active[m][s].price

(* The three cases: what a cell asks of the pair's active price.           *)
CaseOfPriced(old, new) ==                                       (* faulty *)
  IF new # NULL /\ old # NULL /\ old # new THEN "update"
  ELSE IF new # NULL /\ old = NULL THEN "create" ELSE "none"
Case(old, new) ==
  IF new # NULL /\ old # NULL /\ old # new THEN "update"
  ELSE IF new = NULL /\ old # NULL THEN "close"
  ELSE IF new # NULL /\ old = NULL THEN "create" ELSE "none"

(* A line of the report, the material told by its SKU number.              *)
Change(number, s, old, new) == [sku |-> number, supplier |-> s, old |-> old, new |-> new]

EmptyReport == [changes |-> {}, materials |-> {}, unresolved |-> {}, suppliers |-> {}]

-----------------------------------------------------------------------------
(* run_sync without --apply: nothing is written; the numbers of the new    *)
(* materials are counted up in memory.                                     *)
NewRows(rows, mats) == {k \in DOMAIN rows : Match(mats, rows[k].desc) = 0 /\ rows[k].group = CAT}
NumberUncounted(rows, cat, k) == cat.next                       (* faulty *)
PredictedNumber(rows, cat, k) ==
  cat.next + Cardinality({j \in NewRows(rows, cat.mats) : j < k})

DryRun(rows, cat) ==
  LET old(k, s) == LET m == Match(cat.mats, rows[k].desc)
                   IN IF m = 0 \/ s \notin cat.known THEN NULL ELSE PriceAt(cat, m, s)
      number(k) == LET m == Match(cat.mats, rows[k].desc)
                   IN IF m = 0 THEN PredictedNumber(rows, cat, k) ELSE cat.mats[m].number
      served == {k \in DOMAIN rows : Match(cat.mats, rows[k].desc) # 0} \cup NewRows(rows, cat.mats)
      cells  == {c \in served \X Columns :
                   Case(old(c[1], c[2]), FilePrice(rows, rows[c[1]].desc, c[2])) # "none"}
  IN [changes |-> {Change(number(c[1]), c[2], old(c[1], c[2]), FilePrice(rows, rows[c[1]].desc, c[2])) :
                     c \in cells},
      materials |-> {PredictedNumber(rows, cat, k) : k \in NewRows(rows, cat.mats)},
      unresolved |-> DOMAIN rows \ served,
      suppliers |-> Columns \ cat.known]

-----------------------------------------------------------------------------
Idle == [step |-> "idle", row |-> 1, todo |-> {}, target |-> 0, seen |-> 0,
         pending |-> {}, held |-> {}, report |-> EmptyReport]

Init ==
  /\ sheet \in Sheets /\ db \in Bases
  /\ work = db /\ sync = Idle /\ now = NULL
  /\ predicted = EmptyReport /\ newer = {} /\ outside = 0

(* _resolve_suppliers, and the materials as they are now.                  *)
Start ==
  /\ sync.step = "idle"
  /\ predicted' = DryRun(Rows, db)
  /\ work' = [db EXCEPT !.known = @ \cup Columns]
  /\ sync' = [sync EXCEPT !.step = "row", !.seen = Len(db.mats),
                          !.report.suppliers = Columns \ db.known]
  /\ UNCHANGED <<sheet, db, now, newer, outside>>

(* A flush writes valid_to of the very rows that were to be closed.        *)
FlushedByPair(cat, pending) ==                                  (* faulty *)
  [cat EXCEPT !.active = [m \in DOMAIN @ |-> [s \in Columns |->
     IF \E p \in pending : p[1] = m /\ p[2] = s THEN NULL ELSE @[m][s]]]]
Flushed(cat, pending) ==
  [cat EXCEPT !.active = [m \in DOMAIN @ |-> [s \in Columns |->
     IF @[m][s] # NULL /\ <<m, s, @[m][s].by>> \in pending THEN NULL ELSE @[m][s]]]]

(* The pairs it keeps others from: those whose active row it has written.  *)
Locked(cat, pending) ==
  {p \in (DOMAIN cat.mats) \X Columns :
     LET row == cat.active[p[1]][p[2]] IN row # NULL /\ <<p[1], p[2], row.by>> \in pending}

NextRow(t) == [t EXCEPT !.step = "row", !.row = @ + 1]

(* On to the next row when no column is left.                              *)
Onward(t) == IF t.todo = {} THEN NextRow(t) ELSE t

RowMatched ==
  LET m == Match(SubSeq(work.mats, 1, sync.seen), Rows[sync.row].desc)
  IN /\ sync.step = "row" /\ sync.row <= Len(Rows) /\ m # 0
     /\ sync' = Onward([sync EXCEPT !.step = "cells", !.target = m, !.todo = Columns])
     /\ UNCHANGED <<sheet, db, work, now, predicted, newer, outside>>

RowUnresolved ==
  /\ sync.step = "row" /\ sync.row <= Len(Rows)
  /\ Match(SubSeq(work.mats, 1, sync.seen), Rows[sync.row].desc) = 0
  /\ Rows[sync.row].group # CAT
  /\ sync' = NextRow([sync EXCEPT !.report.unresolved = @ \cup {sync.row}])
  /\ UNCHANGED <<sheet, db, work, now, predicted, newer, outside>>

(* _create_new_material: generate_next_sku locks the category to the end.  *)
WithMaterial(cat, d) ==
  [cat EXCEPT !.next = @ + 1, !.mats = Append(@, [name |-> d, number |-> cat.next]),
              !.active = Append(@, [s \in Columns |-> NULL])]

RowCreates ==
  /\ sync.step = "row" /\ sync.row <= Len(Rows)
  /\ Match(SubSeq(work.mats, 1, sync.seen), Rows[sync.row].desc) = 0
  /\ Rows[sync.row].group = CAT
  /\ work' = WithMaterial(Flushed(work, sync.pending), Rows[sync.row].desc)
  /\ sync' = Onward([sync EXCEPT
       !.step = "cells", !.target = Len(work'.mats), !.todo = Columns, !.pending = {},
       !.held = @ \cup {CAT} \cup Locked(work, sync.pending),
       !.report.materials = @ \cup {work.next}])
  /\ UNCHANGED <<sheet, db, now, predicted, newer, outside>>

(* _reconcile_prices looks at the active price of one column: what the cell*)
(* asks is decided, reported and, if the price is to go, noted.            *)
OldPrice(s) == PriceAt(work, sync.target, s)
NewPrice(s) == FilePrice(Rows, Rows[sync.row].desc, s)
Asked(s)    == Case(OldPrice(s), NewPrice(s))

(* valid_to is set, in memory, on the pair's active row.                   *)
Dated(cat, pending, m, s) ==
  pending \cup {<<m, s, row.by>> : row \in {cat.active[m][s]} \ {NULL}}

Looked(s) ==
  LET change == Change(work.mats[sync.target].number, s, OldPrice(s), NewPrice(s))
  IN [sync EXCEPT
        !.todo = @ \ {s},
        !.pending = IF Asked(s) = "close" THEN Dated(work, @, sync.target, s) ELSE @,
        !.report.changes = IF Asked(s) = "none" THEN @ ELSE @ \cup {change}]

Cell(s) ==
  /\ sync.step = "cells" /\ now = NULL /\ s \in sync.todo
  /\ \/ /\ Asked(s) \in {"update", "create"}
        /\ sync' = Looked(s) /\ now' = [column |-> s, read |-> FALSE]
     \/ /\ Asked(s) \in {"close", "none"}
        /\ sync' = Onward(Looked(s)) /\ now' = NULL
  /\ newer' = newer \ {<<sync.target, s>>}
  /\ UNCHANGED <<sheet, db, work, predicted, outside>>

(* version_price reads the active price anew, and that is what it closes.  *)
ReadActive ==
  /\ now # NULL /\ ~now.read
  /\ sync' = [sync EXCEPT !.pending = Dated(work, @, sync.target, now.column)]
  /\ now' = [now EXCEPT !.read = TRUE]
  /\ newer' = newer \ {<<sync.target, now.column>>}
  /\ UNCHANGED <<sheet, db, work, predicted, outside>>

(* Then it flushes: all that was noted, and the new row, which the unique  *)
(* index admits if no other is active.  What it wrote is held to the end.  *)
WritePrice ==
  LET m == sync.target
      s == now.column
      clean == Flushed(work, sync.pending)
  IN /\ now # NULL /\ now.read
     /\ clean.active[m][s] = NULL
     /\ work' = [clean EXCEPT !.active[m][s] = [price |-> NewPrice(s), by |-> 0]]
     /\ sync' = Onward([sync EXCEPT !.pending = {},
                                    !.held = @ \cup {<<m, s>>} \cup Locked(work, sync.pending)])
     /\ now' = NULL /\ newer' = newer \ {<<m, s>>}
     /\ UNCHANGED <<sheet, db, predicted, outside>>

(* _verify_and_finalize: every change was counted where it was reported.   *)
Commit ==
  /\ sync.step = "row" /\ sync.row > Len(Rows)
  /\ work' = Flushed(work, sync.pending) /\ db' = work'
  /\ sync' = [sync EXCEPT !.step = "done", !.pending = {}, !.held = {}]
  /\ UNCHANGED <<sheet, now, predicted, newer, outside>>

(* Stopped, or refused by the database: everything is rolled back.         *)
Abort ==
  /\ sync.step \in {"row", "cells"}
  /\ work' = db /\ sync' = [Idle EXCEPT !.step = "failed"] /\ now' = NULL
  /\ UNCHANGED <<sheet, db, predicted, newer, outside>>

-----------------------------------------------------------------------------
(* Meanwhile: a price is set or withdrawn, on a pair whose row is free; a  *)
(* material is created, while the category's row is free.                  *)
OutsidePrice ==
  /\ sync.step \in {"row", "cells"} /\ outside < MaxOutside
  /\ \E m \in DOMAIN db.mats, s \in db.known : \E q \in Quotes \cup {NULL} :
       LET row == IF q = NULL THEN NULL ELSE [price |-> q, by |-> outside + 1]
       IN /\ <<m, s>> \notin sync.held
          /\ db' = [db EXCEPT !.active[m][s] = row]
          /\ work' = [work EXCEPT !.active[m][s] = row]
          /\ newer' = newer \cup {<<m, s>>}
  /\ outside' = outside + 1
  /\ UNCHANGED <<sheet, sync, now, predicted>>

OutsideMaterial ==
  /\ sync.step \in {"row", "cells"} /\ outside < MaxOutside /\ CAT \notin sync.held
  /\ db' = WithMaterial(db, "handmade") /\ work' = WithMaterial(work, "handmade")
  /\ outside' = outside + 1
  /\ UNCHANGED <<sheet, sync, now, predicted, newer>>

Next ==
  \/ Start \/ RowMatched \/ RowUnresolved \/ RowCreates
  \/ \E s \in Columns : Cell(s)
  \/ ReadActive \/ WritePrice
  \/ Commit \/ Abort \/ OutsidePrice \/ OutsideMaterial

Spec == Init /\ [][Next]_vars

-----------------------------------------------------------------------------
(* The descriptions differ by more than white space.                       *)
Distinct == \A j, k \in DOMAIN Rows : NameOf(Rows[j].desc) = NameOf(Rows[k].desc) => j = k

Undisturbed == sync.step = "done" /\ outside = 0

(* Whatever is created meanwhile, no two materials share a number, and a   *)
(* file that repeats a description still numbers its materials apart.      *)
NumbersUnique ==
  \A cat \in {db, work} : \A i, j \in DOMAIN cat.mats :
    cat.mats[i].number = cat.mats[j].number => i = j

(* An undisturbed --apply reports what the dry run before it predicted,    *)
(* the SKU numbers of new materials included; disturbed or not, no two     *)
(* materials share a number.                                               *)
AppliedAsPredicted == NumbersUnique /\ (Undisturbed /\ Distinct => sync.report = predicted)

(* After an undisturbed --apply every row that is not unresolved has one   *)
(* material, whose price at each column's supplier is the file's, and the  *)
(* materials the file does not name keep theirs.                           *)
FileHasLastWord ==
  Undisturbed /\ Distinct =>
    \A k \in DOMAIN Rows :
      \/ k \in sync.report.unresolved /\ Match(db.mats, Rows[k].desc) = 0
      \/ LET m == Match(db.mats, Rows[k].desc)
         IN m # 0 /\ \A s \in Columns : PriceAt(db, m, s) = FilePrice(Rows, Rows[k].desc, s)

(* No step of the script closes a price committed by others after the      *)
(* script last read the pair, be it at the look or in version_price, nor   *)
(* any price of a material not in the file.                                *)
NewerPriceSurvives ==
  [][outside' = outside => \A m \in DOMAIN db.mats, s \in Columns :
       \/ <<m, s>> \in newer /\ db.active[m][s] # NULL
       \/ \A k \in DOMAIN Rows : NameOf(Rows[k].desc) # NameOf(db.mats[m].name)
       => /\ work'.active[m][s] = db.active[m][s]
          /\ db'.active[m][s] = db.active[m][s]]_vars

=============================================================================
