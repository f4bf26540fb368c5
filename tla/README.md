# Procurement allocator: TLA+ specifications

The backend (`src/backend/app`, Python, FastAPI, SQLAlchemy over PostgreSQL) plans what a
construction project has to buy from which supplier, turns the plan into draft orders, and follows
what suppliers answer. These modules specify the parts of it that decide something or that
several requests change at once. TLC checks small instances, TLAPS proves the main properties
for every instance.

Paths below are relative to `src/backend/app` unless they start with `docs/` or `src/`.

## 1. The system

| component | state it keeps | operations | what is hard | what makes it correct |
|---|---|---|---|---|
| allocation run (`allocation/preprocess.py`, `solver.py`, `service.py`) | `AllocationRun` with its lines, supplier summaries, split categories, orphaned materials | `run_allocation` | unit prices rounded to cents, minimum quantities, stock, big-M of free shipping, minimum orders, repeated materials | the cheapest acceptable plan in those cents, no row lost but to a later one of its material, the exported amounts are real |
| overrides (`allocation/service.py`) | the same rows | `override_allocation_line_supplier` | chains of overrides; two requests at once; a JSON list written back whole | summaries are those of the lines; need and solver's choice survive |
| draft orders (`allocation/order_service.py`, `api/order.py`) | `Order`, `OrderItem`, `AllocationLine.ordered_at` | create, replace and order, delete, raw item, item fields, publish confirmed prices | checks without locks, two commits in one request, foreign keys between statements | no order lost, doubled or empty; a later request is never stuck; attribution alive |
| project (`api/project.py`) | `Project.status`, colour, items | create, colour, complete, delete | status written by five endpoints | plan, orders and status fit one another |
| prices (`api/price.py`, `price_ingestion/apply.py`, `order_service.confirm_price_updates`) | versioned `Price` rows | create, update, delete, confirm, match | four writers race, check-then-write | one active price per pair, no gap |
| price-list ingestion (`price_ingestion/`) | `PriceListImport`, `PriceListEntry`, aliases | extract, match, apply, skip, approve | page chunks, retries, re-application, stop between commits | every entry decided once, approval means all decided |
| supplier responses (`order_response_parser/`) | aliases; the preview is not stored | parse, post-match, link, unlink | an arbitrary answer of the model, items and aliases changing under the call | aliases add exactly the matches they justify; a price shown silently adds up |
| reference data (`api/material.py`, `category.py`, `supplier.py`, `template.py`, `supplier_directory/`, `purchase_records/`, `services/material_sku.py`) | categories, materials, suppliers, offices, contacts, templates, purchase records | create, update, delete | foreign keys under overlapping requests, SKU counter and prefixes that come free, JSON merged and written back | references stay inside their owner, one SKU twice only over a reused prefix, history kept |
| sign-in (`auth/`, `api/auth.py`, `api/user.py`) | users, sessions | sign-in, renewal, logout, administration, bootstrap | sliding expiry against a ceiling, renewal racing with logout, the last administrator | no session past its limits, none revived, an administrator remains |
| catalogue synchronisation (`scripts/sync_catalog_from_file.py`, `xlsx_price_matrix.py`) | materials and prices | dry run, applied run | a prediction made apart from the run, pairs read twice and closures flushed late, others committing | the run does what the dry run said, the file has the last word, newer prices stay |
| sales tax, price comparison, one-off scripts, rate limits, configuration, web client | none of record | | | not modelled, see section 7 |

**How they interact.** Every HTTP request runs in a thread of its own, with a database session of
its own (`core/database.py`: `autoflush=False`, the engine's default isolation, which for PostgreSQL
is READ COMMITTED). There are no application locks, no `SELECT ... FOR UPDATE` and no version
columns: requests meet only in the database, through row locks of `UPDATE` and `DELETE` (the SKU counter is one
`UPDATE ... RETURNING` for that reason), unique indexes, foreign keys and check constraints. A service function commits once
at its end, with exceptions that matter here: `replace_and_sync_order` calls
`override_allocation_line_supplier`, which commits by itself; the batch of `confirm_price_updates` commits
row by row; `apply_entry` commits the entry and then, in `maybe_mark_import_approved`, the import; an
authenticated request renews its session in a commit of its own before its handler starts. The integer program is solved
synchronously inside the request. Two handlers are `async` and have long synchronous work in them: the upload
of a price list (`api/price_ingestion.py`) and the parsing of a supplier's response (`parse_order_response_endpoint`, `api/order.py:422`).
They run on the event loop, so one server process (`src/backend/Dockerfile`)
accepts no request until they have ended, and only with several processes does anything else happen
while they run. Inside an upload two thread pools make the calls to the language model; they
share nothing but their results.

## 2. The modules

| module | models | TLC instance | proofs |
|---|---|---|---|
| `PlanLines` | what one allocation line remembers when it moves (need, origin) | | |
| `Policies` | the catalogue, the suppliers and their delivery policies, which runs and projects share | | |
| `Procurement` | one project: status, runs, overrides, draft orders; one action per commit | `MCProcurement` | `Procurement_proofs` |
| `PlanRace` | overrides of one run, statement by statement | `MCPlanRace` | `PlanRace_proofs` |
| `OrderRace` | the order requests of one project, statement by statement | `MCOrderRace` | `OrderRace_proofs` |
| `Prices` | the price rows of one pair under four writers, statement by statement | `MCPrices` | `Prices_proofs` |
| `PriceCell` | what readers rely on: a register holding one price or none; `Prices` implements it | | |
| `Solver` | one allocation run from rows to exported plan | `MCSolver` | `Procurement_proofs` |
| `Ingestion` | one supplier's price lists: upload, pools, import, review | `MCIngestion` | `Ingestion_proofs` |
| `Responses` | one reply of a supplier, its matches and prices, and the aliases taught meanwhile | `MCResponses` | `Ingestion_proofs` |
| `ReferenceData` | eleven tables and their foreign keys, SKU numbers, delivery policies | `MCReferenceData` | `ReferenceData_proofs` |
| `Access` | accounts, sign-in, sessions, time, restarts | `MCAccess` | `Access_proofs` |
| `CatalogSync` | one synchronisation of the catalogue with a sheet, and its dry run | `MCCatalogSync` | `CatalogSync_proofs` |

`Procurement` and `PlanRace` extend `PlanLines`, `Procurement` and `Solver` extend `Policies`. `Procurement` and `PlanRace`
are the same request at two grains: `Procurement!OverrideLine` is the whole override as one step,
`PlanRace` takes it apart into the statements two requests can interleave. In the same way `OrderRace` takes
apart the order requests of `Procurement`, without the amounts. `Solver` says what
`Procurement!RunSolved` may answer: there the solver is any choice that satisfies the minimum
orders, here it is the integer program, and `SolverAnswersRun` proves that the two fit. `Ingestion` and `OrderRace` publish prices as one step;
`Prices` takes that step apart. `ReferenceData` is where materials and suppliers, constants
elsewhere, come and go.

A module that takes requests apart keeps them in `tx[w]`: `NULL`, or the request worker `w` serves, with its next
statement and what it has read. `Abort` is any failure or stop before the commit, and changes nothing
committed. `requests` counts them for the bound.
Facts about PostgreSQL and the libraries are in the models because the code depends on them, and are marked
external in the map: a statement waits for the row lock another transaction holds; foreign
keys and unique indexes are checked by each statement; SQLAlchemy's `UPDATE` names only the columns whose value
differs from the one read, and raises `StaleDataError` when the row has gone; a session returns the object it has in
memory for a row it has already loaded; with `autoflush=False` nothing is written before a flush or the commit.

### Procurement

State: `status` is `Project.status`, `"deleted"` when the row is gone; `lines[r][m]` is the
`AllocationLine` of run `r` for material `m`, `summaries[r][s]` the entry of `supplier_summaries`;
`orderState[s][k]` and `amounts[s][k]` are the `k`-th order ever made for supplier `s`;
`items[<<s, k, m, c>>]` is the `c`-th item of that order with material `m` (`NULL` for a raw item);
`pending[w]` is a request of worker `w` between the two commits of `replace_and_sync_order`.
`demand` and `chosen` are history: what a run was asked for, and what the solver chose.

| action | code |
|---|---|
| `RunSolved`, `RunInfeasible` | `run_allocation` |
| `OverrideLine` | `PATCH .../lines/{line_id}` and `override_allocation_line_supplier` |
| `CreateOrders` | `create_orders_for_run`, with `supplier_actions`; the two older flags are the uniform answers |
| `DeleteOrder`, `AddRawItem`, `SetItemFields` | `delete_order_by_id`, `add_raw_order_item`, `set_order_item_fields` |
| `ReplaceBegin`, `ReplaceFinish`, `ReplaceAbort` | `replace_and_sync_order`: checks and first commit, second commit, stop or error in between |
| `ChooseColor`, `CompleteProject`, `DeleteProject` | `api/project.py` |

Inputs rather than state: what the project needs (`need`, any function into `Quantities`), which
active price a read meets (`Offer`, a set per pair, so a price may change between two reads) and
whether a supplier is active. They are edited freely by other endpoints and read by nothing else.
A request that changes nothing is not a step. Amounts are integers; tax is kept only as the amount
it was computed from (`taxed`), `NULL` when the order has none.

### PlanRace

A request is `Open` (the route loads the run, and with it `supplier_summaries`), `Read` (line and
price), `Flush` (the `UPDATE`, which takes the row's lock), one or two `Rebuild` steps
(`_rebuild_supplier_summary` per touched supplier) and `Commit`. `Written` is the `UPDATE` of the columns
that differ, `View` the lines as the session sees them, `RowFree` the row's lock.

### OrderRace

State: `lines[m]` is the supplier of the latest run's line, `listed` the suppliers with an entry in its `supplier_summaries`, which
is what a creation walks; `orders[o]` every order ever committed
with its list of items (material, `declined`, `confirmed`, and `sources`, how many prices name the item as their
`source_order_item_id`); `published` the pairs whose active price is the confirmed one. `raced` is history: two overrides have held the list
they read at one time.

| action | code |
|---|---|
| `PatchItem`, `AddRawItem` | `set_order_item_fields`, `add_raw_order_item` |
| `OpenDelete`, `Unlink`, `RemoveItems`, `CommitDelete` | `delete_order_by_id` and `_delete_orders`: clear the prices' references, delete the items, delete the orders |
| `OpenCreate`, `RemoveOrders`, `ReadLines`, `CommitCreate` | `create_orders_for_run`: the list and the conflicts and answers of its suppliers, deletion of replaced drafts, one read of the lines per supplier, commit |
| `OpenReplace`, `PlaceReplacement` | `replace_and_sync_order`: checks, item and commit |
| `FlushOverride`, `RebuildList`, `CommitOverride` | the override in between: the line's `UPDATE` with its row lock and the reading of the list, the entries of both suppliers rebuilt, the whole list written back |
| `OpenConfirm`, `Detect`, `Publish` | `confirm_price_updates`: the batch, with one commit per item |

### Prices and PriceCell

One material/supplier pair; pairs share no row and no constraint. `tx[w]` holds the row the request read (`old`),
the rows it has closed but not committed
(`closed`) and the row it will insert (`row`). `StartCreate`, `StartUpdate`, `StartDelete`,
`StartConfirm` and `StartMatch` are the five entry points with their first read and early refusals,
`FindActive`, `Close` and `InsertAndCommit` are `version_price`. The partial unique index and the
check constraint of migration `d1a2f3c4b5e6` are `IndexAdmits` and the condition on `later` in `Close`.

`PriceCell` is the abstract specification. Its state is what a reader of committed data sees:
the version in force, its amount, the number of versions. `Prices` instantiates it, with the active committed row for
`current`, and `IsPriceCell` says that every step of every overlapping request is a `Publish`, a `RecordEnded`,
a `Withdraw` or none.

### Solver

`Split` is `split_orphaned_materials`; `Solve`, `Fail` and `NothingToSolve` are `solve_allocation`
with its three outcomes. The integer program is written as CP-SAT gets it: `Assignments` (constraints
1 and 2), `Consistent` (activation, minimum order, the big-M inequalities of `FreeLinked`, `diff`),
`Objective`, and `Optimal`, all minimal solutions, since nothing in the code fixes which one the
solver returns in terms of the data. Prices are in thousandths as stored; `UnitCents` is the rounding of `run_allocation`, which comes before any
multiplication, and `RoundedUp` says which halves `round(float * 100)` takes up, as that depends on binary floats. Policies are in cents. The variable `z` is replaced by what its three inequalities say
(`y` and not `free`).

### Ingestion

State: `catalog` is the table of materials, `aliases` the `price_import` aliases of the supplier,
`imports[k]` an import with its entries (keyed by the number of the line they come from), `priced` which
material got a price from which import. `phase` and what follows it is the one upload in progress;
`req[r]` is an apply request: its target, the two columns it has read, and whether its first commit is done.

| action | code |
|---|---|
| `StartUpload` | `upload_price_list`, `_page_chunks` |
| `ReadChunk` | one call of the extraction pool, `_call_extraction` with its retries |
| `StartMatching` | end of extraction; catalogue, `group_duplicate_lines`, `find_known_alias` |
| `MatchLine` | `_resolve_pending_line`: `_decide_match` inside `call_with_retry`, then the downgrade |
| `StoreImport`, `RefuseUpload`, `LoseUpload` | the transaction of `create_price_list_import`; the 502; a stop, or the foreign key's refusal |
| `LoadEntry`, `CommitEntry`, `MarkImport`, `CutApply` | `apply_entry`: checks and read, first commit, second commit, failure or stop |
| `LoadReferences`, `CommitDelete`, `CutDelete` | `delete_material`: its flush reads the entries that name the material, then clears each by its id and deletes the row; refusal or stop |

The language model is external. It reads every printed line of the pages it is sent, with its page
number, in one of the spellings of its name that differ in case and white space only, so it misreads
nothing; and it may answer any material, none, or one that does not exist. Each attempt of a call
ends well, with a rate limit, or with another error. An image file is one unretried call, and ends in the
same ways as a file with one chunk. Reviews go on while an upload runs, which one process would not
allow and several would. A deletion does what SQLAlchemy does for relationships without
a cascade: it sets the references of the entries it has loaded to `NULL`, whatever they name by then, and would set those of prices and aliases,
whose columns refuse it; so only a material without them goes. `wiped` is history: the entries that had come to name another material when that
happened. Two decisions for one spelling leave
two aliases, for nothing makes them unique (`candidates.py:37`), and `find_known_alias` may then return either.
`PriceListImport.status` never becomes `rejected`: nothing assigns it. A refused first commit is `CutApply` here.

### Responses

State: `items` of one order, `aliasRows` of its supplier that order responses are matched with, link requests in
`tx`, and the one reply: `call` holds the items as they were when the model was called, `preview` what
`parse_order_response` returns.

| action | code |
|---|---|
| `Send`, `Receive`, `Fail` | `parse_order_response`: the items read, the model's answer, alias post-matching, `pricing.py` per line; an error of the call |
| `OpenLink`, `CommitLink`, `Unlink` | `create_response_alias` with or without `force`, `delete_response_alias` |
| `Decline` | the order's items, changed while the call is out |

The answer is any sequence of up to `MaxLines` lines, each naming no item, any of the order's, or one that
does not exist. `NormalizeLine` is `pricing.py` in integers of a thousandth of a dollar.

### ReferenceData

A row is its foreign-key columns. `ForeignKeys` is the schema in one table: for each key, what SQLAlchemy does to the child
rows it finds when it deletes the parent (sets the column to `NULL`, deletes them, or nothing), and the database's own rule
for the rest. One `Open...` or `Create...`/`Update...`/`Delete...` action per handler reads and decides; `CommitInsert`,
`CommitUpdate`, `CommitPolicy` and `CommitDelete` write under the keys. `CreateMaterial` locks its category and takes `counter`
as its number, as `generate_next_sku` does, until it commits or aborts; `Sku` is the category's prefix with it, and that is the
unique column (`Taken`). A prefix comes free with the deletion of its category (`PrefixInUse`), which waits for
creations that hold the row. `Refused` is what a commit may meet: a foreign key, a SKU or a prefix in use. `InsertElsewhere` is a price, an alias or an entry made by another component.
Left out: columns no key depends on, names and that they are unique, display order, embeddings, and the totals of purchase records, which only read.

### Access

`users[e]` and `sessions[i]` are the tables; `now` moves with `Tick`; `guarded` is history: administrators have left
one at a time and by themselves so far.

| action | code |
|---|---|
| `Validate` | `get_valid_session`, `get_current_user`: the session and its user are read |
| `Compute`, `Renew` | `touch_session`: the new expiry, and the `UPDATE` with its commit |
| `Me`, `Logout`, `CreateUser`, `DecidePatch`, `CommitPatch` | the handlers; `update_user` decides on rows it has read and writes later |
| `SignIn`, `CreateSession` | `callback`: `resolve_user_for_login`, `create_session` |
| `Restart` | the process stops; open requests are lost, sessions stay, `bootstrap_admin` runs |

The identity provider is external: it vouches for any of `Claims`. `is_active` is read at sign-in only, the role at every request.

### CatalogSync

State: the sheet, `db` (committed materials, active prices, next number, suppliers), `work` (the same as the script's
transaction sees it) and `sync` (row, step, report, and closures set on objects but not yet flushed).
`RowMatched`, `RowUnresolved`, `RowCreates` are the three outcomes for a row, `Cell(s)` the look at one supplier's cell of it, which decides
and reports; where it asks for a price, `now` is `version_price` at work: `ReadActive` reads the active price again and marks that one closed,
`WritePrice` flushes and inserts. `Commit`
flushes what is left. `OutsidePrice` and `OutsideMaterial` are administrators committing meanwhile. `DryRun` is the
script's second computation, an operator here as it is a pure pass there.

## 3. What the runs check

| run | instance | states |
|---|---|---|
| `procurement` | 2 materials, 2 suppliers, 1 worker, 2 runs, 2 orders per supplier, 6 requests | 206 000 |
| `plan_race` | 2 materials, 3 suppliers with minimum quantities 0, 3, 5 for a need of 2, 2 workers, 3 overrides | 230 000 |
| `order_race` | 2 materials, 2 suppliers, 2 workers, 5 requests, 3 orders of at most 2 items | 2.8 million |
| `prices` | 2 workers, 2 price values, 3 rows ever inserted | 1.8 million |
| `solver` | 3 materials, 3 suppliers, 1 to 3 rows of quantity 1 or 3, 48 price tables | 86 807 (24 768 inputs) |
| `ingestion` | 2 materials and a new one, 3 files, 2 names of which one has two spellings, no aliases for it or two, 1 import, 2 reviewers, 3 apply requests, 1 deletion | 3.7 million |
| `responses` | 2 items, 2 materials, 3 spellings of 2 names, 3 aliases, 2 workers, 2 link requests, answers of up to 2 lines | 3.0 million |
| `reference_data` | 15 rows in 11 tables, 4 of them there at the start, 3 categories of which two have one prefix, 2 workers, 5 requests | 808 000 |
| `access` | 2 accounts, 2 subjects, 2 sessions, 2 workers, 5 requests, 4 instants with `Idle` 1 and `Absolute` 2 | 2.4 million |
| `catalog_sync` | all sheets of two of 38 rows, 3 catalogues, 2 suppliers of which one is new, 2 commits of others | 3.8 million |

Where the symmetry of a cfg makes workers, sessions, aliases, materials or reviewers interchangeable, the number
is that of the classes. Two more runs end in a counterexample; section 4 has them.

**Procurement.** `SummariesMatchLines` (the stored summaries are those of the stored lines),
`DemandPreserved` (the need survives chains of overrides),
`AttributionIsLive` (no reference to a deleted item), `UnaskedCreateIsHarmless`
(a create request that answers no conflict neither deletes an order nor doubles a live draft) and
`PlanFullyOrdered` (ordering leaves no line of the plan behind); `TypeOK`.

**PlanRace.** `SerialPlanIsExact` (types; and without overlap everything is exact, failed requests included),
`OriginalSurvivesRaces` (two first overrides of a line leave the solver's supplier as its origin), `LoneOverrideRepairs`
(an override nothing overlaps repairs what earlier
races did to the suppliers it touches), `EveryOverrideEnds`.

**OrderRace.** `OrdersHaveItems` (also when a replacement moves the lines between the summaries' read and the lines'),
`SerialDraftsUnambiguous` (no draft lists a material twice unless requests ever overlapped), `LoneRequestSucceeds`
(whatever races left behind, a request alone never fails on a foreign key, a vanished row, the unique index or a missing summary),
`LoneCreateCoversPlan` (every line ordered once, at its supplier, and of the drafts of listed suppliers only those answered for remain; a line may be
left out only when overrides that held the list at one time have lost its supplier's entry, see section 4).

**Prices.** `OneActive`, `StaysPriced` (no failed version leaves a gap) and `IsPriceCell`.

**Solver.** `RowsPlannedOrSuperseded` (types; a row is reported exactly when nobody can ship it, with the right reason, and any
other is planned with its need, unless a later row of its material takes its place), `PlanIsCheapest` (exactly so in the rounded cents; at the stored
prices within half a cent for each piece), `InfeasibleMeansNone`, `ExportIsReal`. They are phrased over `Shipped`, `Bill` and `Delivery`, which say
what a supplier would ship and charge, and over no variable of the integer program.

**Ingestion.** `PrintedMatchedOnce` (types; chunks and grouping together neither lose nor double a printed line),
`MatchesReachReview` (each copy of a matched line becomes an entry), `SameMaterialIsFlagged` (entries
point at each other exactly when they propose one material), `ApprovedMeansDecided` and its converse
`DecidedMeansApproved` (two reviewers who finish together cannot leave the approval to one another),
`AppliedIsPriced` (what an apply booked stays, and the entry names it, also when two UPDATEs of one entry mix or a material goes;
it names nothing only when a deletion that had read an older match has cleared the newer one). `DecidedMeansApproved`
exempts an import whose apply request stopped between its commits, until the next one, and imports without
entries, which no request ever marks.

**Responses.** `PostMatchIsExact` states the result of post-matching as a set, independent of the order of its two loops;
`SilentPriceAddsUp` that a price shown without a warning costs, within rounding, what the document states, for each of the
lines the constants make; `SerialLinksUnambiguous` that a spelling keeps one alias while links come one at a time.

**ReferenceData.** `ContactOfficeIsOwn`, `ClashOnlyOnReusedPrefix` (two materials are given one SKU only when the category that
numbered one of them is gone and another has its prefix, and then the unique column refuses the second), `DeletionSparesHistory` (only template items, and aliases the request could not have seen, go with a row),
`PartialPolicyKeepsTheRest` (unless another update overlaps).

**Access.** `SessionsBounded` (types; racing renewals keep to both limits), `LogoutIsFinal` (no renewal
brings a session back), `LastAdminStays` (under the condition `guarded`, see section 4).

**CatalogSync.** `AppliedAsPredicted` (the undisturbed run reports what the dry run did, numbers included; no number
twice in any case), `FileHasLastWord`, `NewerPriceSurvives` (what others committed after the script last read the pair is not closed by it).

**Bounds, and why they suffice.** Every bound is a constant with "bound:" in its comment.
In `Procurement` the properties relate one line, two suppliers and at most two drafts of a supplier;
six requests are one more than the longest scenario that makes a property interesting (run,
order, decline, replace in two commits, create again). One material is sold by both suppliers, with
a minimum quantity at one of them, the other by one supplier only; one supplier has a minimum order that one
material reaches and the other does not, and a free-shipping threshold the two reach together.
`MaxCopies = 1` leaves out a draft that holds one material twice, and one worker leaves out two
replacements at once: both are in `OrderRace`. In `PlanRace` three overrides let a third one meet what two
overlapping ones left; the price of every pair differs, so that a mixed row is seen. In `OrderRace` five requests are a
creation, a change of an item, two that overlap and the lone one that meets what they left; a creation, two overlapping
replacements and another creation, which is how a summary is lost and missed, are four. In `Prices`
three rows are an old version, its successor and a rival; with two workers every pair of requests meets.
In `Solver` the tables contain the tie of section 4 and prices halfway between two cents, an offer whose stock covers the need but not the minimum quantity, one
whose minimum is far above the need, and ones without a limit; the suppliers have the three
kinds of threshold and one has a minimum order; two materials are in a strict category.
In `Ingestion` chunks of two pages make a three-page file two chunks with a border page; the files have a
line printed twice on one page, the same line on a border page and after it, and two lines of which
one is read twice. Three requests let two overlap on one entry and a third come after them,
which is what approval and mixed columns need; an import reads of earlier ones only the aliases, and those
are none or two for one spelling at the start (`Learned`), so one import is enough. One deletion overlaps with each of the reviews.
In `Responses` two lines can claim one item, two items share a material and two spellings a name.
In `ReferenceData` every table has a row and those with a rule about pairs have two; a creation, a move and a
deletion that overlap need four requests; a SKU is given twice with five (create a material, reclassify it, delete its category,
create one with the prefix, create a material). In `Access` the horizon is past the ceiling of a session created at the
start, so that both limits end one. In `CatalogSync` a second row is enough to meet what the first one did (a divider's
group, a repeated description, a counted number); two commits of others put one between the look and `version_price`'s read and one after it.

**Deadlock** is checked in `prices`, where it says little: an open request can always abort, so only a state in which none could be opened either
would be one. The other instances stop when their bound is used up or, in
`Solver`, `Responses` and `CatalogSync`, when the answer is there.

**Fairness.** Only `PlanRace` has liveness. `WF_vars(Advance(w))`: a request's thread runs to the
end of its handler; it has no loop and waits for nothing but the database. `SF_vars(Flush(w))`:
PostgreSQL queues the waiters of a row lock, so an `UPDATE` that finds the row free again and again is
eventually executed. `Open` and `Abort` are not fair: nobody has to ask, nothing has to fail.

## 4. Where documents and code disagree

Each of these runs checks one property that a document or a docstring states and the code does not
keep; TLC's trace shows how.

| run | statement | what happens |
|---|---|---|
| `lost_summary` | docstring of `_rebuild_supplier_summary` (`allocation/service.py:265-269`): recomputed from the current lines | the whole list is written back as read: the other override's suppliers are undone |
| `every_copy_planned` | `docs/decisions/0038`: a repeated material means two of it | the solver's dictionary keeps the last row |

Found while modelling and kept in the models as the code has it, each a matter of one reading:

- A completed project goes back to `ordered` when orders are created for it (`allocation/order_service.py:711`;
  `docs/decisions/0011` lets nothing lead out of `completed`).
- A replacement gives the draft the total of all the supplier's lines in the latest run (`order_service.py:475`;
  `docs/decisions/0026` says that without declines the expected total is `total_amount`).
- Two overrides of one line that overlap may leave the quantity of one and the needed quantity of the other
  (`allocation/service.py:359`), against the description of the column in `models/allocation.py:68-71`.
- `delete_price` may delete a row closed since it was read (`api/price.py:216`; its docstring says closed rows are not deleted).
- A rate limit is wrapped before the retry loop sees it (`price_ingestion/matching.py:161`): it is not retried and
  ends the upload, while lines 27-28 promise one marked line.
- ADR-0034 section 6 (`docs/decisions/0034-*.md:623-627`) keeps categories with materials from being deleted because a later category might take the
  prefix. Reclassifying the materials first frees it all the same: the new category counts from 1, the SKU is taken, and the refusal rolls the counter back, so every
  later creation in that category is refused too (`services/material_sku.py:43`, `api/material.py:62-66`).
- Unit prices are rounded to cents before they are multiplied (`allocation/service.py:126`): 0.019 and 0.022 dollars are a tie and the
  dearer may be chosen. ADR-0047 describes it and proposes thousandths, which the code does not have. `PlanIsCheapest` bounds what it can cost.
- A cell of the sheet no price can be read from closes the pair's price (`scripts/xlsx_price_matrix.py:246-248`), while the
  description of `sync_catalog_from_file.py` speaks of blank cells.
- `replace_and_sync_order` promises one transaction (`order_service.py:391`) and notes further on that the override
  commits first. `ReplaceBegin` and `ReplaceFinish` are therefore two steps, with anything in between.

What no document rules out, and the models show can happen: after two overlapping overrides have lost a supplier's summary
(run `lost_summary`), creating orders leaves that supplier's lines out without a word, because it walks the summaries (`order_service.py:638,669`), and leaves its
drafts alone whatever the answer was; a material's deletion clears the match of an entry that was applied to another
material after it had read the entry (`api/material.py:128-130`): price and alias stay, the applied entry names nothing; a price committed
between the synchronisation's look at a pair (`sync_catalog_from_file.py:259`) and `version_price`'s own read (`price.py:61`) is closed and replaced, and the
report has the price of the look; two overlapping creations that answer nothing leave
two drafts of a supplier; an item added, or a price confirmed, between the conflict check and the deletion goes with the order, or makes
the deletion fail; two overlapping updates of a delivery policy lose one; two first links of a spelling, or two spellings of
one normalised name with different materials, leave two aliases, and the name is then ambiguous; an alias created between a
session's look and its `DELETE` is cascaded away; the last active administrator may be deactivated by another administrator, or
demoted by himself, and two may leave at once; a deactivated person keeps working until the session ends;
a sheet that repeats an unknown description creates two materials; no order ever gets another status than `draft`;
`create_session` keeps to the ceiling only because `SESSION_IDLE_TTL` is not above it.

## 5. What is proved

`Procurement_proofs`
: `TypeCorrect`: `Spec => []TypeOK`, action by action, from `ConstantsAssumption` (finitely many
  materials, offers as declared, `NULL` in none of them), `PolicyAssumption` and `NullAssumption`.
  `SummariesCorrect`: `Spec => []SummariesMatchLines`. The property is not inductive alone: a solver run
  stores `below_min_order = False` without computing it, which is right only because a feasible plan
  reaches every minimum order, so the proof compares the two ways of writing a summary
  under `Feasible`; and an override rebuilds two entries only, so the proof needs that every other
  supplier has the same lines before and after. `SummariesInv` also carries that runs not made yet
  have neither lines nor summaries. The sum over a supplier's lines stays unexpanded: the argument
  needs that it depends on those lines only, never its value.
  `UnaskedCreateCorrect`: only `CreateOrders` removes or adds orders by itself, and without an answer it does neither
  where a draft conflicts. `FullyOrderedCorrect`: the request makes orders for the suppliers of the summaries, so
  it needs `SummariesInv`: every supplier with a line has a summary, and a summary is not `NULL`, which
  is where the sum must be known to be a number (`GoodsType`, from `SumIsNat`).
  `DemandCorrect`: what `DemandOf` recovers from a line that `Recorded` wrote is what was asked for; the invariant
  relates each line to `demand` and `chosen`. `AttributionCorrect`: every action that deletes items clears the references
  to them in all runs, and a pending replacement cannot bring one back.
: Of `Solver`, `RowsCorrect`, `CheapestCorrect`, `InfeasibleCorrect` and `ExportCorrect`, for any rows, price tables, policies and
  categories and any rule for halves (`RoundedUp`), from `SolverAssumption` (finitely many materials and suppliers, material ids ordered as numbers). `SolverInv` says
  that the table and the rows are inputs, what has been split, and of an answer that it is the export of an optimal
  solution; the rest is about one computation. `PlanIsCheapest` compares the plan with every choice of suppliers, in two halves: a
  solution never costs less than its choice really does (`SolutionCosts`), and every acceptable choice is a
  solution at exactly its real cost (`ChoiceIsSolution`), with `free` where the threshold is reached and `diff` where
  a category is split. For both, `FreeLinked` has to say "total reaches the threshold" for every total there can be: the
  big-M, threshold plus the largest total, is large enough because an order total is at most `MaxOrderTotal` (`FreeIs`,
  `FreeIsLinked`). The objective adds costs by material, a real bill by supplier; that they are one sum is
  `AmountsAddUp`, from `TotalByGroups`. The second half is also why `InfeasibleMeansNone` holds.
  All of this is in rounded cents; a rounded price is off by half a cent at most (`CentsAre`), a bill by that for each piece (`ListIs`),
  which gives the bound at the stored prices.
  `RowsCorrect` has `Qty` of a material as that of its last solvable row, so a row that is neither reported nor planned with its need has a later one.
: Of both, `SolverAnswersRun`: when the price table holds only offers of `Offer`, the proposal is a pick `RunSolved` admits, its lines
  have the quantities, prices and totals proposed, and `SolverSummary`, which stores `below_min_order = False`, is the proposed summary.

`PlanRace_proofs`
: `OriginalCorrect`, with `RaceInv`: whatever a request has read of a line, it knows the solver's choice (`Knows`, `HasRead`), so
  an UPDATE that mixes with another still writes that choice, or leaves it. `LoneCorrect`, with `LoneInv`: while a request is
  alone, the row it read is the stored row and the summaries it read are the stored ones (`Undisturbed`), so its view of
  the lines after the flush is the table after its commit (`WrittenOverRead`, `UndisturbedView`), and what it rebuilds is exact.
  `SerialCorrect`, with `SerialInv`: without overlap an open request is alone, and summaries and lines are exact between
  requests; `TypesInv` adds that sums are numbers, so that the type invariant of the run is part of the theorem.

`OrderRace_proofs`
: `ItemsCorrect`, `LoneSucceeds` and `SerialCorrect`, for any finite sets of materials and suppliers and any answers. `OrdersInv`
  says of the tables that an order has an item and a price points only at items of its own pair, and of each kind of
  request what it holds (a creation has gathered no empty list of lines; a batch's rows are rows of its order). The argument is
  `Grown`: an order only gains items or goes, so what a request holds stays true over the steps of others (`GoodKept`).
  `AloneInv` for `LoneSucceeds`: a request that is alone is the only one open, and what it found at its last statement
  is still so (`Prepared`). `SerialInv` for `SerialCorrect`: one request at a time, and the draft a replacement has chosen does
  not list the material. New orders are distinct lists because `SetToSeq` is an injection (`SequenceOfSet`).
  `CoverCorrect`, with `ListInv` and `CoverInv`. `ListInv`: until two overrides have held the list at once, every supplier with a line is
  listed, an override that has read the list has read the one stored, and what it is going to write names every supplier of the
  plan it leaves (`Writes`). `CoverInv`: while a creation is alone, the lines it has gathered for a supplier are that supplier's
  lines, the listed suppliers it is to order from are those it has still to read, has read, or has found without lines, and what it was told
  to replace is among the orders it removes (`Covering`). `SetToSeq` puts every line into exactly one place.

`Prices_proofs`
: `TypeCorrect`, `OneActiveCorrect` and `StaysPricedCorrect`, for any number of workers, prices and rows. The
  inductive invariant `PricesInv` adds `IdsInOrder` (no row has an id not yet given out, so an
  insert overwrites nothing) and `RequestsReady` (what the request holds at each of its statements:
  a request that inserts has a row to insert, one that has closed rows will insert).
  `ImplementsPriceCell`: the refinement. Initial states map to initial states, and each step to a
  `Publish`, `RecordEnded`, `Withdraw` or a stutter; a commit that closes one row and inserts another is one
  `Publish` because `OneActive` leaves no other row to be read in between.

`Ingestion_proofs`
: `ApprovedCorrect` and `AppliedCorrect`, for any number of reviewers, imports, files and materials. The
  second is not inductive: an UPDATE that names one of the two columns keeps the other as some
  other request left it. `ReviewInv` adds `Explained`: whatever `matched_material_id` now holds, it is what
  the request has read, or a material another request has priced and taught, or `NULL` because the material it
  read is gone or a deletion has cleared a newer match (`wiped`). Of an applied entry, `Backed` names the material booked for it, which
  a deletion cannot take because its price and alias refuse that, even where it clears the entry's column. The rest is that prices and aliases only grow, that a deleted material has neither, and that
  no id of the starting catalogue returns.
  `MarkedCorrect` states `DecidedMeansApproved`: when the last entry of an import is decided, the request that decided it is
  between its two commits, and its second commit reads the entries again; what one reviewer has
  decided stays decided for the other. `MatchedOnceCorrect`, `ReachReviewCorrect`, `FlaggedCorrect`, with `UploadInv`, for files of
  any length: the chunks cover the pages, the lines read so far are those of the chunks read, the
  lines matched are one of each group of copies, and what is stored has an entry for every member of a group. `TablesInv` is the types.
: Of `Responses`, `SerialLinksCorrect`, with `ReplyInv`: without overlap one request is open at most, and what it read is still so
  (`StillSo`: no row has taught its spelling, or the row it will rewrite has, or has been deleted). `SilentPriceCorrect`, for all amounts:
  `HalfUpNear` (rounding is off by half the divisor at most) and the cent that `off` allows. `PostMatchCorrect`,
  for answers of any length: the fold of the loop is a chain of single lines (`LineByLine`); before each line the items
  linked are those the lines so far name, and of an unmatched line the items it fits are those it is the first to name, of
  which there is one at most (`FitsAreFirst`, `LineMatched`).

`CatalogSync_proofs`
: `StaysWellformed`, `NumbersStayUnique` and `NewerCorrect` for any sheet, catalogue and commits of others. `Wellformed` says that the
  transaction sees the committed catalogue with its own materials added behind it, that no closing is pending for the price of a pair
  somebody committed one for since the script last read it, nor of a material the sheet does not name, and what the script is at in each
  step, `version_price`'s two included. `NewerCorrect` is about every step, not the commit alone: closings reach `work` at each flush. `StaysFaithful`, `PredictionCorrect` and `LastWordCorrect`: `Exact` says where an undisturbed script is after some rows and
  cells, in terms of the sheet and the catalogue it started from: the materials and numbers the rows so far have created, the
  report so far, the prices of the pairs done, and those of the pairs to come as they were. The dry run counts the same rows, so at
  the end the two reports are one. The condition `Distinct` (descriptions that differ by more than white space) is that
  of the properties: a repeated description makes two materials, see section 4.

`Access_proofs`
: `SessionsCorrect`, `AdminCorrect` and `LogoutCorrect`, for any accounts, sessions, times and overlap. `AccessInv` adds
  `RequestsGood`: the expiry a request has computed keeps to the limits of the row it has read, and that row's creation
  time is the stored one. The key lemma is `TouchedBounded`: an UPDATE that writes only some of the columns still leaves a bounded
  row, because `expires_at` and `last_seen_at` are computed from one instant. It needs `Idle <= Absolute`.

`ReferenceData_proofs`
: `ContactsCorrect` and `DeletionCorrect` from `DataInv`: the types of rows, what each request holds, and `Steady`: a row
  once there is never recreated and the owner of an office, a contact or an alias never changes, so that what a
  request checked of owners stays true although it is not locked, except that rows go, and then the foreign
  keys refuse. `NumbersCorrect`, with `NumbersInv` and `SkuInv`: the open creation of a category holds its counter as its number and there is only one, and committed numbers are
  behind the counter; live categories have different prefixes (`Prefixed`), live materials different SKUs (`Labelled`, for the unique column refuses others), and a
  category an open creation counts in stays, for its row is held (`Held`). Equal SKUs then mean equal prefixes, so of two live
  categories one, or one that is gone. `PolicyCorrect`: what a request read of a policy is a policy, and what it writes differs at
  its key only. Besides the types of the constants they assume that `NULL` and `GONE` are no rows.

The proofs assume only the named `ASSUME`s of the modules, which TLC evaluates in every run: types of the constants,
that `NULL` is no value beside which it stands, that the tables of materials and suppliers are finite where sums or lists
are made from them, and that a catalogue at the start is one the code has left. The
constants bounding a history (`MaxRequests`, `MaxRuns`, `MaxRows`) are arbitrary in the theorems.

**How data is reasoned about.** The sheet, the pages of a file and the lines of a supplier are gone through one by one, and what
holds of all of them is shown by a smallest counterexample: `LeastNat` (a nonempty set of numbers has a least one) and
`LeastSet` (of finite sets, one without a proper part in the collection), both from the well-foundedness theorems of the
library. Recursion is by recursive functions, whose existence is itself such an argument (`StepByStep`). A sum over a finite
set unfolds in the same way (`AddsExists`, `AddsUnique`, `SumIsNat`); `Procurement_proofs` and `PlanRace_proofs`
each carry these lemmas, because no module can extend both specifications, whose variables have the same names. The names of `Solver` and
`Responses` are their own (`SolverNext`, `ReplyNext`), so that a proof module can extend them beside another model. What
`FoldLeft` computes has no theorem in the library; its definition is unfolded once, in `PostMatchIsFold`.

**Only model-checked.** `EveryOverrideEnds`, as liveness is out of the prover's reach. Every other property of a passing run is
also a theorem. That the faulty definitions of section 6 are noticed, and the two disagreements of section 4, are TLC's findings.

## 6. Faults the properties notice

Definitions marked "faulty" are used by no other definition. Each is a plausible mistake in the
definition that follows it, and putting it in that one's place makes a run fail:

| faulty | mistake | noticed by |
|---|---|---|
| `SurplusRecorded` | stores the surplus instead of the need | `TypeOK` |
| `DemandFromQuantity` | takes an inflated quantity for the need | `DemandPreserved` |
| `LastOrigin` | overwrites the origin on every override | `OriginalSurvivesRaces` |
| `NeverDropped`, `InPlaceOnly` | keeps the summary of a supplier without lines; adds none for a new supplier | `SummariesMatchLines`; `PlanFullyOrdered`, `SerialPlanIsExact` |
| `RefsKept` | deletes items without clearing the references | `AttributionIsLive` |
| `ConflictingIfNotDeclined` | ignores confirmed prices on a declined draft | `UnaskedCreateIsHarmless` |
| `ViewUnflushed` | rebuilds before the flush | `LoneOverrideRepairs` |
| `NobodyElseRead` | a read that locks | `EveryOverrideEnds` |
| `EmptyToo` | makes an order for a supplier whose lines have gone | `OrdersHaveItems` |
| `OneDraftOnly` | does not look whether the draft has the material | `SerialDraftsUnambiguous` |
| `UnlinkNothing` | deletes items prices refer to | `LoneRequestSucceeds` |
| `NeverAppended` | rebuilds entries in place only: a supplier new to the run is never listed | `LoneCreateCoversPlan` |
| `IndexIgnored` | no unique index | `OneActive`, `IsPriceCell` |
| `CloseAtOnce` | the closing commits by itself | `StaysPriced` |
| `QtyOfFirst` | takes the need of a material's first row | `RowsPlannedOrSuperseded` |
| `FeeOfEveryUsed`, `MaxTotalOfNeed`, `FreeIgnored` | prices delivery that is free; big-M from the need; exports the fee all the same | `PlanIsCheapest`; `InfeasibleMeansNone`; `ExportIsReal` |
| `ChunksApart` | the next chunk starts two pages on | `PrintedMatchedOnce` |
| `RepresentativesOnly`, `FollowersOnly` | stores no copies; flags only copies | `MatchesReachReview`; `SameMaterialIsFlagged` |
| `UndecidedMatches`, `NotApplied` | approves over lines without a proposal; waits for skipped lines | `ApprovedMeansDecided`; `DecidedMeansApproved` |
| `CascadeDeletable` | a deletion takes prices and aliases along | `AppliedIsPriced` |
| `InsertsAlways` | a confirmed link adds a second alias instead of rewriting the first | `SerialLinksUnambiguous` |
| `PerPricedUnit` | divides a total by the priced units instead of the pieces | `SilentPriceAddsUp` |
| `EligibleAgain` | an item already matched may be matched again | `PostMatchIsExact` |
| `OfficeExists` | any office will do for a contact | `ContactOfficeIsOwn` |
| `CountUnlocked` | reads the counter without the row's lock | `ClashOnlyOnReusedPrefix` |
| `PassiveDeletes` | leaves aliases to the database's cascade | `DeletionSparesHistory` |
| `Replaced` | a partial policy resets the keys it does not name | `PartialPolicyKeepsTheRest` |
| `Slid` | a renewal without the ceiling | `SessionsBounded` |
| `OtherAdmin` | counts administrators who are not active | `LastAdminStays` |
| `WholeObject` | a renewal inserts the row it no longer finds | `LogoutIsFinal` |
| `NumberUncounted` | the dry run gives every new material the stored number | `AppliedAsPredicted` |
| `CaseOfPriced` | a blank cell leaves the price | `FileHasLastWord` |
| `FlushedByPair` | closes whatever price the pair has at the flush | `NewerPriceSurvives` |

## 7. What is not modelled

- HTTP validation and serialisation, what the language model reads and answers, tokens and cookies of the identity provider.
- Sales tax (`allocation/tax.py`): a pure function of one amount. Whether an order carries a taxed amount is in `Procurement`.
- Price comparison (`allocation/price_comparison.py`): a report over one run that nothing reads.
- One-off scripts (`import_real_data.py`, `seed.py`, the backfills): they run by hand on a quiet database, in one transaction.
- Rate limits, configuration and start-up: library wiring, except `bootstrap_admin`, which is `Access!Restart`.
- The web client: no state of record.
- That an upload (`api/price_ingestion.py:137`) or the parsing of a response (`api/order.py:422`) blocks the event loop: with one process it makes
  other requests wait, and no property of the stored state depends on it.

Money is integer throughout. `Solver` takes unit prices in thousandths, as they are stored, and rounds them where the code does; `Responses` computes in
thousandths. `Procurement` has one unit for both: an override there multiplies and adds the exact price, while the code rounds the total of each line to cents when it rebuilds a
summary (`allocation/service.py:280`), and the rounding of other `NUMERIC` columns is outside the models.
`split_categories` after an override is recomputed by the same function as after a run and is in `Solver` only. `ReferenceData` leaves out
names and display order; `CatalogSync` units, colours and the report on mismatched categories. The total of an order under
overlapping requests is in neither `Procurement` (one request at a time) nor `OrderRace` (no amounts). A category's deletion and its reuse are in `ReferenceData` only.

What could come next: amounts in `OrderRace`, and with them the total of a draft under overlapping requests; that `PlanRace` without
overlap implements `Procurement!OverrideLine`, as `Prices` does `PriceCell`; three workers.
