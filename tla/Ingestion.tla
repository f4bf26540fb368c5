------------------------------ MODULE Ingestion ------------------------------
(***************************************************************************)
(* Price lists of one supplier, from the uploaded file to the reviewed     *)
(* import.  An upload runs in one request: page chunks are read by a pool  *)
(* of threads, lines are matched by another pool, one transaction stores   *)
(* the entries.  Reviewers apply entries one by one, each request with two *)
(* commits: the entry with what follows from it, then the import's status. *)
(* Materials are deleted meanwhile, the entries that name one first read,  *)
(* then changed.  Requests overlap; an UPDATE names only the columns the   *)
(* request changed.                                                        *)
(* Sources: app/price_ingestion/{extraction,dedup,matching,retry,          *)
(* candidates,service,apply}.py, app/api/{price_ingestion,material}.py.    *)
(* The language model is external: it reads every printed line, spells it  *)
(* somehow, matches it with anything, and any call may fail.               *)
(***************************************************************************)
EXTENDS Integers, FiniteSets, FiniteSetsExt, SequencesExt

CONSTANTS
  Known,         (* materials of the catalogue at the start                *)
  Fresh,         (* ids for materials a review creates                     *)
  Ghost,         (* an id the model makes up, no material's                *)
  Spellings,     (* Spellings[n]: what a line printed as n may be read as  *)
  Reviewers,     (* apply requests that may be open at the same time       *)
  Deleters,      (* deletions of materials that may be open at that time   *)
  NULL,
  PagesPerChunk, (* DEFAULT_PAGES_PER_CHUNK                                *)
  MaxAttempts,   (* MAX_ATTEMPTS of call_with_retry                        *)
  Learned,       (* what earlier imports may have left in table aliases    *)
  Files,         (* the files suppliers send: pages, and the printed lines *)
  Imports,       (* bound: ids of imports                                  *)
  MaxApplies,    (* bound: apply requests of one history                   *)
  MaxDeletions   (* bound: materials deleted in one history                *)

Materials == Known \cup Fresh
RawNames  == UNION {Spellings[n] : n \in DOMAIN Spellings}

ASSUME IngestionAssumption ==
  /\ Known \cap Fresh = {} /\ Ghost \notin Materials
  /\ NULL \notin Materials \cup {Ghost} /\ NULL \notin {"match", "new", "skip"}
  /\ \A n, k \in DOMAIN Spellings : n # k => Spellings[n] \cap Spellings[k] = {}
  /\ Learned \subseteq SUBSET (RawNames \X Known)
  /\ PagesPerChunk \in Nat \ {0, 1}
  /\ MaxAttempts \in Nat \ {0}
  /\ \A f \in Files :
       /\ f.pages \in Nat \ {0}
       /\ f.printed \in Seq([name : DOMAIN Spellings, page : 0 .. f.pages - 1])
  /\ MaxApplies \in Nat

VARIABLES
  catalog,  (* ids in table materials                                      *)
  aliases,  (* price_import aliases, as <<raw name, material>>             *)
  imports,  (* the stored imports by id, with their entries by line number *)
  priced,   (* <<import, material>>: the import has written this price     *)
  phase,    (* what the upload is doing                                    *)
  printed,  (* the lines printed in its file, page by page                 *)
  chunks,   (* the page chunks of its file                                 *)
  unread,   (* the chunks no call has answered yet                         *)
  found,    (* found[c]: the lines read from chunk c                       *)
  lines,    (* the lines to match, in chunk order                          *)
  shown,    (* the catalogue the upload has read                           *)
  decided,  (* decided[i]: the decision on representative i, or NULL       *)
  broken,   (* a call of the upload has raised an exception                *)
  req,      (* req[r]: the apply request r serves, or NULL                 *)
  deleting, (* deleting[d]: the deletion d serves, or NULL                 *)
  wiped,    (* history: entries whose newer match a deletion has cleared   *)
  unmarked, (* history: imports with an apply stopped before its 2nd commit*)
  applies   (* bound: apply requests so far                                *)

fileVars   == <<printed, chunks, unread, found>>
matchVars  == <<lines, shown, decided>>
tableVars  == <<catalog, aliases, imports, priced>>
reviewVars == <<req, unmarked, applies>>
deleteVars == <<deleting, wiped>>
vars == <<tableVars, phase, fileVars, matchVars, broken, reviewVars, deleteVars>>

-----------------------------------------------------------------------------
(* Faulty: the next chunk starts two pages after the last page read. *)
ChunksApart(total) ==
  LET from[start \in 0 .. total - 1] ==
        LET end == Min({start + PagesPerChunk - 1, total - 1})
        IN <<start .. end>> \o IF end >= total - 2 THEN <<>> ELSE from[end + 2]
  IN from[0]

(* The pages of a file, in chunks that share their border page. *)
PageChunks(total) ==
  LET from[start \in 0 .. total - 1] ==
        LET end == Min({start + PagesPerChunk - 1, total - 1})
        IN <<start .. end>> \o IF end >= total - 1 THEN <<>> ELSE from[end]
  IN from[0]

(* The lines printed on the given pages, in order. *)
PrintedOn(p) ==
  LET upto[n \in 0 .. Len(printed)] ==
        IF n = 0 THEN <<>>
        ELSE IF printed[n].page \in p THEN Append(upto[n - 1], printed[n]) ELSE upto[n - 1]
  IN upto[Len(printed)]

(* What a call may read on the given pages: every line, spelled somehow.   *)
Readings(p) ==
  LET part == PrintedOn(p)
  IN {[i \in DOMAIN part |-> [name |-> raw[i], page |-> part[i].page]] :
        raw \in {r \in [DOMAIN part -> RawNames] : \A i \in DOMAIN part : r[i] \in Spellings[part[i].name]}}

(* How an attempt ends: "limited" is a RateLimitError, "error" any other   *)
(* exception; "exhausted" is the RetryExhaustedError.                      *)
Attempts == [1 .. MaxAttempts -> {"ok", "limited", "error"}]

CallWithRetry(ends) ==
  LET final == {a \in 1 .. MaxAttempts : ends[a] # "limited"}
  IN IF final = {} THEN "exhausted" ELSE ends[Min(final)]

(* _decide_match turns every APIError, a RateLimitError too, into a        *)
(* PriceIngestionError.                                                    *)
DecideMatch(end) == IF end = "ok" THEN "ok" ELSE "error"

Normal(raw) == CHOOSE n \in DOMAIN Spellings : raw \in Spellings[n]
SameKey(k, l) == k.page = l.page /\ Normal(k.name) = Normal(l.name)

(* group_duplicate_lines: the first line of the page with the same name.   *)
Representative(ls, i) == Min({j \in 1 .. i : SameKey(ls[j], ls[i])})

Decision == [action : {"match", "not_found"}, material : Materials \cup {NULL}, failed : BOOLEAN]
NotFound == [action |-> "not_found", material |-> NULL, failed |-> FALSE]
MatchOf(m) == [action |-> "match", material |-> m, failed |-> FALSE]

(* A match with no material of the catalogue shown is not one. *)
Downgraded(m) == IF m \in shown THEN MatchOf(m) ELSE NotFound

(* A line inherits the decision on its representative. *)
DecisionOf(i) == decided[Representative(lines, i)]

SameMatch(i, j) ==
  /\ DecisionOf(i).action = "match" /\ DecisionOf(j).action = "match"
  /\ DecisionOf(i).material = DecisionOf(j).material

(* Faulty: flags chunk-overlap lines only. *)
FollowersOnly(i) == {Representative(lines, i)} \ {i}

Duplicates(i) == ({Representative(lines, i)} \cup {j \in DOMAIN lines : SameMatch(i, j)}) \ {i}

(* Faulty: drops the lines that only inherit. *)
RepresentativesOnly ==
  {i \in DOMAIN lines : Representative(lines, i) = i /\ DecisionOf(i).action = "match"}

Kept == {i \in DOMAIN lines : DecisionOf(i).action = "match" \/ DecisionOf(i).failed}

NewEntries ==
  [i \in Kept |->
     [name |-> lines[i].name, matched |-> DecisionOf(i).material, action |-> NULL,
      failed |-> DecisionOf(i).failed, links |-> Duplicates(i) \cap Kept]]

-----------------------------------------------------------------------------
Init ==
  /\ catalog = Known /\ aliases \in Learned /\ imports = <<>> /\ priced = {}
  /\ phase = "idle" /\ broken = FALSE
  /\ printed = <<>> /\ chunks = <<>> /\ unread = {} /\ found = <<>>
  /\ lines = <<>> /\ shown = {} /\ decided = <<>>
  /\ req = [r \in Reviewers |-> NULL] /\ unmarked = {} /\ applies = 0
  /\ deleting = [d \in Deleters |-> NULL] /\ wiped = {}

StartUpload(file) ==
  /\ phase \in {"idle", "refused"} /\ DOMAIN imports # Imports
  /\ phase' = "extracting"
  /\ printed' = file.printed
  /\ chunks' = PageChunks(file.pages)
  /\ unread' = DOMAIN chunks'
  /\ found' = [c \in DOMAIN chunks' |-> <<>>]
  /\ broken' = FALSE
  /\ UNCHANGED <<tableVars, matchVars, reviewVars, deleteVars>>

(* One call of the extraction pool. *)
ReadChunk(c) ==
  /\ phase = "extracting"
  /\ unread' = unread \ {c}
  /\ \E ends \in Attempts :
       LET ok == CallWithRetry(ends) = "ok"
       IN /\ \E read \in (IF ok THEN Readings(chunks[c]) ELSE {<<>>}) :
               found' = [found EXCEPT ![c] = read]
          /\ broken' = (broken \/ ~ok)
  /\ UNCHANGED <<tableVars, phase, printed, chunks, matchVars, reviewVars, deleteVars>>

(* The pool is done: group the lines and look representatives up among the *)
(* aliases, any alias of the exact spelling.                               *)
StartMatching ==
  /\ phase = "extracting" /\ unread = {} /\ ~broken
  /\ phase' = "matching"
  /\ lines' = FlattenSeq(found)
  /\ shown' = catalog
  /\ \E pick \in [DOMAIN lines' -> Materials \cup {NULL}] :
       LET known(i) == {m \in Materials : <<lines'[i].name, m>> \in aliases}
       IN /\ \A i \in DOMAIN lines' : IF known(i) = {} THEN pick[i] = NULL ELSE pick[i] \in known(i)
          /\ decided' = [i \in {j \in DOMAIN lines' : Representative(lines', j) = j} |->
                           IF pick[i] = NULL THEN NULL ELSE MatchOf(pick[i])]
  /\ UNCHANGED <<tableVars, fileVars, broken, reviewVars, deleteVars>>

(* One call of the matching pool, for a line no alias decides. *)
MatchLine(i) ==
  /\ phase = "matching" /\ decided[i] = NULL
  /\ \E ends \in Attempts, answer \in Materials \cup {Ghost, NULL} :
       LET end == CallWithRetry([a \in DOMAIN ends |-> DecideMatch(ends[a])])
       IN /\ end # "ok" => answer = NULL
          /\ decided' = [decided EXCEPT ![i] =
               IF end = "ok" THEN Downgraded(answer)
               ELSE [NotFound EXCEPT !.failed = (end = "exhausted")]]
          /\ broken' = (broken \/ end = "error")
  /\ UNCHANGED <<tableVars, phase, fileVars, lines, shown, reviewVars, deleteVars>>

Matched == phase = "matching" /\ \A i \in DOMAIN decided : decided[i] # NULL

ForgetFile == /\ printed' = <<>> /\ chunks' = <<>> /\ unread' = {} /\ found' = <<>>
              /\ lines' = <<>> /\ shown' = {} /\ decided' = <<>>

(* The transaction of create_price_list_import. *)
StoreImport ==
  /\ Matched /\ ~broken
  /\ \A i \in Kept : DecisionOf(i).action = "match" => DecisionOf(i).material \in catalog
  /\ \E k \in Imports \ DOMAIN imports :
       imports' = [j \in DOMAIN imports \cup {k} |->
         IF j = k THEN [status |-> "pending_review", entries |-> NewEntries] ELSE imports[j]]
  /\ phase' = "idle" /\ broken' = FALSE
  /\ ForgetFile
  /\ UNCHANGED <<catalog, aliases, priced, reviewVars, deleteVars>>

(* A pool has raised: the upload ends with an error and stores nothing. *)
RefuseUpload ==
  /\ broken
  /\ Matched \/ (phase = "extracting" /\ unread = {})
  /\ phase' = "refused"
  /\ ForgetFile
  /\ UNCHANGED <<tableVars, broken, reviewVars, deleteVars>>

(* Any other failure: the server stops, or a matched material is gone and  *)
(* the foreign key refuses the entry.                                      *)
LoseUpload ==
  /\ phase \in {"extracting", "matching"}
  /\ phase' = "refused"
  /\ ForgetFile
  /\ UNCHANGED <<tableVars, broken, reviewVars, deleteVars>>

-----------------------------------------------------------------------------
Entry(k, e) == imports[k].entries[e]

(* Faulty: takes lines without a proposal for skipped. *)
UndecidedMatches(k) ==
  {e \in DOMAIN imports[k].entries : Entry(k, e).action = NULL /\ Entry(k, e).matched # NULL}

(* Faulty: takes skipped lines for undecided. *)
NotApplied(k) == {e \in DOMAIN imports[k].entries : Entry(k, e).action \notin {"match", "new"}}

Undecided(k) == {e \in DOMAIN imports[k].entries : Entry(k, e).action = NULL}

(* POST .../entries/{id}/apply: the checks, and the entry as it is read. *)
LoadEntry(r, k, e, action, target) ==
  /\ req[r] = NULL /\ applies < MaxApplies
  /\ action = "match" <=> target \in catalog
  /\ req' = [req EXCEPT ![r] =
       [import |-> k, entry |-> e, action |-> action, target |-> target,
        seen |-> [action |-> Entry(k, e).action, matched |-> Entry(k, e).matched], saved |-> FALSE]]
  /\ applies' = applies + 1
  /\ UNCHANGED <<tableVars, phase, fileVars, matchVars, broken, unmarked, deleteVars>>

(* The entry's columns after the UPDATE: those the request has changed. *)
Saved(entry, q, matched) ==
  [entry EXCEPT !.action  = IF q.seen.action = q.action THEN @ ELSE q.action,
                !.matched = IF q.seen.matched = matched THEN @ ELSE matched]

(* The first commit: the entry and, unless skipped, price and alias; for   *)
(* "new" the material too.                                                 *)
CommitEntry(r) ==
  /\ req[r] # NULL /\ ~req[r].saved
  /\ LET q == req[r]
         e == Entry(q.import, q.entry)
         save(m) == imports' = [imports EXCEPT ![q.import].entries[q.entry] = Saved(e, q, m)]
         book(m) == /\ priced' = priced \cup {<<q.import, m>>}
                    /\ aliases' = aliases \cup {<<e.name, m>>}
     IN \/ /\ q.action = "skip"
           /\ save(q.seen.matched)
           /\ UNCHANGED <<catalog, aliases, priced>>
        \/ /\ q.action = "match" /\ q.target \in catalog
           /\ save(q.target) /\ book(q.target)
           /\ UNCHANGED catalog
        \/ /\ q.action = "new"
           /\ \E m \in Fresh \ catalog :
                save(m) /\ book(m) /\ catalog' = catalog \cup {m}
  /\ req' = [req EXCEPT ![r].saved = TRUE]
  /\ UNCHANGED <<phase, fileVars, matchVars, broken, unmarked, applies, deleteVars>>

(* maybe_mark_import_approved, the second commit. *)
MarkImport(r) ==
  /\ req[r] # NULL /\ req[r].saved
  /\ LET k == req[r].import
     IN /\ imports' = IF Undecided(k) = {} THEN [imports EXCEPT ![k].status = "approved"] ELSE imports
        /\ unmarked' = unmarked \ {k}
  /\ req' = [req EXCEPT ![r] = NULL]
  /\ UNCHANGED <<catalog, aliases, priced, phase, fileVars, matchVars, broken, applies, deleteVars>>

(* A failed statement or a stop: what is not committed is gone. *)
CutApply(r) ==
  /\ req[r] # NULL
  /\ unmarked' = IF req[r].saved THEN unmarked \cup {req[r].import} ELSE unmarked
  /\ req' = [req EXCEPT ![r] = NULL]
  /\ UNCHANGED <<tableVars, phase, fileVars, matchVars, broken, applies, deleteVars>>

(* Faulty: lets the deletion cascade. *)
CascadeDeletable(m) == m \in Known

(* Prices and aliases of a material cannot lose it: their columns are NOT  *)
(* NULL.                                                                   *)
Deletable(m) == (\A p \in priced : p[2] # m) /\ (\A a \in aliases : a[2] # m)

(* DELETE /materials/{id}: the flush first reads the entries that name the *)
(* material.                                                               *)
LoadReferences(d, m) ==
  /\ deleting[d] = NULL /\ Cardinality(Known \ catalog) < MaxDeletions
  /\ m \in catalog /\ Deletable(m)
  /\ deleting' = [deleting EXCEPT ![d] =
       [material |-> m,
        entries |-> {ke \in UNION {{k} \X DOMAIN imports[k].entries : k \in DOMAIN imports} :
                       Entry(ke[1], ke[2]).matched = m}]]
  /\ UNCHANGED <<tableVars, phase, fileVars, matchVars, broken, reviewVars, wiped>>

(* Then it clears the reference of each by its id, whatever the entry      *)
(* names by now, and deletes the row; an entry that has come to name the   *)
(* material since, a price or an alias refuses that.                       *)
CommitDelete(d) ==
  /\ deleting[d] # NULL
  /\ LET m     == deleting[d].material
         read  == deleting[d].entries
         Clear(k, e) == [Entry(k, e) EXCEPT !.matched = NULL]
     IN /\ m \in catalog /\ Deletable(m)
        /\ \A k \in DOMAIN imports : \A e \in DOMAIN imports[k].entries :
             Entry(k, e).matched = m => <<k, e>> \in read
        /\ catalog' = catalog \ {m}
        /\ imports' = [k \in DOMAIN imports |-> [imports[k] EXCEPT !.entries =
             [e \in DOMAIN @ |-> IF <<k, e>> \in read THEN Clear(k, e) ELSE @[e]]]]
        /\ wiped' = wiped \cup {ke \in read : Entry(ke[1], ke[2]).matched # m}
  /\ deleting' = [deleting EXCEPT ![d] = NULL]
  /\ UNCHANGED <<aliases, priced, phase, fileVars, matchVars, broken, reviewVars>>

(* A refused or stopped deletion. *)
CutDelete(d) ==
  /\ deleting[d] # NULL
  /\ deleting' = [deleting EXCEPT ![d] = NULL]
  /\ UNCHANGED <<tableVars, phase, fileVars, matchVars, broken, reviewVars, wiped>>

-----------------------------------------------------------------------------
Next ==
  \/ \E file \in Files : StartUpload(file)
  \/ \E c \in unread : ReadChunk(c)
  \/ StartMatching
  \/ \E i \in DOMAIN decided : MatchLine(i)
  \/ StoreImport
  \/ RefuseUpload
  \/ LoseUpload
  \/ \E r \in Reviewers, k \in DOMAIN imports : \E e \in DOMAIN imports[k].entries :
       \E action \in {"match", "new", "skip"}, target \in catalog \cup {NULL} :
         LoadEntry(r, k, e, action, target)
  \/ \E r \in Reviewers : CommitEntry(r) \/ MarkImport(r) \/ CutApply(r)
  \/ \E d \in Deleters : CommitDelete(d) \/ CutDelete(d) \/ \E m \in Known : LoadReferences(d, m)

Spec == Init /\ [][Next]_vars

-----------------------------------------------------------------------------
EntryRow ==
  [name : RawNames, matched : Materials \cup {NULL}, action : {NULL, "match", "new", "skip"},
   failed : BOOLEAN, links : SUBSET Nat]

Request ==
  [import : Imports, entry : Nat, action : {"match", "new", "skip"}, target : Materials \cup {NULL},
   seen : [action : {NULL, "match", "new", "skip"}, matched : Materials \cup {NULL}],
   saved : BOOLEAN]

Deletion == [material : Known, entries : SUBSET (Imports \X Nat)]

(* No request is taken for the absence of one. *)
ASSUME NoRequestAssumption == NULL \notin Request /\ NULL \notin Deletion

(* Type invariant: the tables hold materials that exist or NULL, what the  *)
(* upload holds fits its phase.                                            *)
TypeOK ==
  /\ catalog \subseteq Materials
  /\ aliases \subseteq RawNames \X catalog
  /\ priced \subseteq (DOMAIN imports) \X catalog
  /\ DOMAIN imports \subseteq Imports
  /\ \A k \in DOMAIN imports :
       /\ imports[k].status \in {"pending_review", "approved"}
       /\ \A e \in DOMAIN imports[k].entries : 
            Entry(k, e) \in EntryRow /\ Entry(k, e).matched \in catalog \cup {NULL}
  /\ phase \in {"idle", "extracting", "matching", "refused"}
  /\ unread \subseteq DOMAIN chunks /\ DOMAIN found = DOMAIN chunks
  /\ DOMAIN decided \subseteq DOMAIN lines
  /\ \A i \in DOMAIN decided : decided[i] \in Decision \cup {NULL}
  /\ shown \subseteq Materials
  /\ broken \in BOOLEAN
  /\ req \in [Reviewers -> Request \cup {NULL}]
  /\ deleting \in [Deleters -> Deletion \cup {NULL}] /\ wiped \subseteq Imports \X Nat
  /\ unmarked \subseteq DOMAIN imports
  /\ applies \in 0 .. MaxApplies

(* Types; and every printed line gets one decision: border pages are read  *)
(* twice, and the chunks of extract_price_list_lines and the groups of     *)
(* group_duplicate_lines together neither lose a line nor match it twice.  *)
PrintedMatchedOnce ==
  TypeOK /\ (phase = "matching" =>
    LET keys == {[name |-> Normal(lines[i].name), page |-> lines[i].page] : i \in DOMAIN decided}
    IN /\ keys = ToSet(printed)
       /\ Cardinality(keys) = Cardinality(DOMAIN decided))

(* Every line of a stored import whose printed position was matched is an  *)
(* entry with that proposal, the copies that only inherit included: "No    *)
(* line is excluded from the batch" (matching.py).                         *)
MatchesReachReview ==
  [][\A k \in DOMAIN imports' \ DOMAIN imports : \A i \in DOMAIN lines, j \in DOMAIN decided :
       SameKey(lines[i], lines[j]) /\ decided[j].action = "match" =>
         /\ i \in DOMAIN imports'[k].entries
         /\ imports'[k].entries[i].matched = decided[j].material]_vars

(* In a stored import two entries point at each other exactly when they    *)
(* propose the same material (_flag_duplicate_lines and the translation of *)
(* its indices to entries).                                                *)
SameMaterialIsFlagged ==
  [][\A k \in DOMAIN imports' \ DOMAIN imports :
       LET new == imports'[k].entries
       IN \A e, f \in DOMAIN new :
            e # f /\ ~new[e].failed => (f \in new[e].links <=> new[e].matched = new[f].matched)]_vars

(* An approved import has no undecided entry left, whatever requests       *)
(* overlap and wherever they stop.                                         *)
ApprovedMeansDecided ==
  \A k \in DOMAIN imports : imports[k].status = "approved" =>
    \A e \in DOMAIN imports[k].entries : Entry(k, e).action # NULL

(* Once every entry is decided and no request is between its commits, the  *)
(* import is approved: two reviewers who finish together cannot both leave *)
(* it to the other.  Exempt are imports with a request stopped in between, *)
(* and empty ones, which no request ever marks.                            *)
DecidedMeansApproved ==
  \A k \in DOMAIN imports \ unmarked :
    /\ DOMAIN imports[k].entries # {}
    /\ \A e \in DOMAIN imports[k].entries : Entry(k, e).action # NULL
    /\ \A r \in Reviewers : req[r] # NULL => ~(req[r].saved /\ req[r].import = k)
    => imports[k].status = "approved"

(* What applying an entry has booked stays: a price of this import and an  *)
(* alias of the entry's name, of one material.  The entry names that       *)
(* material, also when two reviewers apply it at once and their UPDATEs    *)
(* mix; it may name none only if a deletion had read it as naming the      *)
(* material deleted, and cleared the match made since.                     *)
AppliedIsPriced ==
  \A k \in DOMAIN imports : \A e \in DOMAIN imports[k].entries :
    LET booked == {m \in catalog : <<k, m>> \in priced /\ <<Entry(k, e).name, m>> \in aliases}
    IN Entry(k, e).action \in {"match", "new"} =>
         /\ booked # {}
         /\ Entry(k, e).matched \in booked \/ (Entry(k, e).matched = NULL /\ <<k, e>> \in wiped)

=============================================================================
