----------------------------- MODULE Responses -----------------------------
(***************************************************************************)
(* A supplier's reply to an order, read by the language model and matched  *)
(* against the order's items (app/order_response_parser), and the aliases  *)
(* by which an employee teaches the match (the "link" button).  The reply  *)
(* is a preview: it writes nothing.  The order's items are read before the *)
(* call, the aliases after it; both may be changed by other requests while *)
(* the call is out.                                                        *)
(*                                                                         *)
(* The model's answer is arbitrary: any line may name any item, a declined *)
(* one or one that never was.  Amounts are integers in thousandths of a    *)
(* dollar, priced as pricing.py does it; wording, confidence and reasons   *)
(* are left out.  One order of one supplier is followed, with the aliases  *)
(* of that supplier.                                                       *)
(***************************************************************************)
EXTENDS Integers, Sequences, FiniteSets, SequencesExt

CONSTANTS Item,          \* the order's items
          Material,
          Spelling,      \* line descriptions and alias names, as written
          NameOf,        \* [Spelling -> a name]: case and spaces folded
          Alias,         \* alias rows, used once each
          Worker,        \* link requests served at the same time
          None, GONE,
          Invented,      \* an item id the model made up
          MaxLines,      \* bound: lines of an answer
          MaxLinks,      \* bound: link requests
          PriceTag, LineTotal, PricedQuantity, Pieces  \* amounts of a printed line

AliasSet == [spelling : Spelling, material : Material,
             origin : {"price_import", "order_response"}]
LinkSet  == [existing : Alias \union {None}, spelling : Spelling, material : Material]
Copies   == [Item -> [material : Material \union {None}, live : BOOLEAN]]

ASSUME ReplyAssumption ==
  /\ IsFiniteSet(Item) /\ IsFiniteSet(Alias)
  /\ None \notin Item \union Alias \union Material \union Nat
  /\ Invented \notin Item \union {None} /\ GONE # None
  /\ None \notin AliasSet /\ GONE \notin AliasSet /\ None \notin LinkSet /\ None \notin Copies
  /\ PriceTag \subseteq Nat /\ LineTotal \subseteq Nat
  /\ PricedQuantity \subseteq Nat \ {0} /\ Pieces \subseteq Nat \ {0}

VARIABLES items,      \* [Item -> [material, live]]: material None for a raw line
          aliasRows,  \* [Alias -> None, GONE or [spelling, material, origin]]
          tx,         \* [Worker -> None or the open link request]
          overlapped, \* two link requests were open at once
          linkCount,  \* link requests so far
          call,       \* None or the items the model was sent
          preview     \* None or [answer, lines, linked, missing]

replyVars == <<items, aliasRows, tx, overlapped, linkCount, call, preview>>

-----------------------------------------------------------------------------
(* The price of a printed line (pricing.py)                                  *)

RawLine == [printed : PriceTag, basis : {"piece", "linear_foot", "other"},
            total : LineTotal \union {None}, pricedQty : PricedQuantity \union {None},
            quantity : Pieces \union {0}]

Distance(a, b) == IF a < b THEN b - a ELSE a - b
Cent == 10
HalfUp(n, d) == (2 * n + d) \div (2 * d)

PerPricedUnit(amount, raw) ==
  IF raw.pricedQty = None THEN amount ELSE HalfUp(amount, raw.pricedQty)  (* faulty *)

PerPiece(amount, raw) == HalfUp(amount, raw.quantity)

(* A line priced per piece keeps its printed price; one priced otherwise is  *)
(* brought to a piece if it states its pieces and an amount.  What does not  *)
(* add up, or cannot be brought to a piece, is kept with a warning.          *)
NormalizeLine(raw) ==
  LET known == raw.quantity # 0
      off(units) == raw.total # None /\ Distance(raw.printed * units, raw.total) > Cent
  IN IF raw.basis = "piece"
     THEN [price |-> raw.printed, warning |-> known /\ off(raw.quantity)]
     ELSE IF known /\ (raw.total # None \/ raw.pricedQty # None)
     THEN [price |-> PerPiece(IF raw.total # None THEN raw.total
                              ELSE raw.printed * raw.pricedQty, raw),
           warning |-> raw.pricedQty # None /\ off(raw.pricedQty)]
     ELSE [price |-> raw.printed, warning |-> TRUE]

-----------------------------------------------------------------------------
ReplyInit ==
  /\ items \in [Item -> [material : Material \union {None}, live : {TRUE}]]
  /\ \E imported \in [spelling : Spelling, material : Material, origin : {"price_import"}] :
       \/ aliasRows = [a \in Alias |-> None]
       \/ \E a \in Alias : aliasRows = [b \in Alias |-> IF b = a THEN imported ELSE None]
  /\ tx = [w \in Worker |-> None]
  /\ overlapped = FALSE /\ linkCount = 0
  /\ call = None /\ preview = None

(* A draft's item is declined for another supplier's (order_service.py).     *)
Decline(i) ==
  /\ items[i].live
  /\ items' = [items EXCEPT ![i].live = FALSE]
  /\ UNCHANGED <<aliasRows, tx, overlapped, linkCount, call, preview>>

-----------------------------------------------------------------------------
(* Linking a line to a material (create_response_alias)                      *)

There(a) == aliasRows[a] # None /\ aliasRows[a] # GONE

Learnt == {a \in Alias : There(a) /\ aliasRows[a].origin = "order_response"}

(* The alias of exactly this spelling; of several the database may give any. *)
Existing(s) ==
  LET same == {a \in Learnt : aliasRows[a].spelling = s}
  IN IF same = {} THEN {None} ELSE same

InsertsAlways(existing) == FALSE  (* faulty: force records a second alias *)

(* A confirmed link rewrites the alias it conflicts with.                    *)
Rewrites(existing) == existing # None

(* The same link again changes nothing; another material for the spelling is *)
(* refused unless the employee insists.                                      *)
OpenLink(w, s, m, force) ==
  /\ tx[w] = None /\ linkCount < MaxLinks
  /\ \E existing \in Existing(s) :
       /\ existing # None => aliasRows[existing].material # m /\ force
       /\ tx' = [tx EXCEPT ![w] = [existing |-> existing, spelling |-> s, material |-> m]]
  /\ linkCount' = linkCount + 1
  /\ overlapped' = (overlapped \/ \E v \in Worker : tx[v] # None)
  /\ UNCHANGED <<items, aliasRows, call, preview>>

(* The row read is rewritten, unless it was deleted meanwhile (the request   *)
(* then fails); otherwise a row is added: no index makes a spelling unique.  *)
CommitLink(w) ==
  /\ tx[w] # None
  /\ LET t == tx[w]
         learnt == [spelling |-> t.spelling, material |-> t.material,
                    origin |-> "order_response"]
     IN \/ /\ Rewrites(t.existing) /\ There(t.existing)
           /\ aliasRows' = [aliasRows EXCEPT ![t.existing] = learnt]
        \/ /\ Rewrites(t.existing) /\ ~There(t.existing)
           /\ UNCHANGED aliasRows
        \/ /\ ~Rewrites(t.existing)
           /\ \E a \in Alias : /\ aliasRows[a] = None
                               /\ aliasRows' = [aliasRows EXCEPT ![a] = learnt]
  /\ tx' = [tx EXCEPT ![w] = None]
  /\ UNCHANGED <<items, overlapped, linkCount, call, preview>>

(* delete_response_alias undoes a mistaken link; imported names stay.        *)
Unlink(a) ==
  /\ a \in Learnt
  /\ aliasRows' = [aliasRows EXCEPT ![a] = GONE]
  /\ UNCHANGED <<items, tx, overlapped, linkCount, call, preview>>

-----------------------------------------------------------------------------
(* Reading a reply (parse_order_response)                                    *)

(* The order and its items are loaded for the prompt, and kept for the rest. *)
Send ==
  /\ call = None /\ preview = None
  /\ call' = items
  /\ UNCHANGED <<items, aliasRows, tx, overlapped, linkCount, preview>>

Answers == UNION {[1..n -> [text : Spelling, item : Item \union {None, Invented}]] :
                    n \in 0..MaxLines}

(* The learnt aliases whose name is the line's, case and spaces aside.       *)
Candidates(text) == {a \in Learnt : NameOf[aliasRows[a].spelling] = NameOf[text]}


(* The live items of a material that no line has claimed.                    *)
EligibleAgain(m, claimed) ==
  {i \in Item : call[i].live /\ call[i].material = m}  (* faulty *)

Eligible(m, claimed) ==
  {i \in Item : call[i].live /\ call[i].material = m /\ i \notin claimed}

Only(S) == CHOOSE x \in S : TRUE

(* One line of the loop in _apply_alias_post_match.                          *)
PostMatchLine(acc, line) ==
  LET named == Candidates(line.text)
      fits == IF Cardinality(named) = 1
              THEN Eligible(aliasRows[Only(named)].material, acc.claimed) ELSE {}
      hit == line.item = None /\ Cardinality(fits) = 1
      matched == IF hit THEN Only(fits) ELSE line.item
  IN [lines |-> Append(acc.lines, [line EXCEPT !.item = matched]),
      claimed |-> IF hit THEN acc.claimed \union {matched} ELSE acc.claimed,
      linked |-> IF hit THEN acc.linked \union {matched} ELSE acc.linked]

ItemsOf(answer) == {answer[n].item : n \in DOMAIN answer} \ {None}

PostMatch(answer) ==
  FoldLeft(PostMatchLine, [lines |-> <<>>, claimed |-> ItemsOf(answer), linked |-> {}], answer)

(* The answer arrives: lines, the items the aliases added, the items missing.*)
Receive ==
  /\ call # None
  /\ \E answer \in Answers :
       LET done == PostMatch(answer) IN
       preview' = [answer |-> answer, lines |-> done.lines, linked |-> done.linked,
                   missing |-> {i \in Item : call[i].live} \ ItemsOf(done.lines)]
  /\ call' = None
  /\ UNCHANGED <<items, aliasRows, tx, overlapped, linkCount>>

(* The call fails (502): nothing is shown.                                   *)
Fail ==
  /\ call # None
  /\ call' = None
  /\ UNCHANGED <<items, aliasRows, tx, overlapped, linkCount, preview>>

(* Nothing reads a preview but the employee: a behaviour ends with it.       *)
ReplyNext ==
  /\ preview = None
  /\ \/ \E i \in Item : Decline(i)
     \/ \E w \in Worker, s \in Spelling, m \in Material, force \in BOOLEAN :
           OpenLink(w, s, m, force)
     \/ \E w \in Worker : CommitLink(w)
     \/ \E a \in Alias : Unlink(a)
     \/ Send \/ Receive \/ Fail

ReplySpec == ReplyInit /\ [][ReplyNext]_replyVars

-----------------------------------------------------------------------------
(* While link requests come one at a time, a spelling keeps one alias, so    *)
(* that what an employee links is what the next reply is matched with        *)
(* (create_response_alias looks before it writes; no index backs it).        *)
SerialLinksUnambiguous ==
  ~overlapped => \A a, b \in Learnt : aliasRows[a].spelling = aliasRows[b].spelling => a = b

(* Line names item i: it is unmatched, and the one alias of its name says    *)
(* the item's material.                                                      *)
Names(line, i) ==
  /\ line.item = None
  /\ \E a \in Alias : Candidates(line.text) = {a} /\ aliasRows[a].material = call[i].material

Unclaimed(answer) == {i \in Item : call[i].live /\ i \notin ItemsOf(answer)}

(* Unclaimed items that are alone of their material.                         *)
Alone(answer) ==
  {i \in Unclaimed(answer) :
     /\ call[i].material # None
     /\ \A j \in Unclaimed(answer) : call[j].material = call[i].material => j = i}

FirstNamed(answer, n) ==
  {i \in Alone(answer) : Names(answer[n], i) /\ \A p \in 1..n-1 : ~Names(answer[p], i)}

(* The preview of an answer that has just arrived has exactly these links.   *)
LinksExactly ==
  preview' # preview =>
    LET answer == preview'.answer
    IN /\ preview'.linked = {i \in Alone(answer) : \E n \in DOMAIN answer : Names(answer[n], i)}
       /\ \A n \in DOMAIN answer :
            preview'.lines[n].item =
              IF answer[n].item # None THEN answer[n].item
              ELSE IF FirstNamed(answer, n) = {} THEN None ELSE Only(FirstNamed(answer, n))

(* What the aliases add to the model's matches does not depend on the order  *)
(* of the lines: they link exactly the live items that no line claims, that  *)
(* are alone of their material, and whose material is what the one alias of  *)
(* an unmatched line's name says; each is given to one line, the first such. *)
(* The model's own matches stay (_apply_alias_post_match).                   *)
PostMatchIsExact == [][LinksExactly]_replyVars

(* The price of a line adds up to every amount the line states, within a     *)
(* cent and the rounding of each piece.                                      *)
AddsUp(raw) ==
  LET display == NormalizeLine(raw)
      units == IF raw.basis = "piece" THEN raw.quantity ELSE raw.pricedQty
      stated == {raw.total} \union {IF units = None THEN None ELSE raw.printed * units}
  IN (~display.warning /\ raw.quantity # 0) =>
       /\ raw.basis # "piece" => stated # {None}
       /\ \A amount \in stated \ {None} :
            2 * Distance(display.price * raw.quantity, amount) <= 2 * Cent + raw.quantity

EveryLineAddsUp == \A raw \in RawLine : AddsUp(raw)

(* Whatever the lines of a reply state, one that is shown without a warning  *)
(* costs what the document says it costs, and one not priced per piece is    *)
(* shown without one only if an amount was there to check (pricing.py,       *)
(* ADR-0050).                                                                *)
SilentPriceAddsUp == preview # None => EveryLineAddsUp
=============================================================================
