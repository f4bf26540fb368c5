---------------------------- MODULE MCCatalogSync ----------------------------
(* A small instance of CatalogSync for TLC. *)
EXTENDS CatalogSync

CONSTANTS known, fresh

(* "beam" is in the catalogue, under two spellings in the file; "bolt" and *)
(* "nail" are not; "pipe" is in the catalogue and never in the file.       *)
MCNameOf(d) == IF d = "beam " THEN "beam" ELSE d

MCRow(d, g, x, a, b) ==
  [desc |-> d, group |-> g, divider |-> x,
   cells |-> [s \in Columns |-> IF s = known THEN a ELSE b]]

MCRows ==
  {MCRow(d, g, FALSE, a, b) : d \in {"beam", "bolt"}, g \in {NULL, CAT},
                              a \in {NULL, BAD, 1, 2}, b \in {NULL, 1}}
  \cup {MCRow("beam ", CAT, FALSE, a, NULL) : a \in {NULL, 1}}
  \cup {MCRow("nail", g, FALSE, 1, NULL) : g \in {NULL, "unknown"}}
  \cup {MCRow(NULL, CAT, FALSE, 1, NULL), MCRow("- - -", CAT, TRUE, NULL, NULL)}

MCSheets == {<<r, t>> : r \in MCRows, t \in MCRows}

MCBases ==
  {[mats |-> <<[name |-> "pipe", number |-> 1], [name |-> "beam", number |-> 2]>>, next |-> 3,
    active |-> [m \in 1..2 |-> [s \in Columns |->
                  IF s # known \/ (m = 2 /\ p = 0) THEN NULL ELSE [price |-> p + 1 - (m - 1), by |-> 0]]],
    known |-> {known}] : p \in 0..2}
=============================================================================
