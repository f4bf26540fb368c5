---------------------------- MODULE MCIngestion ----------------------------
(* A small instance of Ingestion for TLC. *)
EXTENDS Ingestion, TLC

CONSTANTS m1, m2

(* Two printed names; the first may be read with two spellings.            *)
MCSpellings == [bolt |-> {"bolt", "Bolt"}, nut |-> {"nut"}]

(* One page with a line twice; three pages, of which page 1 is read twice: *)
(* a line there that is printed again on page 2, and a line there that may *)
(* be read with two spellings, after another on page 0.                    *)
P(name, page) == [name |-> name, page |-> page]
MCFiles ==
  {[pages |-> 1, printed |-> <<P("bolt", 0), P("bolt", 0)>>],
   [pages |-> 3, printed |-> <<P("nut", 1), P("nut", 2)>>],
   [pages |-> 3, printed |-> <<P("nut", 0), P("bolt", 1)>>]}

(* Earlier imports may have taught nothing, or both materials for one      *)
(* spelling.                                                               *)
MCLearned == {{}, {<<"bolt", m1>>, <<"bolt", m2>>}}

Symmetry == Permutations({m1, m2}) \cup Permutations(Reviewers)
=============================================================================
