---------------------------- MODULE MCResponses ----------------------------
(* Two items of two materials, or raw; two spellings of one name and one of another. *)
EXTENDS Responses, TLC

CONSTANTS pipe, PIPE, elbow

MCNameOf == (pipe :> "pipe") @@ (PIPE :> "pipe") @@ (elbow :> "elbow")
MCPriceTags == {1, 7, 30}
MCLineTotals == 0..60
MCSymmetry == Permutations(Worker) \union Permutations(Alias)
                \union Permutations(Item) \union Permutations(Material)
=============================================================================
