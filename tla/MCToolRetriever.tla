--------------------------- MODULE MCToolRetriever ---------------------------
(* A cache smaller than the texts in use, whose entries grow old one by one. *)
EXTENDS ToolRetriever, TLC

Symmetry == Permutations(Threads) \cup Permutations(Tools)

=============================================================================
