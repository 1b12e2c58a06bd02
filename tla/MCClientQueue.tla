--------------------------- MODULE MCClientQueue ---------------------------
(* ClientQueue for TLC: cells and publishers are interchangeable. *)
EXTENDS ClientQueue, TLC

Symmetric == Permutations(Cells) \cup Permutations(Publishers)
=============================================================================
