----------------------------- MODULE MCRecycleBin -----------------------------
(* Constants for RecycleBin: a name, and the one with a suffix a restore tries  *)
(* next.                                                                       *)
EXTENDS RecycleBin, TLC

TriedNames == [n \in {"a", "a (restored)"} |->
                 IF n = "a" THEN <<"a", "a (restored)">> ELSE <<n>>]
Symmetry == Permutations(Callers) \union Permutations(Archives)
=============================================================================
