----------------------------- MODULE MCLibrary -----------------------------
(* Constants for Library: names that carry their extension, and the numbered  *)
(* name of the one a download asks for. *)
EXTENDS LibraryAtRest, TLC

NumberedNames == [n \in {"p.zip"} |-> <<"p.zip", "p (1).zip">>]
StemOf == [n \in {"p.zip", "p (1).zip", "q.zip"} |->
             CASE n = "p.zip" -> "p" [] n = "p (1).zip" -> "p (1)" [] OTHER -> "q"]
\* What the proofs assume of the constants: names that do not run into each other.
ASSUME NamesApart

Symmetry == Permutations(Downloads) \union Permutations(Brought \ UserContents)
=============================================================================
