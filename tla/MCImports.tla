----------------------------- MODULE MCImports -----------------------------
(* A few scripts and names, which are alike. *)
EXTENDS Imports, TLC

Alike == Permutations(Script) \cup Permutations(Name)
=============================================================================
