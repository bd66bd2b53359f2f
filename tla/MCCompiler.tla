----------------------------- MODULE MCCompiler -----------------------------
(* Programs small enough for TLC. *)
EXTENDS Compiler

MCCareful == {}

=============================================================================
