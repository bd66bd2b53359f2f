------------------------------- MODULE MCRoots -------------------------------
(* Small instances of Roots for TLC. *)
EXTENDS Roots

Addresses == 1 .. 24
=============================================================================
