---------------------------- MODULE MCCallStack ----------------------------
(* A small instance of CallStack for TLC. *)
EXTENDS CallStack, TLC

CONSTANTS f, g, h

MCArity     == (f :> 0) @@ (g :> 1) @@ (h :> 2)
MCStackSize == (f :> 3) @@ (g :> 2) @@ (h :> 5)
=============================================================================
