------------------------------ MODULE MCFibers ------------------------------
(* Small instances of Fibers for TLC. *)
EXTENDS Fibers, TLC

CONSTANTS f1, f2, f3, v1

Fiber3 == {f1, f2, f3}
Fiber2 == {f1, f2}

(* With three fibers their functions have no parameter, with two f2's has  *)
(* one.                                                                    *)
Arity3 == f1 :> 0 @@ f2 :> 0 @@ f3 :> 0
Arity2 == f1 :> 0 @@ f2 :> 1

(* Fibers of equal arity are interchangeable. *)
Symmetric == Permutations(Fiber3)
=============================================================================
