----------------------------- MODULE MCHashMap -----------------------------
(* A small instance of HashMap for TLC. *)
EXTENDS HashMap, TLC

CONSTANTS k1, k2, k3, k4, k5

Key5 == {k1, k2, k3, k4, k5}

(* Two keys collide in every table, others in small tables only, and one   *)
(* probe goes around the end of the largest.                                *)
Hash5 == k1 :> 0 @@ k2 :> 0 @@ k3 :> 1 @@ k4 :> 3 @@ k5 :> 7
=============================================================================
