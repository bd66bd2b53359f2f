----------------------------- MODULE MCIteration -----------------------------
(* Small instances of Iteration for TLC. *)
EXTENDS Iteration, TLC

CONSTANTS a, b, k1, k2, k3, k4

Hash4 == k1 :> 0 @@ k2 :> 0 @@ k3 :> 3 @@ k4 :> 6

Changes == "list" :> 1 @@ "map" :> 3 @@ "string" :> 0 @@ "range" :> 0

(* The empty string and one of three characters. *)
Strings == {<<>>, <<a, b, a>>}

(* From 0 and from 2, up and down to whole numbers and between them. *)
Ranges5 == {[from |-> f, to |-> t] : f \in {0, 4}, t \in -1 .. 5}
=============================================================================
