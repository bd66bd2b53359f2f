----------------------------- MODULE Dictionary -----------------------------
(***************************************************************************)
(* What the language's map promises: a partial function from keys to       *)
(* values.                                                                 *)
(***************************************************************************)
CONSTANTS Key, Val, Absent, Null

VARIABLES
  dict,     (* the mapping of the keys that are present                     *)
  result    (* what the last operation that returns a value returned        *)

vars == <<dict, result>>

Lookup(k) == IF k \in DOMAIN dict THEN dict[k] ELSE Absent

Init == dict = [k \in {} |-> Absent] /\ result = Absent

Put(k, v) ==
  /\ dict' = [j \in DOMAIN dict \cup {k} |-> IF j = k THEN v ELSE dict[j]]
  /\ UNCHANGED result

Get(k) == result' = Lookup(k) /\ UNCHANGED dict

Remove(k) ==
  /\ dict' = [j \in DOMAIN dict \ {k} |-> dict[j]]
  /\ result' = IF k \in DOMAIN dict THEN dict[k] ELSE Null

Next ==
  \/ \E k \in Key, v \in Val : Put(k, v)
  \/ \E k \in Key : Get(k) \/ Remove(k)

Spec == Init /\ [][Next]_vars
=============================================================================
