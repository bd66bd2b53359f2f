------------------------------ MODULE Collector ------------------------------
(***************************************************************************)
(* What the garbage collector promises: in one step it frees every object  *)
(* the roots do not lead to, and nothing else is ever freed.               *)
(***************************************************************************)
CONSTANT Object

VARIABLES
  heap,     (* the objects that are allocated                               *)
  edges,    (* the objects each one leads to                                *)
  roots     (* the objects the VM and the host hold                         *)

vars == <<heap, edges, roots>>

(* The least set that has the roots and what its members lead to. *)
Closed(S) == roots \subseteq S /\ \A o \in S : edges[o] \subseteq S

Reachable == {o \in Object : \A S \in SUBSET Object : Closed(S) => o \in S}

Init ==
  /\ heap = {}
  /\ edges = [o \in Object |-> {}]
  /\ roots = {}

New(o) ==
  /\ o \notin heap
  /\ heap' = heap \cup {o}
  /\ edges' = [edges EXCEPT ![o] = {}]
  /\ roots' = roots \cup {o}

(* The program goes on: it frees nothing. *)
Mutate ==
  /\ edges' \in [Object -> SUBSET Object]
  /\ roots' \in SUBSET heap
  /\ UNCHANGED heap

Collect ==
  /\ heap' = Reachable
  /\ UNCHANGED <<edges, roots>>

Next == (\E o \in Object : New(o)) \/ Mutate \/ Collect

Spec == Init /\ [][Next]_vars
=============================================================================
