----------------------------- MODULE Coroutines -----------------------------
(***************************************************************************)
(* What the VM's fibers promise: asymmetric coroutines.  Control is a      *)
(* stack of activations whose top executes.  A coroutine is entered once,  *)
(* or again after it has suspended itself; it leaves by suspending or by   *)
(* finishing, and control goes to the activation below it, the one that    *)
(* entered it.  Suspending or finishing the last one gives control to the  *)
(* host.  The host may also discard the activations and enter a fresh one. *)
(***************************************************************************)
EXTENDS Naturals, Sequences, SequencesExt

CONSTANT Coroutine

VARIABLES
  status,   (* the life of each coroutine                                   *)
  active    (* the activations, the executing one last                      *)

vars == <<status, active>>

Status == {"unborn", "new", "running", "yielded", "done"}

Init ==
  /\ status = [c \in Coroutine |-> "unborn"]
  /\ active = <<>>

Create(c) ==
  /\ status[c] = "unborn"
  /\ status' = [status EXCEPT ![c] = "new"]
  /\ UNCHANGED active

Start(c) ==
  /\ status[c] \in {"new", "yielded"}
  /\ status' = [status EXCEPT ![c] = "running"]
  /\ active' = Append(active, c)

(* The host runs a fresh coroutine, and forgets the activations. *)
Discard(c) ==
  /\ status[c] = "unborn"
  /\ status' = [status EXCEPT ![c] = "running"]
  /\ active' = <<c>>

Leave(how) ==
  /\ active # <<>>
  /\ status' = [status EXCEPT ![Last(active)] = how]
  /\ active' = Front(active)

Next ==
  \/ \E c \in Coroutine : Create(c) \/ Start(c) \/ Discard(c)
  \/ Leave("yielded") \/ Leave("done")

Spec == Init /\ [][Next]_vars
=============================================================================
