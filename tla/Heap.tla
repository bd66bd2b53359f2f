-------------------------------- MODULE Heap --------------------------------
(***************************************************************************)
(* The heap of the VM and its mark and sweep collector: vmRealloc() and    *)
(* vmCollectGarbage() of pk_vm.c, markObject(), popMarkedObjects() and     *)
(* freeObject() of pk_var.c.                                               *)
(*                                                                         *)
(* The program works on the objects it holds (on a stack, in a handle, as  *)
(* a temporary reference...): `roots'.  A collection begins inside an      *)
(* allocation, before the memory is allocated, or when lang.gc() is        *)
(* called; each pop of the working set and each object swept is a step.    *)
(* The order of the working set and of the chain of objects is left out.   *)
(*                                                                         *)
(* Three kinds of object differ in what the collector does with them:      *)
(* "list" (its buffer is freed by BufferClear(), as those of a script, a   *)
(* function and a class are), "map" (its array is deallocated, as those of *)
(* a fiber are) and "inst" (an instance: its fields are not marked).       *)
(* A struct and a slot of a buffer are a unit of memory each.              *)
(***************************************************************************)
EXTENDS Integers, FiniteSets

CONSTANTS
  Object,         (* bound: the addresses objects are allocated at          *)
  Kind,           (* the kinds of object that are allocated                 *)
  MaxBuffer,      (* bound: the slots of a buffer                           *)
  INITIAL_GC_SIZE, MIN_HEAP_SIZE,
  SIZE_MAX        (* bound: the largest size_t                              *)

HEAP_FILL_PERCENT == 75

ASSUME HeapAssumption ==
  /\ Kind \subseteq {"list", "map", "inst"}
  /\ MaxBuffer \in Nat
  /\ INITIAL_GC_SIZE \in Nat
  /\ MIN_HEAP_SIZE \in Nat
  /\ SIZE_MAX \in Nat

VARIABLES
  heap,             (* the objects of the chain at vm->first                *)
  kind, refs,       (* of each object: its type, the objects it refers to,  *)
  buffer,           (* and the capacity of its buffer                       *)
  roots,            (* the objects the VM, the host and the compiler hold   *)
  marked,           (* those with is_marked                                 *)
  working_set,
  unswept,          (* the objects from *ptr on, while they are swept       *)
  phase,            (* "run", "mark" or "sweep"                             *)
  request,          (* what vmRealloc() allocates after a collection        *)
  bytes_allocated,
  next_gc

memory == <<heap, kind, refs, buffer, roots>>
marks  == <<marked, working_set, unswept, phase>>
vars   == <<memory, marks, request, bytes_allocated, next_gc>>

NoRequest == [op |-> "none"]

SizeT(n) == n % (SIZE_MAX + 1)

-----------------------------------------------------------------------------
(* An instance is two structs, Instance and Inst. *)
StructSize(k) == IF k = "inst" THEN 2 ELSE 1

(* What popMarkedObjectsInternal() counts of an object, and marks. *)
Counted(o) == 1 + buffer[o]

Traced(o) == IF kind[o] = "inst" THEN {} ELSE refs[o]

(* What freeObject() takes from the bytes: BufferClear() passes vmRealloc()  *)
(* the old size, DEALLOCATE() does not.                                      *)
Uncounted(o) == IF kind[o] = "map" THEN 0 ELSE buffer[o]

(* markObject() of each of a set of objects, with the others that are gray. *)
Mark(objects, gray) ==
  /\ marked' = marked \cup objects
  /\ working_set' = gray \cup (objects \ marked)

(* vmCollectGarbage() begins: the count is reset, the roots are marked. *)
BeginCollection ==
  /\ bytes_allocated' = 0
  /\ Mark(roots, {})
  /\ phase' = "mark"
  /\ UNCHANGED <<memory, unswept, next_gc>>

(* Two faults: the objects referred to are not marked, or they are pushed   *)
(* even when they were marked before.  (The definitions said to be faults   *)
(* are only there to see that the properties below detect them.)            *)
PopUntraced(o) ==
  /\ phase = "mark"
  /\ o \in working_set
  /\ working_set' = working_set \ {o}
  /\ bytes_allocated' = SizeT(bytes_allocated + Counted(o))
  /\ UNCHANGED <<memory, marked, unswept, phase, request, next_gc>>

PopAgain(o) ==
  /\ phase = "mark"
  /\ o \in working_set
  /\ marked' = marked \cup Traced(o)
  /\ working_set' = (working_set \ {o}) \cup Traced(o)
  /\ bytes_allocated' = SizeT(bytes_allocated + Counted(o))
  /\ UNCHANGED <<memory, unswept, phase, request, next_gc>>

(* popMarkedObjects() *)
PopMarked(o) ==
  /\ phase = "mark"
  /\ o \in working_set
  /\ Mark(Traced(o), working_set \ {o})
  /\ bytes_allocated' = SizeT(bytes_allocated + Counted(o))
  /\ UNCHANGED <<memory, unswept, phase, request, next_gc>>

(* A fault: the sweep begins before the working set is empty. *)
BeginSweepEarly ==
  /\ phase = "mark"
  /\ phase' = "sweep"
  /\ unswept' = heap
  /\ working_set' = {}
  /\ UNCHANGED <<memory, marked, request, bytes_allocated, next_gc>>

BeginSweep ==
  /\ phase = "mark"
  /\ working_set = {}
  /\ phase' = "sweep"
  /\ unswept' = heap
  /\ UNCHANGED <<memory, marked, working_set, request, bytes_allocated, next_gc>>

(* A fault: a mark is left for the next collection. *)
SweepKeepMark(o) ==
  /\ o \in unswept \cap marked
  /\ unswept' = unswept \ {o}
  /\ UNCHANGED <<memory, marked, working_set, phase, request, bytes_allocated, next_gc>>

(* An object is unmarked for the next collection, *)
SweepMarked(o) ==
  /\ o \in unswept \cap marked
  /\ marked' = marked \ {o}
  /\ unswept' = unswept \ {o}
  /\ UNCHANGED <<memory, working_set, phase, request, bytes_allocated, next_gc>>

(* or freed. *)
FreeObject(o) ==
  /\ o \in unswept \ marked
  /\ heap' = heap \ {o}
  /\ refs' = [refs EXCEPT ![o] = {}]
  /\ buffer' = [buffer EXCEPT ![o] = 0]
  /\ unswept' = unswept \ {o}
  /\ bytes_allocated' = SizeT(bytes_allocated - Uncounted(o))
  /\ UNCHANGED <<kind, roots, marked, working_set, phase, request, next_gc>>

(* The end of vmCollectGarbage(). *)
EndSweep ==
  /\ phase = "sweep"
  /\ unswept = {}
  /\ phase' = "run"
  /\ LET filled == SizeT(bytes_allocated + SizeT(bytes_allocated * HEAP_FILL_PERCENT) \div 100)
     IN  next_gc' = IF filled < MIN_HEAP_SIZE THEN MIN_HEAP_SIZE ELSE filled
  /\ UNCHANGED <<memory, marked, working_set, unswept, request, bytes_allocated>>

Collect ==
  \/ \E o \in Object : PopMarked(o) \/ SweepMarked(o) \/ FreeObject(o)
  \/ BeginSweep
  \/ EndSweep

-----------------------------------------------------------------------------
(* vmRealloc() of n more units: it may collect before it allocates. *)
Realloc(n, r) ==
  /\ request' = r
  /\ IF SizeT(bytes_allocated + n) > next_gc
     THEN BeginCollection
     ELSE /\ bytes_allocated' = SizeT(bytes_allocated + n)
          /\ UNCHANGED <<memory, marks, next_gc>>

Running == phase = "run" /\ request = NoRequest

(* ALLOCATE() of an object, and varInitObject() once it has its memory. *)
Allocate(o, k) ==
  /\ Running
  /\ o \notin heap
  /\ Realloc(StructSize(k), [op |-> "new", obj |-> o, kind |-> k])

InitObject ==
  /\ phase = "run"
  /\ request.op = "new"
  /\ heap' = heap \cup {request.obj}
  /\ kind' = [kind EXCEPT ![request.obj] = request.kind]
  /\ roots' = roots \cup {request.obj}
  /\ request' = NoRequest
  /\ UNCHANGED <<refs, buffer, marks, bytes_allocated, next_gc>>

(* A buffer grows. *)
Reserve(o) ==
  /\ Running
  /\ o \in roots
  /\ buffer[o] < MaxBuffer
  /\ Realloc(1, [op |-> "grow", obj |-> o])

Reserved ==
  /\ phase = "run"
  /\ request.op = "grow"
  /\ buffer' = [buffer EXCEPT ![request.obj] = @ + 1]
  /\ request' = NoRequest
  /\ UNCHANGED <<heap, kind, refs, roots, marks, bytes_allocated, next_gc>>

(* lang.gc() *)
StdLangGC ==
  /\ Running
  /\ BeginCollection
  /\ UNCHANGED request

(* The program stores a value in an object, overwrites it, loads it and     *)
(* drops it.  (A field that refers to an object which was freed is not      *)
(* loaded: what the code would then do is undefined.)                       *)
Store(o, p) ==
  /\ o \in roots /\ p \in roots
  /\ refs' = [refs EXCEPT ![o] = @ \cup {p}]
  /\ UNCHANGED roots

Overwrite(o, p) ==
  /\ o \in roots /\ p \in refs[o]
  /\ refs' = [refs EXCEPT ![o] = @ \ {p}]
  /\ UNCHANGED roots

Load(o, p) ==
  /\ o \in roots /\ p \in refs[o] \cap heap
  /\ roots' = roots \cup {p}
  /\ UNCHANGED refs

Drop(o) ==
  /\ o \in roots
  /\ roots' = roots \ {o}
  /\ UNCHANGED refs

Execute ==
  /\ Running
  /\ \/ \E o, p \in Object : Store(o, p) \/ Overwrite(o, p) \/ Load(o, p)
     \/ \E o \in Object : Drop(o)
  /\ UNCHANGED <<heap, kind, buffer, marks, request, bytes_allocated, next_gc>>

-----------------------------------------------------------------------------
Init ==
  /\ heap = {}
  /\ kind \in [Object -> Kind]
  /\ refs = [o \in Object |-> {}]
  /\ buffer = [o \in Object |-> 0]
  /\ roots = {}
  /\ marked = {} /\ working_set = {} /\ unswept = {}
  /\ phase = "run"
  /\ request = NoRequest
  /\ bytes_allocated = 0
  /\ next_gc = INITIAL_GC_SIZE

Next ==
  \/ \E o \in Object, k \in Kind : Allocate(o, k)
  \/ \E o \in Object : Reserve(o)
  \/ InitObject
  \/ Reserved
  \/ StdLangGC
  \/ Execute
  \/ Collect

(* The loops of the collector run to their end. *)
Spec == Init /\ [][Next]_vars /\ WF_vars(Collect)

-----------------------------------------------------------------------------
(* Properties. *)

Request ==
  {NoRequest} \cup [op : {"new"}, obj : Object, kind : Kind]
              \cup [op : {"grow"}, obj : Object]

TypeOK ==
  /\ heap \subseteq Object /\ roots \subseteq heap
  /\ kind \in [Object -> Kind]
  /\ refs \in [Object -> SUBSET Object]
  /\ buffer \in [Object -> 0 .. MaxBuffer]
  /\ working_set \subseteq marked /\ marked \subseteq heap /\ unswept \subseteq heap
  /\ phase \in {"run", "mark", "sweep"}
  /\ request \in Request
  /\ bytes_allocated \in 0 .. SIZE_MAX
  /\ next_gc \in Nat

(* The objects the collector can reach from the roots: those of the least   *)
(* set that has the roots and what its members refer to.                    *)
Closed(S) == roots \subseteq S /\ \A o \in S : Traced(o) \subseteq S

Reachable == {o \in Object : \A S \in SUBSET Object : Closed(S) => o \in S}

(* While it marks, every root is marked and what a black object (marked and *)
(* no longer in the working set) refers to is marked, and nothing is marked *)
(* that the roots do not lead to.                                           *)
TriColour ==
  phase = "mark" =>
    /\ roots \subseteq marked
    /\ \A o \in marked \ working_set : Traced(o) \subseteq marked
    /\ marked \subseteq Reachable

(* No object the collector reaches has been freed, also in the middle of a  *)
(* sweep, and no mark is left for the next collection.                      *)
NoDangling ==
  /\ Reachable \subseteq heap
  /\ phase = "run" => marked = {}

(* A collection frees what the roots do not lead to, all of it and nothing  *)
(* else: seen from the program, in the step in which the marking ends.      *)
Kept == heap \ (unswept \ marked)

Collected ==
  INSTANCE Collector WITH heap <- Kept, edges <- [o \in Object |-> Traced(o)]

HeapIsCollected == Collected!Spec

(* A collection that begins ends, cycles of references or not. *)
CollectionEnds == phase # "run" ~> phase = "run"
=============================================================================
