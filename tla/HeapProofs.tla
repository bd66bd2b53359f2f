----------------------------- MODULE HeapProofs -----------------------------
(***************************************************************************)
(* Proofs about Heap for any number of objects, of every kind, with every  *)
(* graph of references and every size of the heap.                         *)
(***************************************************************************)
EXTENDS Heap, TLAPS

(* Arithmetic on size_t stays in its range. *)
LEMMA SizeTRange == \A n \in Int : SizeT(n) \in 0 .. SIZE_MAX
<1>1. SIZE_MAX + 1 \in Nat \ {0}
  BY HeapAssumption
<1>2. QED
  BY <1>1, HeapAssumption DEF SizeT

-----------------------------------------------------------------------------
(* Reachability.  The reachable objects are closed, and least of all such. *)
LEMMA ReachableClosed ==
  ASSUME TypeOK
  PROVE  Closed(Reachable) /\ Reachable \subseteq Object
<1>1. roots \subseteq Object /\ \A o \in Object : Traced(o) \subseteq Object
  BY DEF TypeOK, Traced
<1>2. roots \subseteq Reachable
  BY <1>1 DEF Reachable, Closed
<1>3. ASSUME NEW o \in Reachable, NEW p \in Traced(o)
      PROVE  p \in Reachable
  <2>1. p \in Object
    BY <1>1, <1>3 DEF Reachable
  <2>2. ASSUME NEW S \in SUBSET Object, Closed(S)
        PROVE  p \in S
    BY <1>3, <2>2 DEF Reachable, Closed
  <2>3. QED
    BY <2>1, <2>2 DEF Reachable
<1>4. QED
  BY <1>2, <1>3 DEF Closed, Reachable

LEMMA ReachableLeast ==
  ASSUME NEW S \in SUBSET Object, Closed(S)
  PROVE  Reachable \subseteq S
BY DEF Reachable

-----------------------------------------------------------------------------
(* The inductive invariant: besides the properties that are checked, what   *)
(* an unallocated object holds, that nothing in the heap refers to what is  *)
(* not, except in the middle of a sweep, and how far the sweep has come.    *)

Unallocated == \A o \in Object \ heap : refs[o] = {} /\ buffer[o] = 0

HeapClosed == phase # "sweep" => \A o \in heap : Traced(o) \subseteq heap

Phases ==
  /\ phase # "mark" => working_set = {}
  /\ phase # "sweep" => unswept = {}
  /\ phase = "run" => marked = {}

Sweeping ==
  phase = "sweep" =>
    /\ Reachable \subseteq heap
    /\ heap \ unswept \subseteq Reachable
    /\ \A o \in unswept : o \in marked <=> o \in Reachable
    /\ marked \subseteq unswept

Requested ==
  /\ request.op = "new" => request.obj \notin heap
  /\ request.op = "grow" => request.obj \in roots /\ buffer[request.obj] < MaxBuffer

IInv ==
  /\ TypeOK /\ TriColour /\ Unallocated /\ HeapClosed /\ Phases /\ Sweeping
  /\ Requested

(* Nothing the roots lead to has been freed. *)
LEMMA ReachableAllocated ==
  ASSUME IInv
  PROVE  Reachable \subseteq heap
<1>1. CASE phase = "sweep"
  BY <1>1 DEF IInv, Sweeping
<1>2. CASE phase # "sweep"
  <2>1. heap \in SUBSET Object /\ Closed(heap)
    BY <1>2 DEF IInv, TypeOK, HeapClosed, Closed
  <2>2. QED
    BY <2>1, ReachableLeast
<1>3. QED
  BY <1>1, <1>2

(* Before the VM has allocated anything. *)
LEMMA InitInvariant == Init => IInv
<1> SUFFICES ASSUME Init
             PROVE  IInv
  OBVIOUS
<1> USE HeapAssumption DEF Init
<1>1. /\ TypeOK
      /\ Unallocated /\ HeapClosed /\ Phases
  BY DEF TypeOK, Request, Unallocated, HeapClosed, Phases
<1>2. TriColour /\ Sweeping /\ Requested
  BY DEF TriColour, Sweeping, Requested, NoRequest
<1>3. QED
  BY <1>1, <1>2 DEF IInv

(* The references and the roots decide what is reachable. *)
LEMMA SameReachable ==
  ASSUME UNCHANGED <<roots, kind, refs>>
  PROVE  Reachable' = Reachable
<1>1. \A S : Closed(S)' <=> Closed(S)
  BY DEF Closed, Traced
<1>2. QED
  BY <1>1 DEF Reachable

-----------------------------------------------------------------------------
(* The collector. *)

(* Any collection begins with the roots marked and nothing counted. *)
LEMMA BeginKeeps ==
  ASSUME IInv, phase = "run", BeginCollection, request' \in Request, Requested'
  PROVE  IInv'
<1>1. /\ marked' = roots /\ working_set' = roots /\ phase' = "mark"
      /\ bytes_allocated' = 0 /\ UNCHANGED <<memory, unswept, next_gc>>
  BY DEF BeginCollection, Mark, IInv, Phases
<1>2. Reachable' = Reachable
  BY <1>1, SameReachable DEF memory
<1>3. roots \subseteq Reachable
  BY ReachableClosed DEF IInv, Closed
<1>4. TypeOK'
  BY <1>1, HeapAssumption DEF IInv, TypeOK, memory
<1>5. TriColour'
  BY <1>1, <1>2, <1>3 DEF TriColour, memory
<1>6. Unallocated' /\ HeapClosed' /\ Phases' /\ Sweeping'
  BY <1>1 DEF IInv, Unallocated, HeapClosed, Phases, Sweeping, Traced, memory
<1>7. QED
  BY <1>4, <1>5, <1>6 DEF IInv

(* What an object that is popped refers to becomes gray. *)
LEMMA PopKeeps ==
  ASSUME IInv, NEW o \in Object, PopMarked(o)
  PROVE  IInv'
<1>1. /\ phase = "mark" /\ phase' = "mark" /\ o \in working_set
      /\ marked' = marked \cup Traced(o)
      /\ working_set' = (working_set \ {o}) \cup (Traced(o) \ marked)
      /\ UNCHANGED <<memory, unswept, request, next_gc>>
      /\ bytes_allocated' = SizeT(bytes_allocated + Counted(o))
  BY DEF PopMarked, Mark
<1>2. Reachable' = Reachable
  BY <1>1, SameReachable DEF memory
<1>3. o \in marked /\ o \in heap /\ o \in Reachable /\ Traced(o) \subseteq heap
  BY <1>1 DEF IInv, TypeOK, TriColour, HeapClosed
<1>4. Traced(o) \subseteq Reachable
  BY <1>3, ReachableClosed DEF IInv, Closed
<1>5. bytes_allocated' \in 0 .. SIZE_MAX
  <2>1. bytes_allocated + Counted(o) \in Int
    BY HeapAssumption DEF IInv, TypeOK, Counted
  <2>2. QED
    BY <1>1, <2>1, SizeTRange
<1>6. TypeOK'
  BY <1>1, <1>3, <1>5 DEF IInv, TypeOK, memory
<1>7. TriColour'
  <2>1. roots' \subseteq marked' /\ marked' \subseteq Reachable'
    BY <1>1, <1>2, <1>4 DEF IInv, TriColour, memory
  <2>2. ASSUME NEW p \in marked' \ working_set'
        PROVE  Traced(p) \subseteq marked'
    BY <1>1, <2>2 DEF IInv, TriColour
  <2>3. \A p : Traced(p)' = Traced(p)
    BY <1>1 DEF Traced, memory
  <2>4. QED
    BY <2>1, <2>2, <2>3 DEF TriColour
<1>8. Unallocated' /\ HeapClosed' /\ Phases' /\ Sweeping' /\ Requested'
  BY <1>1 DEF IInv, Unallocated, HeapClosed, Phases, Sweeping, Requested, Traced, memory
<1>9. QED
  BY <1>6, <1>7, <1>8 DEF IInv

(* When the working set is empty, exactly the reachable objects are marked: *)
(* what is marked is closed, and it has the roots.                          *)
LEMMA MarkedIsReachable ==
  ASSUME IInv, phase = "mark", working_set = {}
  PROVE  marked = Reachable
<1>1. marked \subseteq Reachable /\ Closed(marked)
  BY DEF IInv, TriColour, Closed
<1>2. marked \in SUBSET Object
  BY DEF IInv, TypeOK
<1>3. QED
  BY <1>1, <1>2, ReachableLeast

LEMMA BeginSweepKeeps ==
  ASSUME IInv, BeginSweep
  PROVE  IInv'
<1>1. /\ phase = "mark" /\ phase' = "sweep" /\ working_set = {} /\ unswept' = heap
      /\ UNCHANGED <<memory, marked, working_set, request, bytes_allocated, next_gc>>
  BY DEF BeginSweep
<1>2. Reachable' = Reachable
  BY <1>1, SameReachable DEF memory
<1>3. TypeOK'
  BY <1>1 DEF IInv, TypeOK, memory
<1>4. Sweeping'
  BY <1>1, <1>2, MarkedIsReachable DEF IInv, TypeOK, Sweeping, memory
<1>5. TriColour' /\ Unallocated' /\ HeapClosed' /\ Phases' /\ Requested'
  BY <1>1 DEF IInv, TriColour, Unallocated, HeapClosed, Phases, Requested, memory
<1>6. QED
  BY <1>3, <1>4, <1>5 DEF IInv

LEMMA SweepMarkedKeeps ==
  ASSUME IInv, NEW o \in Object, SweepMarked(o)
  PROVE  IInv'
<1>1. /\ o \in unswept /\ o \in marked /\ marked' = marked \ {o} /\ unswept' = unswept \ {o}
      /\ UNCHANGED <<memory, working_set, phase, request, bytes_allocated, next_gc>>
  BY DEF SweepMarked
<1>2. phase = "sweep" /\ working_set = {}
  BY <1>1 DEF IInv, Phases
<1>3. Reachable' = Reachable
  BY <1>1, SameReachable DEF memory
<1>4. TypeOK'
  BY <1>1, <1>2 DEF IInv, TypeOK, memory
<1>5. Sweeping'
  BY <1>1, <1>2, <1>3 DEF IInv, Sweeping, memory
<1>6. TriColour' /\ Unallocated' /\ HeapClosed' /\ Phases' /\ Requested'
  BY <1>1, <1>2 DEF IInv, TriColour, Unallocated, HeapClosed, Phases, Requested, memory
<1>7. QED
  BY <1>4, <1>5, <1>6 DEF IInv

(* The references of an object that is not reachable do not matter. *)
LEMMA ForgetUnreachable ==
  ASSUME TypeOK, NEW o \in Object \ Reachable,
         refs' = [refs EXCEPT ![o] = {}], UNCHANGED <<roots, kind>>
  PROVE  Reachable' = Reachable
<1>1. /\ \A p \in Object : Traced(p)' \subseteq Traced(p)
      /\ \A p \in Object \ {o} : Traced(p)' = Traced(p)
  BY DEF TypeOK, Traced
<1>2. Closed(Reachable) /\ Reachable \in SUBSET Object
  BY ReachableClosed
<1>3. ASSUME NEW p \in Reachable'
      PROVE  p \in Reachable
  <2>1. PICK R : R = Reachable
    OBVIOUS
  <2>2. Closed(R)' /\ R \in SUBSET Object
    BY <1>1, <1>2, <2>1 DEF Closed
  <2>3. p \in R
    BY <2>2 DEF Reachable
  <2>4. QED
    BY <2>1, <2>3
<1>4. ASSUME NEW p \in Reachable, NEW S \in SUBSET Object, Closed(S)'
      PROVE  p \in S
  <2>1. Closed(S \cap Reachable)
    <3>1. roots \subseteq S \cap Reachable
      BY <1>2, <1>4 DEF Closed
    <3>2. ASSUME NEW q \in S \cap Reachable
          PROVE  Traced(q) \subseteq S \cap Reachable
      <4>1. q \in Object \ {o}
        BY <1>2
      <4>2. Traced(q) \subseteq S
        BY <1>1, <1>4, <4>1 DEF Closed
      <4>3. QED
        BY <1>2, <4>2 DEF Closed
    <3>3. QED
      BY <3>1, <3>2 DEF Closed
  <2>2. S \cap Reachable \in SUBSET Object
    OBVIOUS
  <2>3. QED
    BY <2>1, <2>2 DEF Reachable
<1>5. ASSUME NEW p \in Reachable
      PROVE  p \in Reachable'
  <2>1. p \in Object
    BY <1>2
  <2>2. QED
    BY <1>4, <2>1 DEF Reachable
<1>6. QED
  BY <1>3, <1>5

LEMMA FreeKeeps ==
  ASSUME IInv, NEW o \in Object, FreeObject(o)
  PROVE  IInv'
<1>1. /\ o \in unswept /\ o \notin marked /\ heap' = heap \ {o} /\ unswept' = unswept \ {o}
      /\ refs' = [refs EXCEPT ![o] = {}] /\ buffer' = [buffer EXCEPT ![o] = 0]
      /\ bytes_allocated' = SizeT(bytes_allocated - Uncounted(o))
      /\ UNCHANGED <<kind, roots, marked, working_set, phase, request, next_gc>>
  BY DEF FreeObject
<1>2. phase = "sweep" /\ working_set = {} /\ o \notin Reachable
  BY <1>1 DEF IInv, Phases, Sweeping
<1>3. Reachable' = Reachable
  BY <1>1, <1>2, ForgetUnreachable DEF IInv
<1>4. o \notin roots
  BY <1>2, ReachableClosed DEF IInv, Closed
<1>5. bytes_allocated' \in 0 .. SIZE_MAX
  <2>1. bytes_allocated - Uncounted(o) \in Int
    BY HeapAssumption DEF IInv, TypeOK, Uncounted
  <2>2. QED
    BY <1>1, <2>1, SizeTRange
<1>6. TypeOK'
  BY <1>1, <1>4, <1>5, HeapAssumption DEF IInv, TypeOK
<1>7. Sweeping'
  BY <1>1, <1>2, <1>3 DEF IInv, Sweeping
<1>8. Unallocated'
  BY <1>1 DEF IInv, TypeOK, Unallocated
<1>9. Requested'
  BY <1>1, <1>4 DEF IInv, TypeOK, Requested
<1>10. TriColour' /\ HeapClosed' /\ Phases'
  BY <1>1, <1>2 DEF IInv, TriColour, HeapClosed, Phases
<1>11. QED
  BY <1>6, <1>7, <1>8, <1>9, <1>10 DEF IInv

(* At the end of the sweep the heap is what is reachable, which is closed. *)
LEMMA SweptHeap ==
  ASSUME IInv, phase = "sweep", unswept = {}
  PROVE  heap = Reachable /\ marked = {}
BY DEF IInv, Sweeping

LEMMA EndSweepKeeps ==
  ASSUME IInv, EndSweep
  PROVE  IInv'
<1>1. /\ phase = "sweep" /\ phase' = "run" /\ unswept = {} /\ next_gc' \in Nat
      /\ UNCHANGED <<memory, marked, working_set, unswept, request, bytes_allocated>>
  <2>1. bytes_allocated \in Int
    BY HeapAssumption DEF IInv, TypeOK
  <2>2. SizeT(bytes_allocated * HEAP_FILL_PERCENT) \in 0 .. SIZE_MAX
    BY <2>1, SizeTRange DEF HEAP_FILL_PERCENT
  <2>3. SizeT(bytes_allocated * HEAP_FILL_PERCENT) \div 100 \in Int
    BY <2>2, HeapAssumption
  <2>4. SizeT(bytes_allocated + SizeT(bytes_allocated * HEAP_FILL_PERCENT) \div 100) \in 0 .. SIZE_MAX
    BY <2>1, <2>3, SizeTRange
  <2>5. QED
    BY <2>4, HeapAssumption DEF EndSweep
<1>2. heap = Reachable /\ marked = {}
  BY <1>1, SweptHeap
<1>3. HeapClosed'
  <2>1. \A o \in heap : Traced(o) \subseteq heap
    BY <1>2, ReachableClosed DEF IInv, Closed
  <2>2. QED
    BY <1>1, <2>1 DEF HeapClosed, Traced, memory
<1>4. TypeOK'
  BY <1>1 DEF IInv, TypeOK, memory
<1>5. TriColour' /\ Unallocated' /\ Phases' /\ Sweeping' /\ Requested'
  BY <1>1, <1>2 DEF IInv, TriColour, Unallocated, Phases, Sweeping, Requested, memory
<1>6. QED
  BY <1>3, <1>4, <1>5 DEF IInv

-----------------------------------------------------------------------------
(* The program. *)

(* vmRealloc() allocates, or begins a collection. *)
LEMMA ReallocKeeps ==
  ASSUME IInv, phase = "run", NEW n \in Nat, NEW r \in Request, Realloc(n, r), Requested'
  PROVE  IInv'
<1>1. request' = r
  BY DEF Realloc
<1>2. CASE BeginCollection
  BY <1>1, <1>2, BeginKeeps
<1>3. CASE /\ bytes_allocated' = SizeT(bytes_allocated + n)
           /\ UNCHANGED <<memory, marks, next_gc>>
  <2>1. bytes_allocated' \in 0 .. SIZE_MAX
    <3>1. bytes_allocated + n \in Int
      BY HeapAssumption DEF IInv, TypeOK
    <3>2. QED
      BY <1>3, <3>1, SizeTRange
  <2>2. TypeOK'
    BY <1>1, <1>3, <2>1 DEF IInv, TypeOK, memory, marks
  <2>3. TriColour' /\ Sweeping' /\ Unallocated' /\ HeapClosed' /\ Phases'
    BY <1>3 DEF IInv, TriColour, Sweeping, Unallocated, HeapClosed, Phases, Traced,
                memory, marks
  <2>4. QED
    BY <2>2, <2>3 DEF IInv
<1>4. QED
  BY <1>2, <1>3 DEF Realloc

LEMMA ReallocSame ==
  ASSUME NEW n, NEW r, Realloc(n, r)
  PROVE  UNCHANGED memory
BY DEF Realloc, BeginCollection

LEMMA AllocateKeeps ==
  ASSUME IInv, NEW o \in Object, NEW k \in Kind, Allocate(o, k)
  PROVE  IInv'
<1> DEFINE r == [op |-> "new", obj |-> o, kind |-> k]
<1>1. r \in Request
  BY DEF Request
<1>2. phase = "run" /\ o \notin heap /\ Realloc(StructSize(k), r)
  BY DEF Allocate, Running
<1>3. StructSize(k) \in Nat
  BY DEF StructSize
<1>4. Requested'
  <2>1. request' = r
    BY <1>2 DEF Realloc
  <2>2. heap' = heap
    BY <1>2, ReallocSame DEF memory
  <2>3. QED
    BY <1>2, <2>1, <2>2 DEF Requested
<1>5. QED
  BY <1>1, <1>2, <1>3, <1>4, ReallocKeeps

LEMMA ReserveKeeps ==
  ASSUME IInv, NEW o \in Object, Reserve(o)
  PROVE  IInv'
<1> DEFINE r == [op |-> "grow", obj |-> o]
<1>1. r \in Request
  BY DEF Request
<1>2. phase = "run" /\ o \in roots /\ buffer[o] < MaxBuffer /\ Realloc(1, r)
  BY DEF Reserve, Running
<1>3. Requested'
  <2>1. request' = r
    BY <1>2 DEF Realloc
  <2>2. roots' = roots /\ buffer' = buffer
    BY <1>2, ReallocSame DEF memory
  <2>3. QED
    BY <1>2, <2>1, <2>2 DEF Requested
<1>4. QED
  BY <1>1, <1>2, <1>3, ReallocKeeps

(* A new object refers to nothing, whatever was at its address before. *)
LEMMA NewObject ==
  ASSUME IInv, InitObject
  PROVE  /\ phase = "run" /\ request \in [op : {"new"}, obj : Object, kind : Kind]
         /\ request.obj \notin heap /\ refs[request.obj] = {}
         /\ \A o \in heap : Traced(o)' = Traced(o)
<1>1. /\ phase = "run" /\ request.op = "new" /\ refs' = refs
      /\ kind' = [kind EXCEPT ![request.obj] = request.kind]
  BY DEF InitObject
<1>2. request \in [op : {"new"}, obj : Object, kind : Kind]
  BY <1>1 DEF IInv, TypeOK, Request, NoRequest
<1>3. request.obj \in Object \ heap
  BY <1>1, <1>2 DEF IInv, Requested
<1>4. refs[request.obj] = {}
  BY <1>3 DEF IInv, Unallocated
<1>5. \A o \in heap : Traced(o)' = Traced(o)
  BY <1>1, <1>3 DEF IInv, TypeOK, Traced
<1>6. QED
  BY <1>1, <1>2, <1>3, <1>4, <1>5

LEMMA InitObjectKeeps ==
  ASSUME IInv, InitObject
  PROVE  IInv'
<1>1. /\ phase = "run" /\ heap' = heap \cup {request.obj} /\ request' = NoRequest
      /\ kind' = [kind EXCEPT ![request.obj] = request.kind]
      /\ roots' = roots \cup {request.obj}
      /\ UNCHANGED <<refs, buffer, marks, bytes_allocated, next_gc>>
  BY DEF InitObject
<1>2. /\ request.obj \in Object \ heap /\ request.kind \in Kind
      /\ refs[request.obj] = {}
      /\ \A o \in heap : Traced(o)' = Traced(o)
  BY NewObject
<1>3. TypeOK'
  BY <1>1, <1>2 DEF IInv, TypeOK, Request, marks
<1>4. Unallocated' /\ Phases' /\ Requested' /\ TriColour' /\ Sweeping'
  BY <1>1 DEF IInv, Unallocated, Phases, Requested, TriColour, Sweeping, NoRequest, marks
<1>5. HeapClosed'
  <2>1. \A o \in heap : Traced(o)' \subseteq heap
    BY <1>1, <1>2 DEF IInv, HeapClosed
  <2>2. \A o \in heap' : Traced(o)' \subseteq heap'
    <3> SUFFICES ASSUME NEW o \in heap' PROVE Traced(o)' \subseteq heap'
      OBVIOUS
    <3>1. CASE o \in heap
      BY <3>1, <2>1, <1>1
    <3>2. CASE o \notin heap
      <4>1. o = request.obj
        BY <3>2, <1>1
      <4>2. refs'[o] = {}
        BY <4>1, <1>1, <1>2
      <4>3. QED
        BY <4>2 DEF Traced
    <3>3. QED
      BY <3>1, <3>2
  <2>3. QED
    BY <2>2 DEF HeapClosed
<1>6. QED
  BY <1>3, <1>4, <1>5 DEF IInv

LEMMA ReservedKeeps ==
  ASSUME IInv, Reserved
  PROVE  IInv'
<1>1. /\ phase = "run" /\ request.op = "grow" /\ request' = NoRequest
      /\ buffer' = [buffer EXCEPT ![request.obj] = @ + 1]
      /\ UNCHANGED <<heap, kind, refs, roots, marks, bytes_allocated, next_gc>>
  BY DEF Reserved
<1>2. request.obj \in roots /\ buffer[request.obj] < MaxBuffer
  BY <1>1 DEF IInv, Requested
<1>3. TypeOK'
  <2>1. PICK o : o = request.obj
    OBVIOUS
  <2>2. o \in Object /\ buffer[o] + 1 \in 0 .. MaxBuffer
    BY <1>2, <2>1, HeapAssumption DEF IInv, TypeOK
  <2>3. buffer' \in [Object -> 0 .. MaxBuffer]
    BY <1>1, <2>1, <2>2 DEF IInv, TypeOK
  <2>4. QED
    BY <1>1, <2>3 DEF IInv, TypeOK, Request, marks
<1>4. Unallocated'
  BY <1>1, <1>2 DEF IInv, TypeOK, Unallocated
<1>5. TriColour' /\ Sweeping' /\ HeapClosed' /\ Phases' /\ Requested'
  BY <1>1 DEF IInv, TriColour, Sweeping, HeapClosed, Phases, Requested, NoRequest, Traced, marks
<1>6. QED
  BY <1>3, <1>4, <1>5 DEF IInv

LEMMA GCKeeps ==
  ASSUME IInv, StdLangGC
  PROVE  IInv'
<1>1. phase = "run" /\ BeginCollection /\ request' = NoRequest
  BY DEF StdLangGC, Running
<1>2. request' \in Request /\ Requested'
  BY <1>1 DEF Request, Requested, NoRequest
<1>3. QED
  BY <1>1, <1>2, BeginKeeps

(* A step of the program keeps to the objects it holds. *)
LEMMA ExecuteMutates ==
  ASSUME IInv, Execute
  PROVE  /\ refs' \in [Object -> SUBSET Object] /\ roots' \subseteq heap
         /\ \A o \in Object \ heap : refs'[o] = refs[o]
         /\ \A o \in heap : refs'[o] \subseteq refs[o] \cup heap
<1> USE DEF IInv, TypeOK
<1>1. ASSUME NEW o \in Object, NEW p \in Object, Store(o, p)
      PROVE  /\ refs' \in [Object -> SUBSET Object] /\ roots' \subseteq heap
             /\ \A q \in Object \ heap : refs'[q] = refs[q]
             /\ \A q \in heap : refs'[q] \subseteq refs[q] \cup heap
  BY <1>1 DEF Store
<1>2. ASSUME NEW o \in Object, NEW p \in Object, Overwrite(o, p)
      PROVE  /\ refs' \in [Object -> SUBSET Object] /\ roots' \subseteq heap
             /\ \A q \in Object \ heap : refs'[q] = refs[q]
             /\ \A q \in heap : refs'[q] \subseteq refs[q] \cup heap
  BY <1>2 DEF Overwrite
<1>3. ASSUME NEW o \in Object, NEW p \in Object, Load(o, p) \/ Drop(o)
      PROVE  refs' = refs /\ roots' \subseteq heap
  BY <1>3 DEF Load, Drop
<1>4. QED
  BY <1>1, <1>2, <1>3 DEF Execute

LEMMA ExecuteKeeps ==
  ASSUME IInv, Execute
  PROVE  IInv'
<1>1. /\ phase = "run" /\ request = NoRequest
      /\ UNCHANGED <<heap, kind, buffer, marks, request, bytes_allocated, next_gc>>
  BY DEF Execute, Running
<1>2. /\ refs' \in [Object -> SUBSET Object] /\ roots' \subseteq heap
      /\ \A o \in Object \ heap : refs'[o] = refs[o]
      /\ \A o \in heap : refs'[o] \subseteq refs[o] \cup heap
  BY ExecuteMutates
<1>3. TypeOK'
  BY <1>1, <1>2 DEF IInv, TypeOK, marks
<1>4. Unallocated' /\ Phases' /\ Requested' /\ TriColour' /\ Sweeping'
  BY <1>1, <1>2 DEF IInv, Unallocated, Phases, Requested, TriColour, Sweeping, NoRequest, marks
<1>5. HeapClosed'
  BY <1>1, <1>2 DEF IInv, HeapClosed, Traced, marks
<1>6. QED
  BY <1>3, <1>4, <1>5 DEF IInv

LEMMA NextKeeps == IInv /\ [Next]_vars => IInv'
<1> SUFFICES ASSUME IInv, [Next]_vars
             PROVE  IInv'
  OBVIOUS
<1>1. CASE \E o \in Object, k \in Kind : Allocate(o, k)
  BY <1>1, AllocateKeeps
<1>2. CASE \E o \in Object : Reserve(o)
  BY <1>2, ReserveKeeps
<1>3. CASE InitObject
  BY <1>3, InitObjectKeeps
<1>4. CASE Reserved
  BY <1>4, ReservedKeeps
<1>5. CASE StdLangGC
  BY <1>5, GCKeeps
<1>6. CASE Execute
  BY <1>6, ExecuteKeeps
<1>7. CASE Collect
  BY <1>7, PopKeeps, SweepMarkedKeeps, FreeKeeps, BeginSweepKeeps, EndSweepKeeps DEF Collect
<1>8. CASE UNCHANGED vars
  BY <1>8 DEF vars, memory, marks, IInv, TypeOK, TriColour, Unallocated, HeapClosed, Phases,
              Sweeping, Requested, Traced, Reachable, Closed
<1>9. QED
  BY <1>1, <1>2, <1>3, <1>4, <1>5, <1>6, <1>7, <1>8 DEF Next

(* The invariant holds of every behaviour. *)
THEOREM Invariant == Spec => []IInv
BY InitInvariant, NextKeeps, PTL DEF Spec

(* Every variable keeps its type: the roots, the marks and the chain only   *)
(* have objects of the heap, and buffers stay in their capacity.            *)
THEOREM TypeCorrect == Spec => []TypeOK
<1>1. IInv => TypeOK
  BY DEF IInv
<1>2. QED
  BY <1>1, Invariant, PTL

(* While it marks, no black object refers to a white one, and only what the *)
(* roots lead to is marked.                                                 *)
THEOREM ThreeColours == Spec => []TriColour
<1>1. IInv => TriColour
  BY DEF IInv
<1>2. QED
  BY <1>1, Invariant, PTL

(* Nothing the collector reaches is ever freed, and no mark is left.        *)
THEOREM NothingDangles == Spec => []NoDangling
<1>1. IInv => NoDangling
  BY ReachableAllocated DEF IInv, Phases, NoDangling
<1>2. QED
  BY <1>1, Invariant, PTL

-----------------------------------------------------------------------------
(* The collector as the program sees it.                                    *)

(* Reachability is that of the abstract collector. *)
LEMMA SameLeast ==
  ASSUME TypeOK
  PROVE  Collected!Reachable = Reachable
<1>1. \A S \in SUBSET Object : Collected!Closed(S) <=> Closed(S)
  BY DEF Collected!Closed, Closed
<1>2. QED
  BY <1>1 DEF Collected!Reachable, Reachable

(* What is kept: the heap, except in the middle of a sweep. *)
LEMMA KeptHeap ==
  ASSUME IInv
  PROVE  /\ phase # "sweep" => Kept = heap
         /\ phase = "sweep" => Kept = Reachable
<1>1. ASSUME phase = "sweep"
      PROVE  Kept = Reachable
  <2>1. \A o : o \in Kept <=> o \in heap /\ (o \notin unswept \/ o \in marked)
    BY DEF Kept
  <2>2. \A o : o \in Kept <=> o \in Reachable
    BY <1>1, <2>1 DEF IInv, Sweeping
  <2>3. QED
    BY <2>2
<1>2. QED
  BY <1>1 DEF Kept, IInv, Phases

(* A step that leaves the objects, what they refer to and the roots alone. *)
LEMMA Stutters ==
  ASSUME UNCHANGED <<kind, refs, roots>>, Kept' = Kept
  PROVE  UNCHANGED Collected!vars
<1>1. [o \in Object |-> Traced(o)]' = [o \in Object |-> Traced(o)]
  BY DEF Traced
<1>2. QED
  BY <1>1 DEF Collected!vars

LEMMA InitCollected ==
  ASSUME Init
  PROVE  Collected!Init
<1>1. Kept = {} /\ roots = {}
  BY DEF Init, Kept
<1>2. [o \in Object |-> Traced(o)] = [o \in Object |-> {}]
  BY DEF Init, Traced
<1>3. QED
  BY <1>1, <1>2 DEF Collected!Init

(* varInitObject() is the step in which an object is new. *)
LEMMA InitObjectIsNew ==
  ASSUME IInv, InitObject
  PROVE  \E o \in Object : Collected!New(o)
<1>1. /\ heap' = heap \cup {request.obj} /\ roots' = roots \cup {request.obj}
      /\ kind' = [kind EXCEPT ![request.obj] = request.kind]
      /\ UNCHANGED <<refs, marks>>
  BY DEF InitObject
<1>2. /\ phase = "run" /\ request.obj \in Object \ heap
      /\ refs[request.obj] = {}
  BY NewObject DEF IInv, TypeOK
<1>3. Kept = heap /\ Kept' = heap'
  BY <1>1, <1>2 DEF Kept, marks, IInv, Phases
<1>4. PICK x : x = request.obj
  OBVIOUS
<1>5. PICK e : e = [o \in Object |-> Traced(o)]
  OBVIOUS
<1>6. PICK f : f = [o \in Object |-> Traced(o)]'
  OBVIOUS
<1>7. \A o \in Object : f[o] = IF o = x THEN {} ELSE e[o]
  <2>1. \A o \in Object : f[o] = IF kind'[o] = "inst" THEN {} ELSE refs[o]
    BY <1>1, <1>6 DEF Traced
  <2>2. \A o \in Object \ {x} : kind'[o] = kind[o]
    BY <1>1, <1>4 DEF IInv, TypeOK
  <2>3. \A o \in Object : e[o] = IF kind[o] = "inst" THEN {} ELSE refs[o]
    BY <1>5 DEF Traced
  <2>4. QED
    BY <1>2, <1>4, <2>1, <2>2, <2>3
<1>8. f = [e EXCEPT ![x] = {}]
  BY <1>5, <1>6, <1>7
<1>9. QED
  BY <1>1, <1>2, <1>3, <1>4, <1>5, <1>6, <1>8 DEF Collected!New

(* A step in which the program changes references and roots. *)
LEMMA IsMutate ==
  ASSUME \A o \in Object : Traced(o)' \subseteq Object, roots' \subseteq Kept, Kept' = Kept
  PROVE  Collected!Mutate
<1>1. [o \in Object |-> Traced(o)]' \in [Object -> SUBSET Object]
  OBVIOUS
<1>2. QED
  BY <1>1 DEF Collected!Mutate

LEMMA ExecuteIsMutate ==
  ASSUME IInv, Execute
  PROVE  Collected!Mutate
<1>1. phase = "run" /\ UNCHANGED <<heap, kind, marks>>
  BY DEF Execute, Running
<1>2. refs' \in [Object -> SUBSET Object] /\ roots' \subseteq heap
  BY ExecuteMutates
<1>3. Kept = heap /\ Kept' = heap
  BY <1>1 DEF Kept, IInv, Phases, marks
<1>4. \A o \in Object : Traced(o)' \subseteq Object
  BY <1>2 DEF Traced
<1>5. QED
  BY <1>2, <1>3, <1>4, IsMutate

(* Freeing an object changes no more than what a dead object refers to. *)
LEMMA FreeIsMutate ==
  ASSUME IInv, NEW o \in Object, FreeObject(o)
  PROVE  Collected!Mutate
<1>1. /\ o \in unswept \ marked /\ heap' = heap \ {o} /\ unswept' = unswept \ {o}
      /\ refs' = [refs EXCEPT ![o] = {}] /\ UNCHANGED <<kind, roots, marked, phase>>
  BY DEF FreeObject
<1>2. Kept' = Kept
  <2>1. \A p : p \in heap \ {o} /\ ~(p \in unswept \ {o} /\ p \notin marked)
                 <=> p \in heap /\ ~(p \in unswept /\ p \notin marked)
    BY <1>1
  <2>2. QED
    BY <1>1, <2>1 DEF Kept
<1>3. roots' \subseteq Kept
  <2>1. phase = "sweep"
    BY <1>1 DEF IInv, Phases
  <2>2. QED
    BY <1>1, <2>1, KeptHeap, ReachableClosed DEF IInv, Closed
<1>4. \A p \in Object : Traced(p)' \subseteq Object
  BY <1>1 DEF Traced, IInv, TypeOK
<1>5. QED
  BY <1>2, <1>3, <1>4, IsMutate

(* The marking ends: what is not marked is gone. *)
LEMMA BeginSweepCollects ==
  ASSUME IInv, BeginSweep
  PROVE  Collected!Collect
<1>1. /\ phase = "mark" /\ working_set = {} /\ unswept' = heap
      /\ UNCHANGED <<heap, kind, refs, roots, marked>>
  BY DEF BeginSweep, memory
<1>2. marked = Reachable /\ marked \subseteq heap
  BY <1>1, MarkedIsReachable DEF IInv, TypeOK
<1>3. Kept' = marked
  BY <1>1, <1>2 DEF Kept
<1>4. Kept' = Collected!Reachable
  BY <1>2, <1>3, SameLeast DEF IInv
<1>5. [o \in Object |-> Traced(o)]' = [o \in Object |-> Traced(o)]
  BY <1>1 DEF Traced
<1>6. QED
  BY <1>1, <1>4, <1>5 DEF Collected!Collect

(* The other steps of the collector, and what only allocates, are not seen. *)
LEMMA Unseen ==
  ASSUME IInv,
         \/ \E o \in Object, k \in Kind : Allocate(o, k)
         \/ \E o \in Object : Reserve(o) \/ PopMarked(o) \/ SweepMarked(o)
         \/ Reserved \/ StdLangGC \/ EndSweep \/ UNCHANGED vars
  PROVE  UNCHANGED Collected!vars
<1>1. CASE \/ \E o \in Object, k \in Kind : Allocate(o, k)
           \/ \E o \in Object : Reserve(o)
           \/ StdLangGC
  <2>1. phase = "run" /\ UNCHANGED memory /\ unswept' = unswept
    BY <1>1, ReallocSame DEF Allocate, Reserve, Realloc, StdLangGC, Running, BeginCollection,
                             memory, marks
  <2>2. Kept' = Kept
    BY <2>1 DEF Kept, memory, IInv, Phases
  <2>3. QED
    BY <2>1, <2>2, Stutters DEF memory
<1>2. CASE \E o \in Object : PopMarked(o)
  <2>1. phase = "mark" /\ UNCHANGED memory /\ unswept' = unswept
    BY <1>2 DEF PopMarked
  <2>2. Kept' = Kept
    BY <2>1 DEF Kept, memory, IInv, Phases
  <2>3. QED
    BY <2>1, <2>2, Stutters DEF memory
<1>3. CASE \E o \in Object : SweepMarked(o)
  <2>1. PICK o \in Object : SweepMarked(o)
    BY <1>3
  <2>2. /\ o \in marked /\ marked' = marked \ {o} /\ unswept' = unswept \ {o}
        /\ UNCHANGED memory
    BY <2>1 DEF SweepMarked
  <2>3. Kept' = Kept
    BY <2>2 DEF Kept, memory
  <2>4. QED
    BY <2>2, <2>3, Stutters DEF memory
<1>4. CASE Reserved \/ EndSweep \/ UNCHANGED vars
  <2>1. UNCHANGED <<heap, kind, refs, roots, unswept, marked>>
    BY <1>4 DEF Reserved, EndSweep, vars, memory, marks
  <2>2. Kept' = Kept
    BY <2>1 DEF Kept
  <2>3. QED
    BY <2>1, <2>2, Stutters
<1>5. QED
  BY <1>1, <1>2, <1>3, <1>4

LEMMA NextCollects ==
  IInv /\ [Next]_vars => [Collected!Next]_Collected!vars
<1> SUFFICES ASSUME IInv, [Next]_vars
             PROVE  [Collected!Next]_Collected!vars
  OBVIOUS
<1>1. CASE InitObject
  BY <1>1, InitObjectIsNew DEF Collected!Next
<1>2. CASE Execute
  BY <1>2, ExecuteIsMutate DEF Collected!Next
<1>3. CASE \E o \in Object : FreeObject(o)
  BY <1>3, FreeIsMutate DEF Collected!Next
<1>4. CASE BeginSweep
  BY <1>4, BeginSweepCollects DEF Collected!Next
<1>5. CASE \/ \E o \in Object, k \in Kind : Allocate(o, k)
           \/ \E o \in Object : Reserve(o) \/ PopMarked(o) \/ SweepMarked(o)
           \/ Reserved \/ StdLangGC \/ EndSweep \/ UNCHANGED vars
  BY <1>5, Unseen
<1>6. QED
  BY <1>1, <1>2, <1>3, <1>4, <1>5 DEF Next, Collect

(* The mark and sweep collector implements the one that frees, in one step, *)
(* what the roots do not lead to and nothing else.                          *)
THEOREM CollectorImplements == Spec => HeapIsCollected
BY Invariant, InitCollected, NextCollects, PTL DEF Spec, HeapIsCollected, Collected!Spec

=============================================================================
