-------------------------------- MODULE Roots --------------------------------
(* How objects are held while they are made: the constructors of pk_var.c,   *)
(* the temporary references and the handles of pk_vm.c, and what the host    *)
(* and the instructions do with them.  Any allocation may collect what is    *)
(* not held.  The collection itself, in steps, is the module Heap.           *)
(*                                                                           *)
(* What C code does between two of its allocations is a list of              *)
(* instructions on its local variables.                                      *)
EXTENDS Integers, Sequences, FiniteSets, SequencesExt, TLC

CONSTANTS
  Address,     \* Bound: where objects are, from 1 on.
  MaxHandles,  \* Bound: the handles.
  MaxOperations, \* Bound: the operations of a run.
  MAX_TEMP_REFERENCE

ASSUME RootsAssumption ==
  /\ Address \subseteq Nat \ {0}
  /\ {MaxHandles, MaxOperations, MAX_TEMP_REFERENCE} \subseteq Nat

NoHandle == 0
Handle == 1 .. MaxHandles
Gone == 0  \* The address of an object that was freed.

Idle == "idle"

VARIABLES
  heap,     \* The objects there are, the chain at vm->first.
  kind, initialized, refs, \* Of each: its type, the fields set, what they refer to.
  temp,     \* The temporary references, a stack.
  scripts,  \* The scripts in the map vm->scripts.
  held,     \* The values on the stack of the fiber, the tokens of the compiler.
  handles,  \* The head of the list of handles.
  link,     \* Of each handle: its value, the handle before and that after.
  unreleased, \* Followed: the handles that the host has.
  op,       \* The operation under way.
  program,  \* What is left of it.
  local,    \* Its variables.
  operations, \* Followed: how many there were.
  lost,     \* Followed: the operations that used an object that was freed.
  misread   \* Followed: the operations and types whose fields were read before they were set.

objects == <<heap, kind, initialized, refs>>
roots == <<temp, scripts, held>>
list == <<handles, link, unreleased>>
followed == <<operations, lost, misread>>
vars == <<objects, roots, list, op, program, local, followed>>

-----------------------------------------------------------------------------
(* The instructions. *)

(* ALLOCATE() and varInitObject() of an object, to a variable; another       *)
(* allocation, of the memory of an object.                                   *)
Alloc(x, k) == [do |-> "alloc", x |-> x, k |-> k]
Memory(x)   == [do |-> "memory", x |-> x]

(* Fields that the collector reads are set, and refer to some objects.       *)
Set(x, fields, to) == [do |-> "set", x |-> x, fields |-> fields, to |-> to]

(* A buffer or a table gets or loses an element. *)
Add(x, y)    == [do |-> "add", x |-> x, y |-> y]
Delete(x, y) == [do |-> "remove", x |-> x, y |-> y]

(* vmPushTempRef() and vmPopTempRef() *)
Push(x) == [do |-> "push", x |-> x]
Pop     == [do |-> "pop"]

(* A value is pushed to the stack or popped; a script is put in the table    *)
(* vm->scripts, which may have to grow.                                      *)
Hold(x)  == [do |-> "hold", x |-> x]
Drop(x)  == [do |-> "drop", x |-> x]
Cache(x) == [do |-> "cache", x |-> x]

(* An object is read; vmNewHandle() of it. *)
Use(x)       == [do |-> "use", x |-> x]
NewHandle(x) == [do |-> "handle", x |-> x]

(* The fields of a type that popMarkedObjectsInternal() reads. *)
Fields(k) ==
  CASE k \in {"string", "range"} -> {}
    [] k \in {"list", "map"}     -> {"elements"}
    [] k = "script" -> {"path", "module", "buffers", "body"}
    [] k = "func"   -> {"owner", "is_native", "fn"}
    [] k = "fiber"  -> {"func", "stack"}
    [] k = "class"  -> {"owner", "ctor", "field_names"}
    [] k = "inst"   -> {"is_native", "ins"}

-----------------------------------------------------------------------------
(* The constructors. *)

NewString(x) == <<Alloc(x, "string")>>
NewRange(x)  == <<Alloc(x, "range")>>
NewMap(x)    == <<Alloc(x, "map"), Set(x, {"elements"}, {})>>

(* A fault: the list is not held while its buffer is allocated. *)
NewListUnheld(x, size) ==
  <<Alloc(x, "list"), Set(x, {"elements"}, {})>>
    \o (IF size > 0 THEN <<Memory(x)>> ELSE <<>>)

NewList(x, size) ==
  <<Alloc(x, "list"), Push(x), Set(x, {"elements"}, {})>>
    \o (IF size > 0 THEN <<Memory(x)>> ELSE <<>>)
    \o <<Pop>>

(* A fault: the reference to a name is not popped. *)
AddNameUnpopped(s, name) == NewString(name) \o <<Push(name), Memory(s), Add(s, name)>>

(* scriptAddName() of a name that is new. *)
AddName(s, name) == NewString(name) \o <<Push(name), Memory(s), Add(s, name), Pop>>

(* newFunction() of a script *)
NewFunction(f, s, name) ==
  <<Alloc(f, "func"), Push(f), Memory(s), Add(s, f)>>
    \o AddName(s, name)
    \o <<Set(f, {"owner", "is_native"}, {s}), Memory(f), Set(f, {"fn"}, {}), Pop>>

(* A fault: the body is only set when it is made. *)
NewScriptLate(s, path) ==
  <<Alloc(s, "script"), Set(s, {"path", "module", "buffers"}, {path}), Push(s)>>
    \o NewFunction("main", s, "main name")
    \o <<Set(s, {"body"}, {"main"})>>
    \o AddName(s, "__file__")
    \o <<Memory(s), Memory(s), Pop>>

(* newScript(), with scriptAddMain() and the global __file__ *)
NewScript(s, path) ==
  <<Alloc(s, "script"), Set(s, {"path", "module", "body", "buffers"}, {path}), Push(s)>>
    \o NewFunction("main", s, "main name")
    \o <<Set(s, {}, {"main"})>>
    \o AddName(s, "__file__")
    \o <<Memory(s), Memory(s), Pop>>

(* newFiber(): nothing holds it. *)
NewFiber(x, f) ==
  <<Alloc(x, "fiber"), Set(x, {"func", "stack"}, {f}), Memory(x), Memory(x)>>

(* newClass(); "$" is a string as the format has no dollar. *)
NewClass(c, s) ==
  <<Alloc(c, "class"), Push(c), Memory(s), Add(s, c), Set(c, {"owner"}, {s})>>
    \o AddName(s, "class name")
    \o <<Set(c, {"field_names"}, {})>>
    \o NewString("dollar") \o <<Push("dollar")>>
    \o NewString("ctor name") \o <<Use("dollar"), Use("class name"), Pop, Push("ctor name")>>
    \o NewFunction("ctor", s, "ctor name in script")
    \o <<Use("ctor name"), Set(c, {"ctor"}, {"ctor"}), Pop, Pop>>

(* newInstance() of a class that has fields, and newInstanceNative() *)
NewInstance(i) ==
  <<Alloc(i, "inst"), Push(i), Set(i, {"is_native"}, {}), Memory(i), Set(i, {"ins"}, {}),
    Memory(i), Pop>>

NewInstanceNative(i) == <<Alloc(i, "inst"), Set(i, {"is_native", "ins"}, {})>>

-----------------------------------------------------------------------------
(* The operations.  A value that OP_PUSH_... makes is on the stack next.     *)

(* pkNewString(), pkNewList(), pkNewMap(), pkNewInstNative(), pkNewFiber()   *)
(* of a function that is in a script                                         *)
Handled(x) == <<Push(x), NewHandle(x), Pop>>

(* A script that is not known is made; its body runs in a fiber. *)
PkInterpretSource ==
  NewString("path") \o <<Push("path")>>
    \o (IF scripts = {} THEN NewScript("script", "path") \o <<Push("script"), Cache("script"), Pop>>
                        ELSE <<>>)
    \o <<Pop>> \o NewFiber("fiber", "main") \o <<Hold("fiber")>>

(* A literal is the value of a token of the compiler, then in the script. *)
Literal(x) == NewString(x) \o <<Hold(x)>>

AddConstant == Literal("literal") \o <<Memory("script"), Add("script", "literal")>>

(* OP_PUSH_LIST and OP_LIST_APPEND *)
PushList ==
  Literal("element") \o NewList("list", 1) \o <<Hold("list"), Memory("list"), Add("list", "element")>>

(* listJoin() of two lists on the stack *)
ListJoin ==
  NewList("l1", 1) \o <<Hold("l1")>> \o NewList("l2", 1) \o <<Hold("l2")>>
    \o NewList("sum", 2) \o <<Push("sum"), Use("l1"), Use("l2"), Pop, Hold("sum")>>

(* rangeAsList() of a range with more numbers than the whole part counts *)
RangeAsList ==
  NewRange("range") \o <<Hold("range")>>
    \o NewList("numbers", 0) \o <<Memory("numbers"), Hold("numbers")>>

(* mapRemoveKey() of a value that only the map holds *)
MapRemoveKey ==
  NewMap("map") \o <<Hold("map")>>
    \o Literal("value") \o <<Memory("map"), Add("map", "value"), Drop("value")>>
    \o <<Delete("map", "value"), Push("value"), Memory("map"), Pop, Use("value")>>

(* coreAssert() holds the text it puts in the error, *)
CoreAssert ==
  NewString("msg") \o <<Push("msg")>> \o NewString("error") \o <<Use("msg"), Pop, Hold("error")>>

(* OP_CALL of what is not a function does not. *)
CallNotCallable ==
  NewString("callable") \o NewString("error") \o <<Use("callable"), Hold("error")>>

Program(name) ==
  CASE name = "pkNewString"      -> NewString("str") \o Handled("str")
    [] name = "pkNewList"        -> NewList("list", 8) \o Handled("list")
    [] name = "pkNewMap"         -> NewMap("map") \o Handled("map")
    [] name = "pkNewInstNative"  -> NewInstanceNative("inst") \o Handled("inst")
    [] name = "pkNewFiber"       -> NewFiber("fiber", "main") \o Handled("fiber")
    [] name = "interpret"        -> PkInterpretSource
    [] name = "compile function" -> NewFunction("func", "script", "name") \o <<Use("func")>>
    [] name = "compile class"    -> NewClass("class", "script") \o <<Use("class"), Use("ctor")>>
    [] name = "add constant"     -> AddConstant
    [] name = "push list"        -> PushList
    [] name = "push instance"    -> NewInstance("inst") \o <<Hold("inst")>>
    [] name = "range"            -> NewRange("range") \o <<Hold("range")>>
    [] name = "join lists"       -> ListJoin
    [] name = "range as list"    -> RangeAsList
    [] name = "map remove"       -> MapRemoveKey
    [] name = "assert"           -> CoreAssert
    [] name = "not callable"     -> CallNotCallable

Operation ==
  {"pkNewString", "pkNewList", "pkNewMap", "pkNewInstNative", "pkNewFiber", "interpret",
   "compile function", "compile class", "add constant", "push list", "push instance", "range",
   "join lists", "range as list", "map remove", "assert", "not callable"}

(* Those that make a handle, and those that work on a script. *)
OfHost == {"pkNewString", "pkNewList", "pkNewMap", "pkNewInstNative", "pkNewFiber"}
OfScript == {"pkNewFiber", "compile function", "compile class", "add constant"}

-----------------------------------------------------------------------------
(* The machine. *)

Nil == [value |-> Gone, prev |-> NoHandle, next |-> NoHandle]

(* The handles from one on. *)
Chain[h \in 0 .. MaxHandles, n \in 0 .. MaxHandles] ==
  IF h = NoHandle \/ n = 0 THEN <<>> ELSE <<h>> \o Chain[link[h].next, n - 1]

Listed == ToSet(Chain[handles, MaxHandles])

(* What vmCollectGarbage() marks: what is held, and what that refers to. *)
Roots == ToSet(temp) \cup scripts \cup held \cup {link[h].value : h \in Listed}

RECURSIVE Marked(_)
Marked(some) ==
  LET more == some \cup UNION {refs[o] : o \in some}
  IN  IF more = some THEN some ELSE Marked(more)

First == Head(program)

Doing(instruction) == program # <<>> /\ First.do = instruction

(* The variables of an instruction have objects that were not freed. *)
Named ==
  {First[f] : f \in {"x", "y"} \cap DOMAIN First} \cup (IF First.do = "set" THEN First.to ELSE {})

Alive == First.do \in {"alloc", "pop"} \/ \A x \in Named : local[x] # Gone

Go ==
  /\ program' = Tail(program)
  /\ UNCHANGED <<op, operations, lost, misread>>

Gather(kept) ==
  /\ heap' = kept
  /\ kind' = [o \in Address |-> IF o \in kept THEN kind[o] ELSE "none"]
  /\ initialized' = [o \in Address |-> IF o \in kept THEN initialized[o] ELSE {}]
  /\ refs' = [o \in Address |-> IF o \in kept THEN refs[o] ELSE {}]
  /\ local' = [x \in DOMAIN local |-> IF local[x] \in kept THEN local[x] ELSE Gone]

Half(o) == ~(Fields(kind[o]) \subseteq initialized[o])

(* vmCollectGarbage(), called by vmRealloc() before any allocation, or by    *)
(* lang.gc().  All the fields of what is marked are read.                    *)
VmCollectGarbage ==
  /\ op = Idle \/ (program # <<>> /\ First.do \in {"alloc", "memory", "cache", "handle"})
  /\ LET kept == Marked(Roots \ {Gone})
     IN  /\ Gather(kept)
         /\ misread' = misread \cup {kind[o] : o \in {k \in kept : Half(k)}}
  /\ UNCHANGED <<roots, list, op, program, operations, lost>>

AllocObject ==
  /\ Doing("alloc")
  /\ Address \ heap # {}
  /\ LET a == CHOOSE a \in Address \ heap : \A b \in Address \ heap : a <= b
     IN  /\ heap' = heap \cup {a}
         /\ kind' = [kind EXCEPT ![a] = First.k]
         /\ local' = (First.x :> a) @@ local
  /\ Go
  /\ UNCHANGED <<initialized, refs, roots, list>>

AllocMemory ==
  /\ Doing("memory") /\ Alive
  /\ Go
  /\ UNCHANGED <<objects, roots, list, local>>

SetFields ==
  /\ Doing("set") /\ Alive
  /\ LET o == local[First.x]
     IN  /\ initialized' = [initialized EXCEPT ![o] = @ \cup First.fields]
         /\ refs' = [refs EXCEPT ![o] = @ \cup {local[y] : y \in First.to}]
  /\ Go
  /\ UNCHANGED <<heap, kind, roots, list, local>>

ChangeElements ==
  /\ Doing("add") \/ Doing("remove")
  /\ Alive
  /\ LET o == local[First.x]
         e == local[First.y]
     IN  refs' = [refs EXCEPT ![o] = IF First.do = "add" THEN @ \cup {e} ELSE @ \ {e}]
  /\ Go
  /\ UNCHANGED <<heap, kind, initialized, roots, list, local>>

VmPushTempRef ==
  /\ Doing("push") /\ Alive
  /\ temp' = Append(temp, local[First.x])
  /\ Go
  /\ UNCHANGED <<objects, scripts, held, list, local>>

VmPopTempRef ==
  /\ Doing("pop")
  /\ temp' = Front(temp)
  /\ Go
  /\ UNCHANGED <<objects, scripts, held, list, local>>

HoldOrDrop ==
  /\ Doing("hold") \/ Doing("drop")
  /\ Alive
  /\ held' = IF First.do = "hold" THEN held \cup {local[First.x]} ELSE held \ {local[First.x]}
  /\ Go
  /\ UNCHANGED <<objects, temp, scripts, list, local>>

CacheScript ==
  /\ Doing("cache") /\ Alive
  /\ scripts' = scripts \cup {local[First.x]}
  /\ Go
  /\ UNCHANGED <<objects, temp, held, list, local>>

UseObject ==
  /\ Doing("use") /\ Alive
  /\ Go
  /\ UNCHANGED <<objects, roots, list, local>>

(* vmNewHandle() *)
VmNewHandle(h) ==
  /\ Doing("handle") /\ Alive
  /\ h \notin unreleased
  /\ link' = [g \in Handle |->
                CASE g = h -> [value |-> local[First.x], prev |-> NoHandle, next |-> handles]
                  [] g # h /\ g = handles -> [link[g] EXCEPT !.prev = h]
                  [] OTHER -> link[g]]
  /\ handles' = h
  /\ unreleased' = unreleased \cup {h}
  /\ Go
  /\ UNCHANGED <<objects, roots, local>>

(* An instruction whose object was freed: what it does is undefined. *)
UseOfFreed ==
  /\ program # <<>> /\ ~Alive
  /\ lost' = lost \cup {First.x}
  /\ op' = "lost"
  /\ program' = <<>>
  /\ UNCHANGED <<objects, roots, list, local, operations, misread>>

(* The operations that begin: some need a script, some a handle. *)
Begin(name) ==
  /\ op = Idle
  /\ operations < MaxOperations
  /\ name \in OfScript => scripts # {}
  /\ name \in OfHost => unreleased # Handle
  /\ op' = name
  /\ program' = Program(name)
  /\ operations' = operations + 1
  /\ UNCHANGED <<objects, roots, list, local, lost, misread>>

(* The statement is over: the stack is empty again, C returns. *)
Finish ==
  /\ op \in Operation /\ program = <<>>
  /\ op' = Idle
  /\ held' = {}
  /\ local' = [x \in DOMAIN local \cap {"script", "main"} |-> local[x]]
  /\ UNCHANGED <<objects, temp, scripts, list, program, followed>>

(* A fault: the handle before keeps its link to the one released. *)
UnlinkNextOnly(h) ==
  LET l == link[h]
  IN  [g \in Handle |-> CASE g = h -> Nil
                          [] g # h /\ g = l.next -> [link[g] EXCEPT !.prev = l.prev]
                          [] OTHER -> link[g]]

(* The ends of the chain around a handle are connected. *)
Unlink(h) ==
  LET l == link[h]
  IN  [g \in Handle |-> CASE g = h -> Nil
                          [] g # h /\ g = l.next -> [link[g] EXCEPT !.prev = l.prev]
                          [] g # h /\ g = l.prev -> [link[g] EXCEPT !.next = l.next]
                          [] OTHER -> link[g]]

PkReleaseHandle(h) ==
  /\ op = Idle
  /\ h \in unreleased
  /\ handles' = IF h = handles THEN link[h].next ELSE handles
  /\ link' = Unlink(h)
  /\ unreleased' = unreleased \ {h}
  /\ UNCHANGED <<objects, roots, op, program, local, followed>>

(* pkFreeVM() frees all objects, and ends the program if a handle is left. *)
PkFreeVM ==
  /\ op = Idle
  /\ Gather({})
  /\ op' = IF handles = NoHandle THEN "freed" ELSE "aborted"
  /\ scripts' = {}
  /\ UNCHANGED <<temp, held, list, program, followed>>

Init ==
  /\ heap = {}
  /\ kind = [o \in Address |-> "none"]
  /\ initialized = [o \in Address |-> {}]
  /\ refs = [o \in Address |-> {}]
  /\ temp = <<>>
  /\ scripts = {}
  /\ held = {}
  /\ handles = NoHandle
  /\ link = [h \in Handle |-> Nil]
  /\ unreleased = {}
  /\ op = Idle
  /\ program = <<>>
  /\ local = <<>>
  /\ operations = 0
  /\ lost = {}
  /\ misread = {}

Next ==
  \/ \E name \in Operation : Begin(name)
  \/ AllocObject \/ AllocMemory \/ SetFields \/ ChangeElements
  \/ VmPushTempRef \/ VmPopTempRef \/ HoldOrDrop \/ CacheScript
  \/ UseObject \/ UseOfFreed
  \/ \E h \in Handle : VmNewHandle(h) \/ PkReleaseHandle(h)
  \/ Finish
  \/ VmCollectGarbage
  \/ PkFreeVM

Spec == Init /\ [][Next]_vars

-----------------------------------------------------------------------------
(* Properties *)

TypeOK ==
  /\ heap \subseteq Address
  /\ \A o \in heap : refs[o] \subseteq heap
  /\ op \notin {"freed", "aborted"} => Roots \subseteq heap
  /\ handles \in Handle \cup {NoHandle}
  /\ unreleased \subseteq Handle
  /\ op \in Operation \cup {Idle, "lost", "freed", "aborted"}
  /\ operations \in 0 .. MaxOperations

(* Whatever is collected inside a constructor, an operation does not use     *)
(* what was freed, but for these: a fiber whose stack is allocated           *)
(* (newFiber()), the list of a range that does not end at a whole number     *)
(* (rangeAsList()), and the text of a value that is called (OP_CALL).        *)
OnlyUnheldAreLost == lost \subseteq {"fiber", "numbers", "callable"}

(* A collection inside a constructor reads fields that are not set yet of    *)
(* functions, classes and instances, that are held before they are whole     *)
(* (newFunction(), newClass(), newInstance()); of nothing else.              *)
OnlySomeAreReadHalfMade == misread \subseteq {"func", "class", "inst"}

(* However the constructors call each other, each pops the references it     *)
(* pushed, and they do not need more than a quarter of the stack of them.    *)
TempsAreReturned ==
  /\ op \in {Idle, "freed", "aborted"} => temp = <<>>
  /\ 4 * Len(temp) <= MAX_TEMP_REFERENCE

(* Between operations all that is held is whole. *)
HeldAreWhole == op = Idle => \A o \in Marked(Roots) : ~Half(o)

(* What operations nest and when collections come, nothing is left half-done *)
(* when one has ended.                                                       *)
NothingIsHalfDone == TypeOK /\ TempsAreReturned /\ HeldAreWhole

(* Handles made and released in any order: those of the host are in the      *)
(* list once, with links that go both ways; their values are never freed.    *)
HandlesAreListed ==
  /\ Listed = unreleased
  /\ \A h \in unreleased :
       /\ link[h].next # NoHandle => link[link[h].next].prev = h
       /\ link[h].prev # NoHandle => link[link[h].prev].next = h
       /\ link[h].prev = NoHandle <=> h = handles
  /\ op = "freed" => unreleased = {}

HandlesKeepAlive == op \notin {"freed", "aborted"} => \A h \in unreleased : link[h].value \in heap

(* The list of handles is that of the host, and each holds its value, in     *)
(* whatever order they are released, and with collections in between         *)
(* (vmNewHandle(), pkReleaseHandle(), pkFreeVM()).                           *)
HandlesHold == HandlesAreListed /\ HandlesKeepAlive
=============================================================================
