------------------------------ MODULE Compiler ------------------------------
(***************************************************************************)
(* What the one-pass compiler keeps of the program it reads: scopes and    *)
(* locals, the size of the stack, the functions and the loops being        *)
(* compiled, and the flag of a call in tail position.                      *)
(*                                                                         *)
(* The program is any text without errors: each step is what the next      *)
(* tokens make the parser do, and parse is the chain of compile functions  *)
(* it is inside of.  Names, constants and most instructions are left out:  *)
(* an expression is the values it pushes and the operators that take them. *)
(*                                                                         *)
(* Beside what the compiler counts, the model follows what the emitted     *)
(* code does when it runs: the height of the function's stack, the slot a  *)
(* local's value is in, and where each resolved jump comes from.           *)
(***************************************************************************)
EXTENDS Integers, Sequences, FiniteSets

CONSTANTS
  TailCalls,            (* options are given and are not for debugging      *)
  Careless,             (* the programs in scope: see Assign and Literal    *)
  MaxNest, MaxHeight, MaxSize, MaxArgs, MaxBreaks  (* bounds *)

ASSUME CompilerAssumption ==
  /\ TailCalls \in BOOLEAN
  /\ Careless \subseteq {"assignment", "literal"}
  /\ MaxNest \in Nat /\ MaxHeight \in Nat /\ MaxSize \in Nat
  /\ MaxArgs \in Nat /\ MaxBreaks \in Nat

DEPTH_SCRIPT == -2
DEPTH_GLOBAL == -1

Blocks      == {"script", "function", "literal", "then", "else", "while", "for"}
Expressions == {"statement", "local", "return", "if", "condition", "sequence",
                "field", "or"}

VARIABLES
  parse,                (* the functions of the parser that are at work     *)
  scope_depth, locals,
  stack_size,           (* what the compiler takes for the stack's height   *)
  func, loop,           (* innermost last                                   *)
  new_local, is_last_call,
  jumps,                (* the jumps the last step resolved                 *)
  patched               (* the byte the last step made a tail call of       *)

vars == <<parse, scope_depth, locals, stack_size, func, loop, new_local,
          is_last_call, jumps, patched>>

Last(s)  == s[Len(s)]
Front(s) == SubSeq(s, 1, Len(s) - 1)
Larger(m, n) == IF m < n THEN n ELSE m

Fn   == Last(func)
Top  == Last(parse)
Loop == Last(loop)

(* A place in the code, as far as the stack can tell. *)
Here(h) == [fn |-> Len(func), height |-> h]

Jump(from, to) == [from |-> from, to |-> to]

(* The last bytes of the code are all that a tail call looks at. *)
Bytes == {"CALL", "TAIL_CALL", "POP", "byte"}
Operands(n) == [i \in 1 .. n |-> "byte"]
Pops(n) == [i \in 1 .. n |-> "POP"]
LastThree(s) == SubSeq(s, Larger(1, Len(s) - 2), Len(s))

(* Instructions are emitted that the compiler takes to push counted values *)
(* and that push so many.                                                  *)
Emitting(f, code, counted, pushed) ==
  [f EXCEPT !.size = Larger(@, stack_size + counted),
            !.height = @ + pushed,
            !.code = LastThree(@ \o code)]

Emit(code, counted, pushed) ==
  /\ stack_size + counted <= MaxSize
  /\ stack_size' = stack_size + counted
  /\ func' = Front(func) \o <<Emitting(Fn, code, counted, pushed)>>

(* compilerPopLocals(): the locals at this depth or deeper; and the others. *)
Popped(depth) == Cardinality({i \in 1 .. Len(locals) : locals[i].depth >= depth})

(* A fault: a block's own locals are among those of the block around it. *)
KeptInclusive(depth) ==
  SubSeq(locals, 1, Len(locals) - Cardinality({i \in 1 .. Len(locals) : locals[i].depth > depth}))

Kept(depth) == SubSeq(locals, 1, Len(locals) - Popped(depth))

(* compilerAddVariable(): the value will be in the next slot. *)
Local(depth, slot) == [depth |-> depth, slot |-> slot]

Enter(kind, h) == Append(parse, [kind |-> kind, height |-> h])
Instead(kind, h) == Append(Front(parse), [kind |-> kind, height |-> h])

NoJump == jumps' = {}
NoPatch == patched' = {}

-----------------------------------------------------------------------------
(* compile() *)
Init ==
  /\ parse = <<[kind |-> "script", height |-> 0]>>
  /\ scope_depth = DEPTH_GLOBAL
  /\ locals = <<>>
  /\ stack_size = 0
  /\ func = <<[depth |-> DEPTH_SCRIPT, size |-> 0, height |-> 0, code |-> <<>>]>>
  /\ loop = <<>>
  /\ new_local = FALSE
  /\ is_last_call = FALSE
  /\ jumps = {}
  /\ patched = {}

(* compileStatement() and compileTopLevelStatement() *)
AtStatement ==
  /\ parse # <<>>
  /\ Top.kind \in Blocks
  /\ is_last_call' = FALSE

AtTopLevel == Len(parse) = 1 /\ AtStatement

MayNest == Len(parse) < MaxNest

InExpression ==
  /\ parse # <<>>
  /\ Top.kind \in Expressions
  /\ Top.kind = "statement" /\ new_local => "assignment" \in Careless

(* compileExpression() returns: one value is on the stack. *)
Complete(kind) ==
  /\ parse # <<>>
  /\ Top.kind = kind
  /\ Fn.height = Top.height + 1

-----------------------------------------------------------------------------
(* Expressions *)

(* exprLiteral(), exprName(), exprValue(), the start of a list or a map, and *)
(* the value a compound assignment begins with.                              *)
Push ==
  /\ InExpression
  /\ Fn.height < MaxHeight
  /\ Emit(Operands(2), 1, 1)
  /\ is_last_call' = FALSE
  /\ NoJump /\ NoPatch
  /\ UNCHANGED <<parse, scope_depth, locals, loop, new_local>>

(* A fault: the flag of the last call is left as it was.  (The definitions   *)
(* said to be faults belong to no behaviour: the properties below detect     *)
(* them.)                                                                    *)
OperateOnCall(n) ==
  /\ InExpression
  /\ Fn.height > Top.height + n
  /\ Emit(Operands(1), -n, -n)
  /\ NoJump /\ NoPatch
  /\ UNCHANGED <<parse, scope_depth, locals, loop, new_local, is_last_call>>

(* A value takes the place of n + 1: the unary and binary operators, the     *)
(* attributes, the subscripts and their assignments, the elements of a list  *)
(* or a map, a variable assigned to, parentheses.                            *)
Operate(n) ==
  /\ InExpression
  /\ Fn.height > Top.height + n
  /\ Emit(Operands(1), -n, -n)
  /\ is_last_call' = FALSE
  /\ NoJump /\ NoPatch
  /\ UNCHANGED <<parse, scope_depth, locals, loop, new_local>>

(* exprCall() and exprChainCall(): the arguments are popped by the callee's *)
(* return, which the compiler does not count.                               *)
Call(argc, chain) ==
  /\ InExpression
  /\ Fn.height > Top.height + argc
  /\ chain => argc >= 1
  /\ Emit(<<"CALL", "byte">>, 0, -argc)
  /\ is_last_call' = ~chain
  /\ NoJump /\ NoPatch
  /\ UNCHANGED <<parse, scope_depth, locals, loop, new_local>>

(* exprOr() and exprAnd(), up to the second operand. *)
ShortCircuit ==
  /\ InExpression /\ MayNest
  /\ Fn.height > Top.height
  /\ Emit(Operands(3), -1, -1)
  /\ parse' = Enter("or", Fn.height - 1)
  /\ is_last_call' = FALSE
  /\ NoJump /\ NoPatch
  /\ UNCHANGED <<scope_depth, locals, loop, new_local>>

(* The two conditional jumps meet, then the two values. *)
EndShortCircuit ==
  /\ Complete("or")
  /\ Emit(Operands(3), 1, 0)
  /\ parse' = Front(parse)
  /\ is_last_call' = FALSE
  /\ jumps' = {Jump(Here(Top.height), Here(Fn.height - 1))}
  /\ NoPatch
  /\ UNCHANGED <<scope_depth, locals, loop, new_local>>

(* exprName(), of a name not seen before: the local exists before its value. *)
(* A careful program assigns a new name only as a statement of its own.      *)
Assign ==
  /\ InExpression /\ MayNest
  /\ scope_depth # DEPTH_GLOBAL
  /\ \/ Top.kind = "statement" /\ Fn.height = Top.height
     \/ "assignment" \in Careless
  /\ Fn.height < MaxHeight
  /\ locals' = Append(locals, Local(scope_depth, Fn.height))
  /\ parse' = Enter("local", Fn.height)
  /\ is_last_call' = FALSE
  /\ NoJump /\ NoPatch
  /\ UNCHANGED <<scope_depth, stack_size, func, loop, new_local>>

EndAssign ==
  /\ Complete("local")
  /\ Emit(Operands(1), 0, 0)
  /\ parse' = Front(parse)
  /\ new_local' = TRUE
  /\ is_last_call' = FALSE
  /\ NoJump /\ NoPatch
  /\ UNCHANGED <<scope_depth, locals, loop>>

-----------------------------------------------------------------------------
(* Functions *)

(* A fault: the parameters are not counted. *)
PushFuncUncounted(argc) ==
  /\ stack_size' = stack_size
  /\ func' = Append(func, [depth |-> scope_depth, size |-> 0,
                           height |-> argc, code |-> <<>>])
  /\ locals' = locals \o [i \in 1 .. argc |-> Local(scope_depth + 1, i - 1)]

(* compilerPushFunc(), and the parameters at a depth of their own. *)
PushFunc(argc) ==
  /\ stack_size + argc <= MaxSize
  /\ stack_size' = stack_size + argc
  /\ func' = Append(func, [depth |-> scope_depth, size |-> stack_size + argc,
                           height |-> argc, code |-> <<>>])
  /\ locals' = locals \o [i \in 1 .. argc |-> Local(scope_depth + 1, i - 1)]

(* compileFunction() of `def', up to the body. *)
Function(argc) ==
  /\ AtTopLevel
  /\ PushFunc(argc)
  /\ scope_depth' = scope_depth + 2
  /\ parse' = Enter("function", 0)
  /\ NoJump /\ NoPatch
  /\ UNCHANGED <<loop, new_local>>

(* exprFunc().  A careful program has literals only where there are no locals. *)
Literal(argc) ==
  /\ InExpression /\ MayNest
  /\ locals = <<>> \/ "literal" \in Careless
  /\ PushFunc(argc)
  /\ scope_depth' = scope_depth + 2
  /\ parse' = Enter("literal", 0)
  /\ is_last_call' = FALSE
  /\ NoJump /\ NoPatch
  /\ UNCHANGED <<loop, new_local>>

(* The third byte from the end becomes a tail call, if the last expression  *)
(* compiled was a call.                                                     *)
PatchEnd(code) ==
  patched' = IF TailCalls /\ is_last_call
             THEN {[at |-> "end", byte |-> LastThree(code)[1]]} ELSE {}

(* Leaving a function by its end: what it returns is at the bottom. *)
PopFunc(bottom, popped) ==
  jumps' = {Jump(Here(Fn.height - popped), Here(bottom))}

(* compileFunction(), from the `end' of the body. *)
EndFunction ==
  /\ parse # <<>> /\ Top.kind = "function"
  /\ LET popped == Popped(scope_depth - 1) IN
     /\ PatchEnd(Fn.code \o Pops(Popped(scope_depth)))
     /\ PopFunc(0, popped)
     /\ stack_size' = stack_size - popped
     /\ func' = Front(func)
  /\ locals' = Kept(scope_depth - 1)
  /\ scope_depth' = scope_depth - 2
  /\ parse' = Front(parse)
  /\ UNCHANGED <<loop, new_local, is_last_call>>

EndLiteral ==
  /\ parse # <<>> /\ Top.kind = "literal"
  /\ func[Len(func) - 1].height < MaxHeight
  /\ LET popped == Popped(scope_depth - 1)
         outer  == Front(func) IN
     /\ PatchEnd(Fn.code \o Pops(Popped(scope_depth)))
     /\ PopFunc(0, popped)
     /\ stack_size' = stack_size - popped + 1
     /\ func' = Front(outer) \o <<Emitting(Last(outer), Operands(2), 1 - popped, 1)>>
  /\ locals' = Kept(scope_depth - 1)
  /\ scope_depth' = scope_depth - 2
  /\ parse' = Front(parse)
  /\ is_last_call' = FALSE
  /\ UNCHANGED <<loop, new_local>>

(* compileType(): the instance stays at the bottom, and is returned. *)
Class ==
  /\ AtTopLevel
  /\ stack_size < MaxSize
  /\ stack_size' = stack_size + 1
  /\ func' = Append(func, [depth |-> scope_depth, size |-> stack_size + 1,
                           height |-> 1, code |-> Operands(2)])
  /\ scope_depth' = scope_depth + 1
  /\ parse' = Enter("class", 1)
  /\ NoJump /\ NoPatch
  /\ UNCHANGED <<locals, loop, new_local>>

Field ==
  /\ parse # <<>> /\ Top.kind = "class"
  /\ MayNest
  /\ parse' = Enter("field", Fn.height)
  /\ is_last_call' = FALSE
  /\ NoJump /\ NoPatch
  /\ UNCHANGED <<scope_depth, locals, stack_size, func, loop, new_local>>

EndField ==
  /\ Complete("field")
  /\ Emit(Operands(1), -1, -1)
  /\ parse' = Front(parse)
  /\ NoJump /\ NoPatch
  /\ UNCHANGED <<scope_depth, locals, loop, new_local, is_last_call>>

EndClass ==
  /\ parse # <<>> /\ Top.kind = "class"
  /\ stack_size' = stack_size - Popped(scope_depth)
  /\ PopFunc(1, Popped(scope_depth))
  /\ func' = Front(func)
  /\ locals' = Kept(scope_depth)
  /\ scope_depth' = scope_depth - 1
  /\ parse' = Front(parse)
  /\ NoPatch
  /\ UNCHANGED <<loop, new_local, is_last_call>>

-----------------------------------------------------------------------------
(* Statements *)

Expression ==
  /\ AtStatement /\ MayNest
  /\ parse' = Enter("statement", Fn.height)
  /\ new_local' = FALSE
  /\ NoJump /\ NoPatch
  /\ UNCHANGED <<scope_depth, locals, stack_size, func, loop>>

(* The value of the statement is dropped, or is the new local. *)
EndExpression ==
  /\ Complete("statement")
  /\ IF new_local THEN Emit(<<>>, 0, 0) ELSE Emit(<<"POP">>, -1, -1)
  /\ parse' = Front(parse)
  /\ new_local' = FALSE
  /\ NoJump /\ NoPatch
  /\ UNCHANGED <<scope_depth, locals, loop, is_last_call>>

Return ==
  /\ AtStatement /\ MayNest
  /\ scope_depth # DEPTH_GLOBAL
  /\ parse' = Enter("return", Fn.height)
  /\ NoJump /\ NoPatch
  /\ UNCHANGED <<scope_depth, locals, stack_size, func, loop, new_local>>

(* A call just emitted becomes a tail call, two bytes from the end. *)
EndReturn ==
  /\ Complete("return")
  /\ LET n == Len(Fn.code) IN
     IF TailCalls /\ is_last_call
     THEN /\ patched' = {[at |-> "return", byte |-> Fn.code[n - 1]]}
          /\ Emit(<<"TAIL_CALL", Fn.code[n], "byte">>, -1, -1)
     ELSE patched' = {} /\ Emit(<<"byte">>, -1, -1)
  /\ is_last_call' = (is_last_call /\ ~TailCalls)
  /\ parse' = Front(parse)
  /\ NoJump
  /\ UNCHANGED <<scope_depth, locals, loop, new_local>>

(* compileFromImport() and compileRegularImport(): the module, and each of *)
(* its names, on the stack in turn.                                        *)
Import(names) ==
  /\ AtTopLevel
  /\ stack_size + 1 + names <= MaxSize
  /\ func' = Front(func) \o <<Emitting(Emitting(Fn, <<>>, 1 + names, 0), <<"POP">>, 0, 0)>>
  /\ NoJump /\ NoPatch
  /\ UNCHANGED <<parse, scope_depth, locals, stack_size, loop, new_local>>

(* compileBlockBody() has read the block: it pops the locals, and the code *)
(* goes on from there.                                                     *)
ExitBlock(code) ==
  LET popped == Popped(scope_depth) IN
  /\ Emit(Pops(popped) \o code, -popped, -popped)
  /\ locals' = Kept(scope_depth)
  /\ scope_depth' = scope_depth - 1

AfterBlock == Here(Fn.height - Popped(scope_depth))

(* compileIfStatement() *)
If ==
  /\ AtStatement /\ MayNest
  /\ parse' = Enter("if", Fn.height)
  /\ NoJump /\ NoPatch
  /\ UNCHANGED <<scope_depth, locals, stack_size, func, loop, new_local>>

Then ==
  /\ Complete("if")
  /\ Emit(Operands(3), -1, -1)
  /\ parse' = Instead("then", Fn.height - 1)
  /\ scope_depth' = scope_depth + 1
  /\ NoJump /\ NoPatch
  /\ UNCHANGED <<locals, loop, new_local, is_last_call>>

(* Of the then block the jump over the rest, of the rest the failed condition. *)
Else ==
  /\ parse # <<>> /\ Top.kind = "then"
  /\ LET popped == Popped(scope_depth) IN
     Emit(Pops(popped) \o Operands(3), -popped, -popped)
  /\ locals' = Kept(scope_depth)
  /\ parse' = Instead("else", Fn.height - Popped(scope_depth))
  /\ jumps' = {Jump(Here(Top.height), AfterBlock)}
  /\ NoPatch
  /\ UNCHANGED <<scope_depth, loop, new_local, is_last_call>>

(* The nested statement is in a block of its own. *)
Elsif ==
  /\ parse # <<>> /\ Top.kind = "then" /\ MayNest
  /\ LET popped == Popped(scope_depth) IN
     /\ Emit(Pops(popped) \o Operands(3), -popped, -popped)
     /\ parse' = Instead("elsif", Fn.height - popped)
                 \o <<[kind |-> "if", height |-> Fn.height - popped]>>
  /\ locals' = Kept(scope_depth)
  /\ is_last_call' = FALSE
  /\ jumps' = {Jump(Here(Top.height), AfterBlock)}
  /\ NoPatch
  /\ UNCHANGED <<scope_depth, loop, new_local>>

EndIf ==
  /\ parse # <<>> /\ Top.kind \in {"then", "else", "elsif"}
  /\ ExitBlock(<<>>)
  /\ parse' = Front(parse)
  /\ jumps' = {Jump(Here(Top.height), AfterBlock)}
  /\ NoPatch
  /\ UNCHANGED <<loop, new_local, is_last_call>>

(* compileWhileStatement() *)
NewLoop(h) == [depth |-> scope_depth, start |-> Here(h), patches |-> {}]

While ==
  /\ AtStatement /\ MayNest
  /\ loop' = Append(loop, NewLoop(Fn.height))
  /\ parse' = Enter("condition", Fn.height)
  /\ NoJump /\ NoPatch
  /\ UNCHANGED <<scope_depth, locals, stack_size, func, new_local>>

Do ==
  /\ Complete("condition")
  /\ Emit(Operands(3), -1, -1)
  /\ parse' = Instead("while", Fn.height - 1)
  /\ scope_depth' = scope_depth + 1
  /\ NoJump /\ NoPatch
  /\ UNCHANGED <<locals, loop, new_local, is_last_call>>

(* The jump back, and all that leave the loop. *)
LoopJumps ==
  {Jump(AfterBlock, Loop.start), Jump(Here(Top.height), AfterBlock)}
    \cup {Jump(p, AfterBlock) : p \in Loop.patches}

EndWhile ==
  /\ parse # <<>> /\ Top.kind = "while"
  /\ ExitBlock(Operands(3))
  /\ loop' = Front(loop)
  /\ parse' = Front(parse)
  /\ jumps' = LoopJumps
  /\ NoPatch
  /\ UNCHANGED <<new_local, is_last_call>>

(* compileForStatement(): the sequence, the iterator and the value are locals. *)
For ==
  /\ AtStatement /\ MayNest
  /\ Fn.height + 3 <= MaxHeight
  /\ scope_depth' = scope_depth + 1
  /\ locals' = Append(locals, Local(scope_depth + 1, Fn.height))
  /\ parse' = Enter("sequence", Fn.height)
  /\ NoJump /\ NoPatch
  /\ UNCHANGED <<stack_size, func, loop, new_local>>

Iterate ==
  /\ Complete("sequence")
  /\ Emit(Operands(3), 2, 2)
  /\ locals' = locals \o <<Local(scope_depth, Fn.height), Local(scope_depth, Fn.height + 1)>>
  /\ loop' = Append(loop, NewLoop(Fn.height + 2))
  /\ parse' = Instead("for", Fn.height + 2)
  /\ scope_depth' = scope_depth + 1
  /\ NoJump /\ NoPatch
  /\ UNCHANGED <<new_local, is_last_call>>

(* Two blocks end: what leaves the loop arrives between them. *)
EndFor ==
  /\ parse # <<>> /\ Top.kind = "for"
  /\ LET popped == Popped(scope_depth - 1) IN
     Emit(Operands(3) \o Pops(popped - Popped(scope_depth)), -popped, -popped)
  /\ locals' = Kept(scope_depth - 1)
  /\ scope_depth' = scope_depth - 2
  /\ loop' = Front(loop)
  /\ parse' = Front(parse)
  /\ jumps' = LoopJumps
  /\ NoPatch
  /\ UNCHANGED <<new_local, is_last_call>>

(* A fault: the locals at the depth of the loop are popped too. *)
LeaveLoop == Popped(Loop.depth)

(* break and continue pop the locals of the loop's body but keep them for  *)
(* the code that follows.  In a literal, the loop may be another           *)
(* function's: a careful program has none.                                 *)
InLoop ==
  /\ loop # <<>>
  /\ Loop.start.fn = Len(func) \/ "literal" \in Careless

LeaveBody == Popped(Loop.depth + 1)

Leap(code) ==
  func' = Front(func) \o <<Emitting(Fn, Pops(LeaveBody) \o code, 0, 0)>>

Break ==
  /\ AtStatement /\ InLoop
  /\ Cardinality(Loop.patches) < MaxBreaks
  /\ Leap(Operands(3))
  /\ loop' = Front(loop) \o
       <<[Loop EXCEPT !.patches = @ \cup {Here(Fn.height - LeaveBody)}]>>
  /\ NoJump /\ NoPatch
  /\ UNCHANGED <<parse, scope_depth, locals, stack_size, new_local>>

Continue ==
  /\ AtStatement /\ InLoop
  /\ Leap(Operands(3))
  /\ jumps' = {Jump(Here(Fn.height - LeaveBody), Loop.start)}
  /\ NoPatch
  /\ UNCHANGED <<parse, scope_depth, locals, stack_size, loop, new_local>>

(* compile(): the end of the script. *)
EndScript ==
  /\ AtTopLevel
  /\ PopFunc(0, 0)
  /\ parse' = <<>>
  /\ NoPatch
  /\ UNCHANGED <<scope_depth, locals, stack_size, func, loop, new_local>>

Next ==
  \/ Push
  \/ \E n \in 0 .. 2 : Operate(n)
  \/ \E argc \in 0 .. MaxArgs, chain \in BOOLEAN : Call(argc, chain)
  \/ ShortCircuit \/ EndShortCircuit
  \/ Assign \/ EndAssign
  \/ \E argc \in 0 .. MaxArgs : Function(argc)
  \/ \E argc \in 0 .. MaxArgs : Literal(argc)
  \/ EndFunction \/ EndLiteral
  \/ Class \/ Field \/ EndField \/ EndClass
  \/ Expression \/ EndExpression
  \/ Return \/ EndReturn
  \/ \E names \in 0 .. 1 : Import(names)
  \/ If \/ Then \/ Else \/ Elsif \/ EndIf
  \/ While \/ Do \/ EndWhile
  \/ For \/ Iterate \/ EndFor
  \/ Break \/ Continue
  \/ EndScript

Spec == Init /\ [][Next]_vars

-----------------------------------------------------------------------------
Places == [fn : Nat \ {0}, height : Int]

(* The compiler's records have their types, and the size it counts with    *)
(* never falls below zero (the assertion of compilerChangeStack()).        *)
TypeOK ==
  /\ \A i \in 1 .. Len(parse) :
       parse[i] \in [kind : Blocks \cup Expressions \cup {"class", "elsif"}, height : Nat]
  /\ scope_depth \in Int /\ scope_depth >= DEPTH_GLOBAL
  /\ \A i \in 1 .. Len(locals) : locals[i] \in [depth : Nat, slot : Nat]
  /\ stack_size \in Nat
  /\ Len(func) >= 1
  /\ \A i \in 1 .. Len(func) :
       /\ func[i].depth \in Int /\ func[i].size \in Nat /\ func[i].height \in Nat
       /\ Len(func[i].code) <= 3
       /\ \A b \in 1 .. Len(func[i].code) : func[i].code[b] \in Bytes
  /\ \A i \in 1 .. Len(loop) :
       loop[i].depth \in Int /\ loop[i].start \in Places /\ loop[i].patches \subseteq Places
  /\ new_local \in BOOLEAN /\ is_last_call \in BOOLEAN
  /\ \A j \in jumps : j.from \in Places /\ j.to \in Places
  /\ \A p \in patched : p.at \in {"return", "end"} /\ p.byte \in Bytes

(* The locals of the function being compiled. *)
Own == {i \in 1 .. Len(locals) : locals[i].depth > Fn.depth}

(* The index compilerSearchName() gives a local, which OP_PUSH_LOCAL and   *)
(* OP_STORE_LOCAL use, is the slot its value is in; and between statements *)
(* there is nothing on the stack but the function's locals.                *)
LocalsAtSlots ==
  /\ \A i \in Own : locals[i].slot = i - 1
  /\ parse # <<>> /\ Top.kind \in Blocks => Fn.height = Cardinality(Own)

(* Every way to a label leaves the same stack: the branches of a condition, *)
(* the end of a loop and each break, its start and each continue; and a     *)
(* function that ends without a return has only its result left.            *)
JumpsAgree == \A j \in jumps : j.from = j.to

(* The size given to a function, which the call reserves, covers what its  *)
(* code has on the stack, and each function's count is its own.            *)
RoomCounted ==
  /\ TypeOK
  /\ \A i \in 1 .. Len(func) : func[i].height <= func[i].size
  /\ stack_size >= Fn.height

(* `return f()' turns a call into a tail call, never another instruction.  *)
ReturnedCall == \A p \in patched : p.at = "return" => p.byte = "CALL"

=============================================================================
