# Verification of the atomlang VM

atomlang is a small embeddable scripting language written in C: a one-pass compiler to bytecode, a
stack machine with fibers (coroutines), a mark and sweep garbage collector and a C API for the
host program. The TLA+ modules here model the parts of it that are correct only if long sequences
of operations keep two or more pieces of state in step, check them with TLC on small instances,
and prove the main results with TLAPS for every instance.

Paths below are relative to the sources, `src/src/` for the VM and `src/cli/` for the command
line; line numbers are those that `PROJECT.json` ("map", "hazards", "findings") gives for every
definition.

## 1. Inventory

| Component | State it keeps | Operations | Where |
|---|---|---|---|
| Fibers and the bytecode loop | `vm->fiber`; of each fiber `state`, `caller`, `sp`, `ret`, `frames`, `error`; the C stack of nested `runFiber()` and natives | `pkNewFiber`, `pkRunFiber`, `pkResumeFiber`, `pkInterpretSource`, `vmPrepareFiber`, `vmSwitchFiber`, `vmYieldFiber`, `FIBER_SWITCH_BACK`, `OP_CALL`, `OP_TAIL_CALL`, `OP_RETURN`, `OP_IMPORT`, errors; natives `yield`, `Fiber.new/run/resume` | `pk_vm.c`, `pk_core.c` |
| Call frames and the growing stack | the block `fiber->stack`, `stack_size`, `sp`, `ret`, each frame's `rbp`, `frame_capacity` | `newFiber`, `growStack`, `pushCallFrame`, `reuseCallFrame`, push and pop | `pk_vm.c`, `pk_var.c` |
| Map object | `entries` with tombstones, `capacity`, `count` | `mapSet`, `mapGet`, `mapRemoveKey`, `mapClear`, `_mapResize` | `pk_var.c` |
| Heap and garbage collector | the chain `vm->first`, `is_marked`, `working_set`, `bytes_allocated`, `next_gc` | `vmRealloc`, `vmCollectGarbage`, `markObject`, `popMarkedObjects`, `freeObject`, `lang.gc()` | `pk_vm.c`, `pk_var.c` |
| Constructors and temporary roots | `temp_reference[16]` | `new...()`, `vmPushTempRef`, `vmPopTempRef` | `pk_var.c` |
| Handles | the doubly linked list `vm->handles` | `vmNewHandle`, `pkReleaseHandle` | `pk_vm.c` |
| Buffers and lists | `data`, `count`, `capacity` | `Reserve`, `Write`, `Concat`, `Clear`, `listInsert`, `listRemoveAt`, `listJoin`, subscripts | `pk_buffers.h`, `pk_var.c`, `pk_core.c` |
| Loops | the iterator and the container, on the stack | `OP_ITER_TEST`, `OP_ITER`, `OP_LOOP` | `pk_vm.c` |
| Values that refer to values | the recursion of C, the chain of sequences being written | `isValuesEqual`, `varContains`, `toString`, `toRepr` | `pk_var.c`, `pk_core.c` |
| Instances, classes, scripts, functions | names, fields, globals, literals | attributes, `scriptAddName`, `scriptAddGlobal` | `pk_var.c` |
| Module cache and imports | `vm->scripts`, `script->initialized` | `importScript`, `OP_IMPORT`, `compilerImport...`, `vmGetScript` | `pk_vm.c`, `pk_compiler.c` |
| Compiler | the chain of functions, locals and depth, `stack_size`, loops' patches, forward names | `compile`, `compileFunction`, `compileStatement`, ... | `pk_compiler.c` |
| Lexer | `token_start`, `current_char`, `current_line`; the tokens `previous`, `current`, `next` | `lexToken` and the `eat...` and `skip...` functions | `pk_compiler.c` |
| Parser | the functions under way, `has_errors`, `need_more_lines`, `l_value`, forward names | `parsePrecedence`, the rules, `compile...Statement`, `consume`, `parseError` | `pk_compiler.c` |
| REPL | the lines typed so far | `repl` | `src/cli/repl.c` |
| Core library | none but the modules' globals | operators, subscripts, attributes, string functions | `pk_core.c` |
| Command line, native modules | files | I/O around the API | `src/cli/*.c` |
| Vendored code | - | paths, arguments, directories | `src/cli/thirdparty` |

**How they interact.** The host calls the API; the API compiles a script (the compiler allocates
objects, so it is itself a root of the collector), makes a fiber of its body and runs it.
`runFiber()` executes the bytecode of `vm->fiber`; an `OP_CALL` of a native calls C code *inside*
the loop, and that code may allocate (collect), change `vm->fiber` (the fiber natives), or call
the API, which nests a second `runFiber()` in the C stack. Every allocation goes through
`vmRealloc()`, and any of them may begin a collection, whose roots are the current fiber and its
callers, the handles, the temporary references, the scripts and the compiler.

**What is hard.** Nothing is parallel; there is one thread. What interleaves is: the fibers, the
natives they call and the host, over the one variable `vm->fiber`; collections, with everything
that allocates; calls that move the stack, with the pointers C code holds into it; and the body of
a loop, with the container it goes over. The compiler works through a window of three tokens and a
dozen fields that its mutually recursive functions all write. Errors cut any of these short. No
persistence, no messages and no timeouts exist, so crash recovery, delivery and retries are not
hazards of this code.

**What makes each component correct.** *Fibers*: control always comes back to the fiber that gave
it, at the call that gave it; an abandoned or finished fiber is never re-entered. *Call stack*:
the compiler's count of slots is enough at every depth, and no pointer is left behind by a move.
*Maps*: whatever was inserted, removed and resized, a map is a function from its keys to their
last values, and a probe ends. *Collector*: it frees what nothing leads to, exactly, and ends.
*Constructors*: what is being built is rooted, and whole, at every allocation, and temporary
references are given back. *Handles*: each is in the list once and holds its value until it is
released. *Lists and loops*: a list is a sequence whatever room its buffer has; a loop visits all
that stays, once, and ends. *Values*: what is written, compared or searched ends although values
refer to each other in cycles, and shared parts are not taken for cycles. *Lexer*: tokens are what
the text says, with the line they are on. *Parser*: what compiles is right, an incomplete line is
told from a wrong one, and parsing ends. *Imports*: a module's body runs once, before anyone uses
its globals, and a failed compilation leaves no name and moves none. *Compiler*: a local's index
is its slot, all ways to a label leave the same stack, and the static size of the stack covers the
dynamic one. The hazards, each at its line, are in `PROJECT.json`.

## 2. Plan

Order: what everything else runs on first.

| # | Modules | Abstract specification | Proofs | Status |
|---|---|---|---|---|
| 1 | `Fibers`, `Coroutines`, `MCFibers` | asymmetric coroutines | `FibersProofs`: everything but the liveness | done |
| 2 | `HashMap`, `Dictionary`, `MCHashMap` | a partial function | `HashMapProofs`: everything checked | done |
| 3 | `Heap`, `Collector`, `MCHeap` | a collector of one step | `HeapProofs`: everything but the liveness | done |
| 4 | `CallStack`, `MCCallStack` | - | `CallStackProofs`: everything checked | done |
| 5 | `Compiler`, `MCCompiler`: blocks, locals, `stack_size`, jumps, tail calls | gives `CallStack` the sizes it assumes | `CompilerProofs`: everything checked, for careful programs | done |
| 6 | `Imports`, `MCImports`: cache, nested and failed compilations, forward names, bodies run once | - | `ImportsProofs`: everything checked | done |
| 7 | `Lexer`, `TokenSource`, `MCLexer`: characters to tokens, the window of three | `TokenSource` | `LexerProofs`: everything but the liveness | done |
| 8 | `Parser`, `MCParser`: the recursive descent over `TokenSource`, and the REPL | - | `ParserProofs`: everything but the liveness | done |
| 9 | `Iteration`, `Lists`, `MCIteration`: buffers, lists, loops over what changes (with `HashMap`) | `Lists`: sequences | - | modelled and checked |
| 10 | `Values`, `MCValues`: writing, comparing and searching values that refer to each other | reference definitions | - | modelled and checked |
| 11 | `Roots`, `MCRoots`: constructors allocation by allocation, temporary references, handles | - | - | modelled and checked |

Further theorems worth proving: `ListsAreSequences` and `LoopsVisitAll`. `Iteration` fills its
buffers with a fold over a sequence, so a proof would begin with lemmas about that fold, as
`LexerProofs` begins with the recursive functions of `Lexer`. `Values` and `Roots` define
reachability with RECURSIVE operators, which the prover does not take: there a proof would begin by
stating them as `Heap` does, with the least closed set.

## 3. The modules

### Fibers

`Fibers.tla` models the control of `runFiber()` and all that switches fibers. Its variables are
the fields of the C structures (`fiber`, `state`, `caller`, `frames`, `sp`, `ret`, `error`), the
value in the slot `ret` points to (`retval`), the result of the last API call, and `cstack`, the C
stack: a `"run"` entry is an invocation of `runFiber()`, a `"builtin"` entry a call of a core
function, a `"native"` entry a call of a host function. The last entry says who takes the next
step; a host native on top may call the API again, exactly as the host itself may when the C stack
is empty. `result` is what the host code that executes got from its last call of the API.

Each invocation of `runFiber()` keeps `ip`, `rbp`, `frame` and `script` in registers of its own.
After a native it loads them again only if `vm->fiber` has changed (`Reload`, `pk_vm.c:995`). A
native that calls the API may have had the very fiber that called it executed by the nested
invocation: when the fiber that the native runs yields or returns, the nested loop goes on with its
caller. `register[d]` is `rbp` of the invocation at depth `d` of the C
stack; `OP_RETURN` stores its value there (`ReturnFromCall`). Two variables are not in the code:
`loaded[f]`, the depth of the invocation that last loaded registers from `f`'s frame, and
`astray`, the fibers to which an invocation has returned with registers it did not load last. Of
code that goes on at a height it was not compiled for nothing is known, so a fiber astray may pop
down to the bottom of its stack (`Floor`).

An action is a handler: `HostRun` is `pkRunFiber()` down to the nested loop it enters,
`CallFiberResume` is `OP_CALL` with everything `stdFiberResume()` and `vmSwitchFiber()` do,
`AfterNative` is the rest of `OP_CALL` after any native returned (where the code looks at
`vm->fiber` again). `Evaluate` stands for every run of instructions that only push and pop. A
stack is its offsets; a slot's content matters only at `ret`. Bytecode is any sequence that stays
above its parameters, as compiled code does.

`Coroutines.tla` is what fibers promise: a stack of activations, of which only the last executes,
suspends or finishes; leaving goes to the one below.

### HashMap

`HashMap.tla` models the open-addressing table of `pk_var.c`. A probe is one definition
(`FindEntry`, by the distances at which the loop of `_mapFindEntry()` stops and the tombstones it
passes); a resize is a step per entry copied, so the table is also examined half-way. Keys are
what `isValuesEqual()` tells apart, their hashes any function. `mapClear()` has one caller, the
removal of the last key, and is part of that action. `Dictionary.tla` is the abstract map.

### Heap

`Heap.tla` models `vmRealloc()` and the collector: a collection begins inside an allocation that
passes `next_gc`, before its memory is there, or in `lang.gc()`; each pop of the working set and
each object swept is a step. `kind` distinguishes the objects the collector treats differently:
one whose buffer is freed by `BufferClear()` (its bytes are subtracted), one whose array is
deallocated (they are not), and an instance (its fields are not marked). `bytes_allocated` is a
`size_t` that wraps. The order of the working set and of the chain is left out: any order is
allowed, so the code's is. The roots are what the program holds; that each constructor holds what
it builds is in `Roots`. `Collector.tla` is a collector that in one step leaves the
reachable objects.

### CallStack

`CallStack.tla` is one fiber's stack in memory: a pointer is a block and a slot, and `growStack()`
may get any block from `realloc()`. Function sizes and arities are constants, as the compiler
leaves them in `Fn`. A pointer computed from a stale one is `Wild`; execution past the use of a
stale stack pointer is undefined in C and the model stops there.

### Compiler

`Compiler.tla` is the one-pass compiler as far as it keeps state between tokens: `parse` is the
chain of `compile...()` functions at work, with the height of the stack where each began;
`scope_depth`, `locals`, `stack_size`, `func`, `loop`, `new_local` and `is_last_call` are the
fields of `Compiler`. The program is any text without errors, so an action is what the next tokens
make the parser do, down to the point where it needs another choice. An expression is the values
it pushes and the operators that take them, in the order they are emitted.

Three things are followed that the compiler does not have: of each function the real `height` of
its stack (a call pops its arguments, which `compilerChangeStack()` is not told), the `slot` in
which a local's value is, and in `jumps` and `patched` the jumps and tail calls the last step
resolved. After a `break`, `continue` or `return` the height is that of the text, not of the
(unreachable) code.

`Careless` selects two kinds of programs the code compiles wrongly, so that what follows from them
can be kept apart: assignment of a *new* name inside an expression (`x = y = 3`, `f(x = 1)`),
where the name's index is not the slot of its value and the counts go wrong; and function literals
where the enclosing function has locals, or with a `break` for a loop around the literal. The run
has neither; with either, `LocalsAtSlots` or `JumpsAgree` fails.

### Imports

`Imports.tla` has the cache `vm->scripts`, the tables of names of each script by index, the chain
of compilers (`importFile()` compiles inside the compilation of the script that imports) and the
frames of the bodies that run. A source is any text: an action is a statement at the top level as
far as names go (`AssignName`, `CallName` of a name not yet defined, `DefineFunction`, an import
and what it binds) or an error, after which parsing goes on, as it does in the code. `compile()`'s
end resolves the forward names, and discards what it added if anything failed. What a source says
may be different each time it is loaded, and `Interpret` of a path that is cached compiles into
the same script, as the REPL does at every line.

Followed besides the state of the code: `held`, the indices that compiled code refers to, `kept`,
the names as the last successful compilation left them, and `ran`, what became of a body.

The path of a script that failed stays in the cache with the code compiled so far, and so does
that of a script being compiled: importing one of these emits `OP_IMPORT` and no more
(`ImportCached`), and the body runs as it is.

### Lexer and TokenSource

`Lexer.tla` has the text as a sequence of characters and the compiler's fields that go over it:
where the next token begins (`current_char`), the line it is on, and the three tokens `previous`,
`current` and `next`. One action, `LexToken`, is `lexToken()`: it shifts the window and lexes one
token, by functions that say where each kind ends (`StringEnd`, `NumberEnd`, `SymbolEnd`, ...);
the properties define the same tokens by what they are instead of how they are found.
`ReadPastTheEnd` is the one step that is not lexing: a backslash before the end of the text makes
`eatString()` read on in foreign memory.

`TokenSource.tla` is the window as the parser needs it: any next token may come, and an error is
reported while a token is lexed, which is *two tokens before* the parser uses it. `Lexer` is shown
to implement it, and `Parser` is built on it.

### Parser

`Parser.tla` is the recursive descent. `todo` is what the functions under way have still to do: a
sequence of small tasks, each a function of the parser at a point where it waits for the next
token. A task takes its place with what that function does there (`IfRest` is
`compileIfStatement()` after the condition's block, and so on). The text is not given in advance:
the source chooses each token as it is lexed, among those of a *vocabulary*, and so the run covers
every text of that vocabulary that does not nest deeper than the bound. `has_errors`,
`need_more_lines` and `l_value` are fields of `Compiler`; `lines` and `more` are `repl()`'s.
Followed besides: `wrong` (something in the text is not right, reported or not), `first` (whether
the first error came at the end of the text), `printed`, and `nest`, the brackets and blocks open
in the text.

### Iteration and Lists

`Iteration.tla` has the lists of a program in their buffers, with the room in them and the junk in
that room, and one `for` loop, whose body may do to the container what programs can: append,
replace, remove and insert. The map it may go over is the table of `HashMap`, by INSTANCE, with
all its actions, also the resizes. `Lists.tla` is what lists promise, a sequence each; that sums
with an empty list are the other operand itself is in both. `listInsert()` and `listRemoveAt()`
have no caller in the program; they are modelled as the interface they are, and may change what a
loop goes over.

### Values

`Values.tla` has three things (lists, maps, instances; a map by its keys and values in turn) that
refer to each other in any way, and strings and a number. `PrintElement` and `PrintClose` are
`_toStringInternal()`, a call at a time: `stack` is the recursion of C and a call's `outer` is the
chain of sequences that the code keeps to find cycles. `CompareElements` is `isValuesEqual()`,
`VarContains` and `SearchNext` are `in`. `MaxDepth` is the end of the stack of C (`"overflow"`),
`"aborted"` is where the code dereferences NULL or says `TODO` or `UNREACHABLE`.

### Roots

`Roots.tla` has each operation that allocates as a *program*: the sequence of what it does to the
heap and the roots, `Alloc`, `Memory` (an array), `Push`, `Pop` (temporary references), `Set`
(fields), `Add`, `Use` and so on, in the order of the code with the calls it makes written out.
One instruction is one step, and every `Alloc` and `Memory` may collect. An object that an
instruction uses after it was freed is *lost*, one that the marking reads before its fields are
set is *misread*; the properties say which can be. An operation that lost something is not
continued. Handles are a linked list of `prev` and `next`.

### Fault operators

The definitions introduced as "a fault" (or as mutations, in `Fibers`) belong to no behaviour.
Each is a slip the code could have, in the place of the definition it precedes; `PROJECT.json`
("mutants") lists which property detects which. Several properties are conjunctions of parts, type
invariant included, that are stated one by one above them in the module.

## 4. What the runs check

`tlc -config X.cfg M` for the modules and configurations below.

| Run | Config (module) | Distinct states | Shows |
|---|---|---|---|
| `fibers_control` | `FibersControl.cfg` (`MCFibers`) | 1,505,938 | with three fibers: callers are running fibers, each waits for one, no cycle; a waiting fiber has the slot of its call on top of its stack; the whole is a stack of coroutines; the loop keeps registers not its own only after an error of a nested call |
| `fibers_frames` | `FibersFrames.cfg` (`MCFibers`) | 3,248,876 | with two fibers, two frames, a value: frames nested above their callers' operands, the registers those of the frame that executes (but for fibers astray), suspended fibers untouched |
| `hash_map` | `HashMap.cfg` (`MCHashMap`) | 217,836 | every key in one slot and found there also in a resize, a free slot for every probe, a dictionary for the caller |
| `heap` | `Heap.cfg` (`MCHeap`) | 230,233 | three colours, nothing reachable freed at any step, exactly the unreachable freed, the collection ends |
| `call_stack` | `CallStack.cfg` (`MCCallStack`) | 496,478 | room for every frame's slots, frames stacked, pointers moved with the stack |
| `compiler` | `Compiler.cfg` (`MCCompiler`) | 2,398,466 | a local's index is its slot; branches, loops, breaks and short-circuits agree on the stack; the size counted covers the code; `return f()` patches a call |
| `imports` | `Imports.cfg` (`MCImports`) | 1,973,532 | no script compiled by two compilers at once; indices in compiled code stay right, names of failed compilations go; a body runs once, and before what follows its import |
| `lexer` | `Lexer.cfg` (`MCLexer`) | 165,784 | every token is the longest that is written there, of the right type, on its line, and nothing between tokens is lost; the window is `TokenSource`; texts end |
| `parser` | `Parser.cfg` (`MCParser`) | 599,300 | what compiles has no error and its brackets agree; more lines are asked for only if the text is right so far, and kept then; compilations end |
| `iteration` | `Iteration.cfg` (`MCIteration`) | 286,672 | lists are sequences through every growth and shrinking; loops visit what stays, once and in order, read nothing unwritten, and end |
| `values` | `Values.cfg` (`MCValues`) | 541,942 | what is written is the value, cut only where it is inside itself; equality and `in` answer by elements; the recursions end |
| `roots` | `Roots.cfg` (`MCRoots`) | 322,662 | what a collection inside a constructor can free too early or read half-made, and that it is no more than three of each; temporary references given back; handles listed and their values alive |

**Bounds, and why they are enough.** *Fibers*: three fibers are the least in which a chain of
callers has a middle, and switches to a callee's callee or a caller's caller exist; a C stack of
four holds a loop, a native in it, a nested loop and a native in that. It takes two fibers and all
four entries to lead a fiber astray: the last is `Fiber.resume()`, called by the fiber in the
nested loop, of the fiber that will fail. Frames and values are kept
to one in the run about control, and grow in the other, which needs only two fibers, one with a
parameter. The three fibers of the control run are alike (no parameters), and interchangeable,
which its symmetry uses (its properties are safety properties). *HashMap*: tables of 4 and 8 slots, from none, reach growth, shrinking, the
last key's removal, and reuse of tombstones; of the five keys two collide always, others in the
small table only, and one wraps around the end. The real `MIN_CAPACITY` is 8: the proofs hold for
every one above 1. *Heap*: two objects have the graphs with a cycle of one and of two, an object
held twice, and one reachable only through another; longer chains are left to the proofs, which
cover any number; limits of a few units make a collection possible at almost every allocation; a
`size_t` of four bits wraps. *CallStack*: a stack of 4 slots that doubles twice, an array of 2
frames that doubles once, functions with 0, 1 and 2 parameters that need 3, 2 and 5 slots.
*Compiler*: four constructs nested and five slots hold a `for` (three locals) in a function or a
loop with a local and a `break` in its body, an assignment whose value is a literal or a
short-circuit, and calls of up to two arguments in sequence, whose drift of the count makes
`stack_size` reach its bound. *Imports*: two scripts make a cycle of two, a script that imports
itself, a failure inside another's compilation and a later compilation of the importer; two
imports in all bodies are both sides of the cycle, or the same import twice; two names tell a
shifted index from one that is gone. Two compilers nest at most then; a third would do to the
second what that does to the first. Scripts are alike, and so are names, which the symmetry uses.
*Lexer*: all texts of three characters of the whole alphabet of classes, all of five of quotes,
backslashes and what they escape, of five of what numbers are made of, and of four of what symbols
are made of; literals with a base have three digits at most. No definition looks further than two
characters past a token. *Parser*: six vocabularies (calls and operators; subscripts and
assignments; maps, literals and chains; blocks and loops; functions and `for`; modules, classes
and imports) of seven to fifteen kinds of tokens each, since what the constructs share is the
expression and the block, which are in most; tokens are unlimited in number, the depth of `todo`
(`MaxTodo`) is. It nests a block, bracket or function of a kind in another of that kind at least
once. *Iteration*: lists of up to four elements and tables of two to eight slots grow twice; a
loop's body makes one change to a list, or three to a map; the ranges go up, down, nowhere and to
an end that no whole step reaches. *Values*: three things, of two elements at most, with all their
graphs: a cycle of one, two and three, and something shared by the other two; calls six deep tell
a recursion that ends (no deeper than three things and a scalar) from one that does not. *Roots*:
three operations in a row (four were also checked: 11,200,802 states); most reach their greatest
number of objects in one operation, a second shows what the first leaves behind, a third releases
the handle in the middle of three.

**Deadlock** is checked in `fibers_control`, `fibers_frames`, `hash_map`, `heap`, `imports` and
`iteration`, which cannot stop: the host can always make a call that is refused, a map can always
be looked up, a program can always call the collector, a script can be interpreted again, another
loop can begin. The others really stop: a fiber that has returned, one whose stack moved under it
and one at the bound of the stack (`call_stack`); a compilation that ended (`compiler`, `parser`)
and a text that did (`lexer`); a program that was aborted (`values`); one that lost an object,
freed its VM or did all its operations (`roots`).

**Fairness** is weak, and of C code that nothing interrupts, so that an enabled step of it is
taken: `Collect` in `Heap` (mark and sweep), the lexer, `CompileStep` in `Parser`, `MapResizing`
and `Iter` in `Iteration`, the recursions in `Values`. `EndBody` in `Iteration` says that the body
of the loop ends each time: whether the *loop* does is the question. `Parser` assumes strongly
besides that a token without an error and the end of the text are chosen if they can be again and
again (`ReadGood`, `ReadEof`): a text is finite, and what is left of it is not errors for ever. No
fairness is assumed of scripts or of the host, which may stop at any time, and no liveness is
claimed of them.

## 5. What the models found that the code does not mean

No run below fails: each model follows the code here, and the properties are stated so that they
hold of it.

*Where a comment or an assertion says otherwise:*

* "If the fiber resumed with with a value, the return value of the yield() would be that value"
  (`pk_core.c:577`): after a yield to the *host*, `runFiber()` returned before popping yield's
  arguments (`pk_vm.c:992`), and a `yield(v)` finds `v` on top of its stack.
* "any object which isn't marked is a garbage" (`pk_vm.h:158`): fields and class of an instance
  are not marked (`pk_var.c:284`).
* "we have to update all the pointers that pointing to the old stack slots" (`pk_vm.c:504`): the
  base of the frame that `pushCallFrame()` pushes was computed before the move (`pk_vm.c:551`).
* `ASSERT(... [count - 3] == OP_CALL, OOPS)` (`pk_compiler.c:2105`): `is_last_call` stays set past
  a block's jumps and the instructions that pop the locals; in `def g() if f() then end end` a
  jump becomes the tail call.
* "Add '__file__' variable with it's path as value" (`pk_var.c:397`): `import "b"` binds all
  globals of `b`, its `__file__` too (`pk_compiler.c:2368`): the importing script's own is
  overwritten.
* "literal functions are not closures and ignore it's outer function's local variables"
  (`pk_compiler.c:1041`): a literal's locals are numbered after those of the function around it.
* The comment of `FIBER_SWITCH_BACK` speaks of going back to the caller (`pk_vm.c:638`): an error
  in a fiber that another one runs also leaves `runFiber()`, and the caller stays running, and
  current, for ever.
* "Load the top frame to vm's execution variables" (`pk_vm.c:994`) is done only if the fiber is
  another one. A native called by fiber A runs B with `pkRunFiber()`; B yields, and the nested loop
  goes on with A's code, which calls and returns, and resumes B; B fails, and the nested loop
  returns to the native with A current. The native returns, and the outer loop goes on with the
  `ip` and `rbp` it had before, whatever frames A has pushed or popped since; `frame` points into an array that may have been moved, so that `UPDATE_FRAME()`
  then writes to freed memory. `RegistersFit` and `OnlyErrorsLeadAstray` say that this needs an
  error: no switch by scripts and no call that succeeds leaves old registers.
* "Similarly 'a = 1 + b = 2' ... the assignment here is invalid" (`pk_compiler.c:369`):
  `1 + x[0] = 5` is accepted, and `x[1+2] = 9` refused, since `exprSubscript()` and `exprAttrib()`
  read `l_value` as the operands left it (`pk_compiler.c:1606`, `1578`). `Parser` does so too
  (`l_value`); no property says that it would be right.

*Collector and constructors* (`Roots`, `Heap`): `newFiber()` allocates the stack while nothing
holds the fiber (`pk_var.c:453`); `rangeAsList()` of a range without a whole end grows a list that
nothing holds (`pk_var.c:567`); the text of a value that is called but not callable is not held
while the message is formatted (`pk_vm.c:958`); functions, classes and instances can be marked
before their fields are set (`pk_var.c:411`, `498`, `526`), and so can the compiler's
uninitialised tokens; bytes are subtracted in a sweep though they were not counted
(`pk_buffers.h:45`).

*Lexer and parser*: `a not b` calls a null pointer
(`pk_compiler.c:1204`); `.5.3` is one number; a string that ends in a backslash at the end of the
text is read past it (`pk_compiler.c:497`); a `break` in a function literal in a loop is patched
into the other function (`pk_compiler.c:2650`); an incomplete line of the REPL that uses a name
not defined yet is dropped without a word (`pk_compiler.c:2844`); the REPL does not end with its
input (`src/cli/repl.c`).

*Values and loops*: `for i in 0..2.5` never ends, `(4..1).as_list` is empty though the loop over
`4..1` is not; an instance that has itself in a field overflows the stack of C when it is printed,
and so do two cyclic lists that are compared (`pk_var.c:1367` says so); `1 in 2` dereferences NULL
after its error (`pk_core.c:1443`), as `list_append("abc", 1)` does (`pk_core.c:389`); a string
searched for in a longer one, a range as container and an instance as a key abort with `TODO`
(`pk_core.c:1461`, `1484`, `pk_var.c:810`).

*Elsewhere*: importing a script whose compilation failed a second time runs its half-compiled body
(`pk_compiler.c:2193`); what `pkFiberGetReturnValue()` reads after a root fiber's yield or return
(`pk_vm.c:411`); a fiber of a native function, which has no frame (`pk_var.c:461`).

## 6. What is proved

TLAPS checks these for every value of the constants that satisfies the module's assumption;
`Spec`'s behaviours are the model's, so a theorem is about the code as far as the model is.

**`FibersProofs`** (`FiberAssumption`): everything that is checked but the liveness, for any number
of fibers and any depth of natives that call the API. `TypeCorrect`, `CallerChain`
(`ChainOfCallers`) and `WaitersAtSlot` (`CallersWaitAtSlot`): none is inductive alone. That a switch
keeps the chain acyclic needs that only running fibers are callers, that nobody waits for the
current one, and that each fiber waits for one (`ChainInv`); that a waiter has its slot on top needs
the chain, and which of the waiters a native on the C stack has still to pop the arguments of
(`WaitInv`). `RegistersAreTheirs` (`RegistersFit`) and `AstrayAfterErrors` (`OnlyErrorsLeadAstray`)
need to know, of each invocation of `runFiber()` on the C stack, what its registers are worth
(`RegInv`): they are the base of the last frame of the fiber it runs, if no other invocation has
loaded from that fiber since (`Held`); the fiber that executes was loaded by the invocation that
executes it, unless it is astray (`LoadedHere`); and while a native runs, its caller was loaded by
the invocation below, or is astray, or the native's last call of the API failed (`LoadedBelow`).
The last conjunct is where the shape of the C stack matters: a nested call that succeeds leaves no
fiber current, so the native that goes on with a current fiber has seen an error, or has not called
at all. `FramesAreNested` (`FramesNested`, under `~NativeFns`, as in the runs: a fiber of a native
function has no frame at all) needs that a fiber's stack pointer is not below the operands of its
last frame, and that the slot of a call it waits in is there too (`FrameInv`), for fibers not
astray; of one astray it says that it has a frame, and that it leaves those of all others as they
are. Both rest on `RegInv`, since `OP_RETURN` sets the stack pointer from the register.
`SuspendedKept` is an action property that follows from the types.
`FibersImplementCoroutines` is the complete refinement, for any finite set of fibers
(`IsFiniteSet(Fiber)`: the mapping counts them). The mapping walks the callers upwards; that what it
finds is the one stack with the current fiber on top, each fiber above its caller and the host's
at the bottom, is shown once, from `ChainInv`, and each action then changes that stack at the top.

**`HashMapProofs`** (`HashMapAssumption`: any hash function, any minimal capacity above 1):
`TypeCorrect`, `CountCorrect`, `KeysFound`, `RoomForAKey` and `MapImplementsDictionary`, the
complete refinement. The invariant says that every entry is where probing finds it with no free
slot passed, that no key is both in the table and still to be copied, and that the entries still
to be copied fit under the load limit of the new table; the count of used slots then bounds what a
probe can meet.

**`HeapProofs`** (`HeapAssumption`: any set of objects, also an infinite one): `TypeCorrect`,
`ThreeColours`, `NothingDangles` and `CollectorImplements`, the complete refinement. The invariant
adds to the properties that unallocated objects have no references, that the heap is closed under
tracing from what is kept, and which variables are at rest in which phase; the marked objects are
then, when the working set is empty, the least closed set.

**`CallStackProofs`** (`CallStackAssumption`): `TypeCorrect`, `Room`, `Stacked` and `Follows`.
`Room` needs that rounding up to a power of two is not below its argument (`RoundsUp`, from the
well-foundedness of the naturals) and that a frame begins among the slots counted for its caller;
`Follows` needs that the return pointer is never stale.

**`CompilerProofs`** (`CompilerAssumption`): `LocalsInSlots` (`LocalsAtSlots`), `JumpsMeet`
(`JumpsAgree`), `RoomIsCounted` (`RoomCounted`) and `CallsAreReturned` (`ReturnedCall`), each under
`Careless = {}`, which leaves out the two kinds of programs of section 3 for which they are false; a
careful program may still be of any length and size, and nest any blocks, functions, classes and
loops. They share one invariant, `Inv` (`Follows`). The compiler remembers a kind and a height of
each function of the parser at work; the
invariant says that there is a sequence of levels that mirrors them, with what no variable holds:
the scope depth of each, the function it is in, and how many locals there will be when it has been
compiled. Levels lie in one another as the grammar lets them (`Nested`), have the heights of
what is below them (`Heights`), and divide the locals, each in its slot, between them (`Slots`); each
loop the compiler remembers is one of the levels (`LoopsOk`). An action adds, changes or removes the last
level, for which there is a lemma each. That the size counted suffices needs what is on the
stack below each function as well (`RoomOk`), and that the call to return is the last
instruction, what an expression's code ends with after a call (`Calls`).

**`ImportsProofs`** (`ImportsAssumption`): `SeparateCompilations` (`CompilationsAreSeparate`),
`ImportsReady` (`ImportedIsReady`) and `RunsOnce` (`BodyRunsOnce`), for any scripts, import graphs
(with cycles), names and errors. The invariant: what a compilation kept begins the module's tables
and each compilation remembers where that ends, in the order of the nesting; every reference made
so far is right for the part of the tables that stays; the script of a frame is initialized, a
body that was begun and has not ended has a frame, and nothing runs while something is compiled.

**`ParserProofs`** (`TokenAssumption`, `ParserAssumption` and `SymbolsAssumption`: any set of tokens
that has the symbols of the grammar, any vocabularies, and any bound on the nesting):
`TextsAreRight` (`WhatCompilesIsRight`) and `AskedRightly` (`MoreIsAskedRightly`), of one
invariant, `IInv`. What the functions of the parser
still have to do is the sequence `todo`; its items have a few forms (`Shape`). `Brackets` is the heart of it:
unless there was an error, or one of the items will report one, the closers that the items owe, put one after
another (`Sums`), are exactly those of the brackets open in the text, innermost first. Each production is
shown to owe in sum what the item owed that it replaces, with the bracket that it consumed
(`ProductionPays`, `PrefixPays`, `InfixPays`), so that when nothing is left to do nothing is open.
`Told` relates the tokens in the window to the errors reported, but for the two that
`compilerInit()` puts there, and `Asked` says that more lines are asked for at the end of the text
only, with no error before.

**`LexerProofs`** (`LexerAssumption` and `CharactersAssumption`: any texts of characters that are not
the null byte, any keywords written in letters, any limits above 2 of the binary and hexadecimal literals):
`TokensRight` (`TokensAreRight`) and `ImplementsSource` (`LexerIsASource`), the complete refinement.
With it the parser's assumption is discharged: `TokenSource` allows whatever the lexer makes of a text.
`TokenStart` and `StringEnd` are recursive functions of a position; that they are defined, and
what they return, is shown backwards from the end of the text (`Downward`, from the
well-foundedness of the naturals): `TokenStartFound` says that only blanks and comments are skipped,
`EatingFound` that a string ends at its first quote behind an even number of backslashes, if there
is one. `DecimalsAreLongest` and `SymbolEndFound` say that the nested conditions of `eatNumber()` and
of the `matchChar()` chain find the longest literal and the longest symbol of the enum. `CutToken`
puts them together for any token at any position, but for a string that runs past the end of the
text (`ReadPastTheEnd`). The invariant `IInv` then says only what joins the tokens: the next one begins where
the last ends, the lines counted are those before it, and behind the end there is the end.

**Only model-checked**: `CollectionEnds`, `TextEnds`, `CompilationEnds`, `LoopsEnd` and
`RecursionsEnd` (liveness under fairness is beyond the prover); `Compiler` with careless programs;
`FramesNested` with natives that start fibers; all of `Iteration` (its lists are folds over data),
and of `Values` and `Roots` (recursive operators), as section 2 says.

## 7. What is not modelled, and why

* `Heap` takes the roots for granted: what the constructors hold at each allocation is in `Roots`, where the collector is
  one step. `CallStack` takes the compiler's `stack_size` to be at least what a function's code pushes, which is what
  `Compiler` checks.
* Programs with errors in `Compiler` (`Imports` and `Parser` have them), `native`
  declarations' bodies, and the limits of 256 names.
* In `Imports`: core libraries and modules of the host (they have no body to run and are never
  compiled by an import), a native that compiles while a script runs, and the values of globals other than
  `__file__`.
* In `Lexer`: the values of literals, and with them the error of one too large for a double (`pk_compiler.c:674`). In `Parser`: everything emitted (`Compiler`, `Imports`), and wording.
* In `Roots`: the builders of modules and classes for the host, the string functions of the core library; and what a
  function of the host does that is called in a sweep, of which nothing is specified.
* In `Values`: equality and hashes of numbers (`-0 == 0` is false, by the bits), and of ranges.
* Arithmetic and string functions of the core library: functions of their arguments, which tests
  reach as well as a model; attributes by name.
* A map of 2^26 slots, where the product of the load limit wraps: `HashMap` bounds the capacity.
* What follows undefined behaviour: a stale stack pointer in `CallStack`, a freed object in
  `Roots`, a call of a null pointer in `Parser` are found, not followed. Of a fiber astray `Fibers`
  follows frames, stack pointer and `rbp`; what its old `ip` makes it execute is any instruction, but
  writes through an old `frame` to a moved array are not followed, nor is a stack popped below its
  bottom. The `Fibers` runs do not make fibers of native functions, which have
  no frame.
* Debug-only assertions are taken as claims about the code, not as guards.
* Command line, native modules of the command line and vendored code: I/O and
  third-party code around the API.
