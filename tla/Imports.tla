------------------------------ MODULE Imports ------------------------------
(***************************************************************************)
(* The cache of scripts, their compilation, one inside another where one   *)
(* imports another, what a compilation that fails leaves, and the bodies   *)
(* that the imports run: pkInterpretSource(), compile(), importFile(),     *)
(* OP_IMPORT.                                                              *)
(*                                                                         *)
(* A source is any text, and may differ each time it is loaded.  Of the    *)
(* code there are the scripts that a body imports and the indices by which *)
(* code refers to globals and functions.  Of running there are the         *)
(* imports, the end and an error; the host compiles only when nothing      *)
(* runs.  Core libraries are always there, and left out; a class is as a    *)
(* function.                                                               *)
(*                                                                         *)
(* Of the values of globals there is that of "__file__", which no script   *)
(* here assigns: it is apart from "globals", where it has the first index. *)
(***************************************************************************)
EXTENDS Integers, Sequences, FiniteSets

CONSTANTS
  Script,               (* the paths of the scripts                         *)
  Name,                 (* of globals and functions                         *)
  None,
  MaxImports            (* bound: the imports in the code of all bodies      *)

ASSUME ImportsAssumption == None \notin Script /\ MaxImports \in Nat

VARIABLES
  cached,               (* vm->scripts                                      *)
  globals, functions,   (* the names of each script, by index               *)
  code,                 (* the imports of its body, in order                *)
  file,                 (* the value of its global "__file__"               *)
  initialized,
  compilers,            (* vm->compiler and those it waits in, innermost last *)
  frames,               (* the bodies that run                              *)
  held,                 (* the references in code that was compiled         *)
  kept,                 (* the names that compilations left                 *)
  ran                   (* its body: new, running or ended                  *)

tables == <<globals, functions>>
vars == <<cached, globals, functions, code, file, initialized, compilers,
          frames, held, kept, ran>>

Last(s)  == s[Len(s)]
Front(s) == SubSeq(s, 1, Len(s) - 1)
Elements(s) == {s[i] : i \in 1 .. Len(s)}

Compiler == Last(compilers)
Current == Compiler.script

Ref(kind, index, name) == [kind |-> kind, index |-> index, name |-> name]
Refs == [kind : {"global", "function"}, index : Nat \ {0}, name : Name]

(* compilerSearchName(), at the top level. *)
Defined(s, n) == n \in Elements(globals[s]) \cup Elements(functions[s])
Found(s, n) ==
  {Ref("global", i, n) : i \in {j \in 1 .. Len(globals[s]) : globals[s][j] = n}}
    \cup {Ref("function", i, n) : i \in {j \in 1 .. Len(functions[s]) : functions[s][j] = n}}

-----------------------------------------------------------------------------
Init ==
  /\ cached = {}
  /\ globals = [s \in Script |-> <<>>]
  /\ functions = [s \in Script |-> <<>>]
  /\ code = [s \in Script |-> <<>>]
  /\ file = [s \in Script |-> None]
  /\ initialized = [s \in Script |-> FALSE]
  /\ compilers = <<>>
  /\ frames = <<>>
  /\ held = [s \in Script |-> {}]
  /\ kept = [s \in Script |-> [globals |-> <<>>, functions |-> <<>>]]
  /\ ran = [s \in Script |-> "new"]

(* An import of the body, and whether everything of the script is bound. *)
Import(p) == [script |-> p, all |-> FALSE]

(* newScript(), and the cache. *)
Cache(p) ==
  /\ cached' = cached \cup {p}
  /\ file' = IF p \in cached THEN file ELSE [file EXCEPT ![p] = p]

(* compile(): the code of the body goes, the counts are remembered. *)
NewCompiler(s) ==
  [script |-> s, globals |-> Len(globals[s]), functions |-> Len(functions[s]),
   errors |-> FALSE, refs |-> {}, forwards |-> {}, importing |-> None]

Compile(outer, s) ==
  /\ compilers' = Append(outer, NewCompiler(s))
  /\ code' = [c \in Script |->
                IF c = s THEN <<>>
                ELSE IF outer # <<>> /\ c = Last(outer).script THEN Append(code[c], Import(s))
                ELSE code[c]]

(* pkInterpretSource(): a script of this path that is there is compiled again. *)
Interpret(s) ==
  /\ compilers = <<>> /\ frames = <<>>
  /\ Cache(s)
  /\ Compile(<<>>, s)
  /\ UNCHANGED <<globals, functions, initialized, frames, held, kept, ran>>

(* Between two statements of the script. *)
Compiling == compilers # <<>> /\ Compiler.importing = None

With(c) == compilers' = Append(Front(compilers), c)

UnchangedByCompiling ==
  UNCHANGED <<cached, file, initialized, frames, held, kept, ran>>

(* A name is assigned, or called, or only read: it is found, or a new global, *)
(* or a function to be defined later, or an error.                            *)
AssignName(n) ==
  /\ Compiling
  /\ IF Defined(Current, n)
     THEN /\ With([Compiler EXCEPT !.refs = @ \cup Found(Current, n)])
          /\ UNCHANGED globals
     ELSE /\ globals' = [globals EXCEPT ![Current] = Append(@, n)]
          /\ With([Compiler EXCEPT !.refs =
                     @ \cup {Ref("global", Len(globals[Current]) + 1, n)}])
  /\ UNCHANGED <<functions, code>> /\ UnchangedByCompiling

CallName(n) ==
  /\ Compiling
  /\ With(IF Defined(Current, n)
          THEN [Compiler EXCEPT !.refs = @ \cup Found(Current, n)]
          ELSE [Compiler EXCEPT !.forwards = @ \cup {n}])
  /\ UNCHANGED <<globals, functions, code>> /\ UnchangedByCompiling

(* compileFunction(), of a new name: another is an error, and stays until  *)
(* the end of the compilation, as with any error.                          *)
DefineFunction(n) ==
  /\ Compiling
  /\ ~Defined(Current, n)
  /\ functions' = [functions EXCEPT ![Current] = Append(@, n)]
  /\ UNCHANGED <<compilers, globals, code>> /\ UnchangedByCompiling

(* parseError(): of any statement. *)
ParseError ==
  /\ Compiling
  /\ With([Compiler EXCEPT !.errors = TRUE])
  /\ UNCHANGED <<globals, functions, code>> /\ UnchangedByCompiling

MoreImports == Cardinality(UNION {{s} \X (1 .. Len(code[s])) : s \in Script}) < MaxImports

(* importFile(): of a script in the cache, and of one that is loaded. *)
ImportCached(p) ==
  /\ Compiling
  /\ p \in cached
  /\ MoreImports
  /\ code' = [code EXCEPT ![Current] = Append(@, Import(p))]
  /\ With([Compiler EXCEPT !.importing = p])
  /\ UNCHANGED <<globals, functions>> /\ UnchangedByCompiling

ImportFile(p) ==
  /\ Compiling
  /\ p \notin cached
  /\ MoreImports
  /\ Cache(p)
  /\ Compile(Append(Front(compilers), [Compiler EXCEPT !.importing = p]), p)
  /\ UNCHANGED <<globals, functions, initialized, frames, held, kept, ran>>

(* Those of these names that the script has not, in their order. *)
Missing(names, s) ==
  LET upTo[k \in 0 .. Len(names)] ==
        IF k = 0 THEN <<>>
        ELSE IF Defined(s, names[k]) THEN upTo[k - 1]
        ELSE Append(upTo[k - 1], names[k])
  IN upTo[Len(names)]

(* compilerImportName(): these names become globals, unless they are; one  *)
(* that is a function is an error.                                         *)
BindNames(names) ==
  LET s     == Current
      all   == globals[s] \o Missing(names, s)
  IN /\ globals' = [globals EXCEPT ![s] = all]
     /\ With([Compiler EXCEPT
                !.importing = None,
                !.errors = @ \/ Elements(names) \cap Elements(functions[s]) # {},
                !.refs = @ \cup {Ref("global", i, all[i]) :
                                   i \in {j \in 1 .. Len(all) : all[j] \in Elements(names)}}])

(* compilerImportAll(), of what the script has now; or one name, of it or  *)
(* for it.  More names of a "from" are as AssignName or ParseError.        *)
BindAll ==
  /\ compilers # <<>> /\ Compiler.importing # None
  /\ BindNames(functions[Compiler.importing] \o globals[Compiler.importing])
  /\ code' = [code EXCEPT ![Current][Len(code[Current])].all = TRUE]
  /\ UNCHANGED functions /\ UnchangedByCompiling

BindName(n) ==
  /\ compilers # <<>> /\ Compiler.importing # None
  /\ BindNames(<<n>>)
  /\ UNCHANGED <<functions, code>> /\ UnchangedByCompiling

(* The end of compile(): forward names are resolved. *)
Resolved ==
  {r \in UNION {Found(Current, n) : n \in Compiler.forwards} : r.kind = "function"}

Unresolved == Compiler.forwards \ Elements(functions[Current])

Failed == Compiler.errors \/ Unresolved # {}

Truncate(t, s, n) == [t EXCEPT ![s] = SubSeq(@, 1, n)]

(* A fault: the functions are left. *)
DiscardGlobals ==
  /\ globals' = Truncate(globals, Current, Compiler.globals)
  /\ UNCHANGED functions

(* What a failed compilation added is discarded. *)
Discard ==
  /\ globals' = Truncate(globals, Current, Compiler.globals)
  /\ functions' = Truncate(functions, Current, Compiler.functions)

Keep ==
  /\ held' = [held EXCEPT ![Current] = @ \cup Compiler.refs \cup Resolved]
  /\ kept' = [kept EXCEPT ![Current] =
                [globals |-> globals[Current], functions |-> functions[Current]]]
  /\ UNCHANGED tables

(* The compiler of the script that imports it goes on, with an error if    *)
(* this one failed.                                                        *)
EndImported ==
  /\ Compiling /\ Len(compilers) > 1
  /\ LET outer == Front(compilers) IN
     compilers' = Append(Front(outer), [Last(outer) EXCEPT !.errors = @ \/ Failed])
  /\ IF Failed THEN Discard /\ UNCHANGED <<held, kept>> ELSE Keep
  /\ UNCHANGED <<cached, code, file, initialized, frames, ran>>

NewFrame(s) == [script |-> s, pc |-> 0]

(* pkInterpretSource(): the body is run. *)
EndInterpreted ==
  /\ Compiling /\ Len(compilers) = 1
  /\ compilers' = <<>>
  /\ IF Failed
     THEN /\ Discard
          /\ UNCHANGED <<held, kept, initialized, frames, ran>>
     ELSE /\ Keep
          /\ initialized' = [initialized EXCEPT ![Current] = TRUE]
          /\ frames' = <<NewFrame(Current)>>
          /\ ran' = [ran EXCEPT ![Current] = "running"]
  /\ UNCHANGED <<cached, code, file>>

-----------------------------------------------------------------------------
Top == Last(frames)
AtImport == frames # <<>> /\ Top.pc < Len(code[Top.script])
Imported == code[Top.script][Top.pc + 1].script

(* OP_STORE_GLOBAL of what was imported, once it is: of all, "__file__" too. *)
Stored(f, k) ==
  LET i == code[f.script][k] IN
  IF i.all THEN [file EXCEPT ![f.script] = file[i.script]] ELSE file

UnchangedByRunning ==
  UNCHANGED <<cached, globals, functions, code, compilers, held, kept>>

(* OP_IMPORT of a script whose body has begun. *)
ImportAgain ==
  /\ AtImport /\ initialized[Imported]
  /\ frames' = Append(Front(frames), [Top EXCEPT !.pc = @ + 1])
  /\ file' = Stored(Top, Top.pc + 1)
  /\ UNCHANGED <<initialized, ran>> /\ UnchangedByRunning

(* A fault: the script is initialized when its body has ended. *)
ImportFirstUnmarked ==
  /\ AtImport /\ ~initialized[Imported]
  /\ Len(frames) < 4
  /\ frames' = Front(frames) \o <<[Top EXCEPT !.pc = @ + 1], NewFrame(Imported)>>
  /\ ran' = [ran EXCEPT ![Imported] = "running"]
  /\ UNCHANGED <<file, initialized>> /\ UnchangedByRunning

(* A fault: the body of an imported script is never called. *)
ImportFirstSkipped ==
  /\ AtImport /\ ~initialized[Imported]
  /\ initialized' = [initialized EXCEPT ![Imported] = TRUE]
  /\ frames' = Append(Front(frames), [Top EXCEPT !.pc = @ + 1])
  /\ file' = Stored(Top, Top.pc + 1)
  /\ UNCHANGED ran /\ UnchangedByRunning

(* OP_IMPORT of another: its body is called. *)
ImportFirst ==
  /\ AtImport /\ ~initialized[Imported]
  /\ initialized' = [initialized EXCEPT ![Imported] = TRUE]
  /\ frames' = Front(frames) \o <<[Top EXCEPT !.pc = @ + 1], NewFrame(Imported)>>
  /\ ran' = [ran EXCEPT ![Imported] = "running"]
  /\ UNCHANGED file /\ UnchangedByRunning

(* The end of a body: its caller stores what it imports, and goes on. *)
EndBody ==
  /\ frames # <<>> /\ ~AtImport
  /\ frames' = Front(frames)
  /\ file' = IF Len(frames) = 1 THEN file
             ELSE LET caller == Last(Front(frames)) IN Stored(caller, caller.pc)
  /\ ran' = [ran EXCEPT ![Top.script] = "ended"]
  /\ UNCHANGED initialized /\ UnchangedByRunning

(* A runtime error ends them all. *)
RuntimeError ==
  /\ frames # <<>>
  /\ frames' = <<>>
  /\ ran' = [s \in Script |-> IF ran[s] = "running" THEN "ended" ELSE ran[s]]
  /\ UNCHANGED <<file, initialized>> /\ UnchangedByRunning

Next ==
  \/ \E s \in Script : Interpret(s) \/ ImportCached(s) \/ ImportFile(s)
  \/ \E n \in Name : AssignName(n) \/ CallName(n) \/ DefineFunction(n) \/ BindName(n)
  \/ ParseError \/ BindAll
  \/ EndImported \/ EndInterpreted
  \/ ImportAgain \/ ImportFirst \/ EndBody \/ RuntimeError

Spec == Init /\ [][Next]_vars

-----------------------------------------------------------------------------
Distinct(s) == \A i, j \in 1 .. Len(s) : s[i] = s[j] => i = j

(* The tables hold names without repetition, the counts a compilation      *)
(* remembers are within them, and a body is at one of its imports.         *)
TypeOK ==
  /\ cached \subseteq Script
  /\ \A s \in Script :
       /\ Distinct(globals[s] \o functions[s])
       /\ Elements(globals[s] \o functions[s]) \subseteq Name
       /\ Elements(code[s]) \subseteq [script : cached, all : BOOLEAN]
       /\ file[s] \in cached \cup {None} /\ (s \in cached => file[s] # None)
       /\ initialized[s] \in BOOLEAN
       /\ held[s] \subseteq Refs
       /\ ran[s] \in {"new", "running", "ended"}
  /\ \A i \in 1 .. Len(compilers) :
       LET c == compilers[i] IN
       /\ c.script \in cached /\ c.errors \in BOOLEAN
       /\ c.importing \in cached \cup {None}
       /\ c.refs \subseteq Refs /\ c.forwards \subseteq Name
       /\ c.globals \in 0 .. Len(globals[c.script])
       /\ c.functions \in 0 .. Len(functions[c.script])
  /\ \A i \in 1 .. Len(frames) :
       frames[i].script \in cached /\ frames[i].pc \in 0 .. Len(code[frames[i].script])

(* However scripts import one another, and themselves, none is compiled by *)
(* two compilers at once, each of which would clear the other's code.      *)
OneCompilerPerScript == Distinct([i \in 1 .. Len(compilers) |-> compilers[i].script])

(* A global or a function keeps the index that code compiled before uses,  *)
(* through later compilations of the script and those that fail.           *)
NamesKeepTheirIndex ==
  \A s \in Script : \A r \in held[s] :
    LET t == IF r.kind = "global" THEN globals[s] ELSE functions[s]
    IN r.index <= Len(t) /\ t[r.index] = r.name

(* Once it has failed, a compilation has left no name in its script.       *)
FailedLeavesNoName ==
  \A s \in Script :
    s \notin {compilers[i].script : i \in 1 .. Len(compilers)} =>
      globals[s] = kept[s].globals /\ functions[s] = kept[s].functions

(* Compilations inside and after one another do not disturb each other:    *)
(* none is begun twice, indices in code stay right, and a failed one takes  *)
(* its own names and no others (compile(), importFile()).                   *)
CompilationsAreSeparate ==
  TypeOK /\ OneCompilerPerScript /\ NamesKeepTheirIndex /\ FailedLeavesNoName

(* No import runs a body that was run before, or that is running.          *)
BodyRunsOnce ==
  [][\A s \in Script :
       frames # <<>> /\ (\E i \in 1 .. Len(frames') - Len(frames) :
                            frames'[Len(frames) + i].script = s)
         => ran[s] = "new"]_vars

(* When an import is behind a body, what it imported has ended, in this run *)
(* or an earlier one; or, in a cycle, it is the body or waits for it.       *)
ImportedIsReady ==
  \A i \in 1 .. Len(frames) :
    \A k \in 1 .. frames[i].pc :
      LET p == code[frames[i].script][k].script IN
      \/ ran[p] = "ended"
      \/ \E j \in 1 .. i : frames[j].script = p
      \/ k = frames[i].pc /\ i < Len(frames) /\ frames[i + 1].script = p
=============================================================================
