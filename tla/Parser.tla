------------------------------- MODULE Parser -------------------------------
(* The parser of pk_compiler.c, compile() and below, over any text, and the  *)
(* loop of repl() around it.  The C stack of the recursive descent is todo:  *)
(* what is still to be parsed, first what comes next.  A construct is an     *)
(* item of it, a tuple of a name and perhaps an argument, and each step does *)
(* the first item.  Code generation is not here, and of names only that one  *)
(* may be defined or not.                                                    *)
EXTENDS TokenSource, Integers, Sequences

CONSTANTS
  Vocabularies, \* Bound: the tokens of a text are of one of these sets.
  MaxTodo       \* Bound, of each: with so much to do, the text goes on with Closing.

ASSUME ParserAssumption == /\ \A v \in Vocabularies : v \subseteq Token /\ v \cap Literal # {}
                           /\ MaxTodo \in [Vocabularies -> Nat]

VARIABLES
  todo,             \* The items still to be parsed.
  has_errors, need_more_lines, l_value, \* Of the Compiler.
  forwards,         \* Whether a name was used before its definition.
  vocabulary,       \* The tokens that occur.
  repl_mode,        \* Whether the compilations are those of repl().
  at,               \* "prompt", "compiling" or "returned".
  result,           \* The result of the last compilation.
  lines, more,      \* Of repl(): whether lines are buffered, need_more_lines.
  wrong,            \* Followed: an error was found, whether reported or not.
  printed,          \* Followed: an error was reported to the host.
  first,            \* Followed: where the first error was reported.
  nest              \* Followed: the brackets open, as long as nothing is wrong.

errors == <<has_errors, need_more_lines, wrong, printed, first>>
reader == <<vocabulary, repl_mode, at, result, lines, more>>
vars == <<tokens, todo, errors, l_value, forwards, reader, nest>>

-----------------------------------------------------------------------------
(* The items. *)

Item(name) == <<name>>
Expect(t) == <<"consume", t>>
Skip == Item("skipNewLines")
EndStatement == Item("consumeEndStatement")
StartBlock(delimiter) == <<"consumeStartBlock", delimiter>>
Err == Item("parseError")
Check == Item("check")  \* An error if a name or a number is not as it should be.

(* enum Precedence *)
Lowest == 1
LogicalOr == 2
LogicalAnd == 3
Unary == 14
ChainCall == 15

Expression == <<"parsePrecedence", Lowest>>
Parse(p) == <<"parsePrecedence", p>>
Infix(p) == <<"infix", p>>
Block(type) == <<"compileBlockBody", type>>
Statements(type) == <<"statements", type>>
If(elsif) == <<"compileIfStatement", elsif>>
Function(type) == <<"compileFunction", type>>
Arguments(close) == <<"arguments", close>>

Assignments == {"=", "+=", "-=", "*=", "/=", "%=", "&=", "|=", "^=", ">>=", "<<="}

(* The table rules[]: the precedence of an infix. *)
Precedence(t) ==
  CASE t = "or"  -> LogicalOr
    [] t = "and" -> LogicalAnd
    [] t \in {"==", "!="} -> 4
    [] t = "in" -> 5
    [] t \in {"<", ">", "<=", ">="} -> 6
    [] t = "|" -> 7
    [] t = "^" -> 8
    [] t = "&" -> 9
    [] t \in {">>", "<<"} -> 10
    [] t = ".." -> 11
    [] t \in {"+", "-"} -> 12
    [] t \in {"*", "/", "%"} -> 13
    [] t = "not" -> Unary
    [] t = "->" -> ChainCall
    [] t = "(" -> 16
    [] t = "[" -> 17
    [] t = "." -> 18
    [] OTHER -> 0

-----------------------------------------------------------------------------
(* Errors and tokens. *)

(* reportError(): the REPL reports one error, and none of an incomplete line. *)
Report(need_more) ==
  IF repl_mode /\ has_errors THEN UNCHANGED <<has_errors, printed, first>>
  ELSE /\ has_errors' = TRUE
       /\ printed' = (printed \/ ~need_more)
       /\ first' = IF first # "none" THEN first
                   ELSE IF current = Eof THEN "end" ELSE "middle"

Openers == {"(", "[", "{", "if", "while", "for", "def", "func", "class"}
Closer(t) == CASE t = "(" -> ")" [] t = "[" -> "]" [] t = "{" -> "}" [] OTHER -> "end"
Closers == {")", "]", "}", "end"}

ASSUME SymbolsAssumption ==
  Openers \cup Closers \cup {"line", ";", "else", "elsif"} \subseteq Token \ {Eof}

(* The types a text goes on with at the bound. *)
Closing == Closers \cup {Eof, Error, "line", ";", "number", "name"}

(* A closer of no opener is left there for good. *)
Nested ==
  IF wrong' THEN <<>>
  ELSE CASE current \in Openers -> <<Closer(current)>> \o nest
         [] current \in Closers /\ nest # <<>> /\ Head(nest) = current -> Tail(nest)
         [] current \in Closers /\ (nest = <<>> \/ Head(nest) # current) ->
              <<"unmatched">> \o nest
         [] OTHER -> nest

(* lexToken() *)
Lex ==
  /\ LexToken
  /\ current' \in vocabulary \cup {Eof, Error}
  /\ Len(todo) >= MaxTodo[vocabulary] => current' \in Closing
  /\ wrong' = (wrong \/ LexError)
  /\ IF LexError THEN Report(need_more_lines) ELSE UNCHANGED <<has_errors, printed, first>>
  /\ nest' = Nested
  /\ UNCHANGED <<need_more_lines, reader>>

(* A step that lexes no token. *)
Stay == UNCHANGED <<tokens, errors, reader, nest>>

(* The item at the top of what is to be done is replaced. *)
Replace(items) == todo' = items \o Tail(todo)

Is(name) == at = "compiling" /\ todo # <<>> /\ Head(todo)[1] = name

-----------------------------------------------------------------------------
(* consume(): a token that is not the one expected is discarded, and the one *)
(* after it too if that is.                                                  *)
Consume ==
  /\ Is("consume")
  /\ Lex
  /\ Replace(IF current = Head(todo)[2] THEN <<>>
             ELSE <<Err, <<"discard", Head(todo)[2]>>>>)
  /\ UNCHANGED <<l_value, forwards>>

(* parseError(): silent after a token of type TK_ERROR. *)
ParseError ==
  /\ Is("parseError")
  /\ wrong' = TRUE
  /\ nest' = <<>>
  /\ IF previous THEN UNCHANGED <<has_errors, printed, first>> ELSE Report(need_more_lines)
  /\ Replace(<<>>)
  /\ UNCHANGED <<tokens, need_more_lines, l_value, forwards, reader>>

(* A fault: more lines are asked for after an error as well. *)
SkipNewLinesAfterErrors ==
  /\ Is("skipNewLines")
  /\ \/ current = "line" /\ Lex /\ UNCHANGED todo
     \/ /\ current # "line"
        /\ need_more_lines' = (need_more_lines \/ (repl_mode /\ current = Eof))
        /\ Replace(<<>>)
        /\ UNCHANGED <<tokens, has_errors, wrong, printed, first, reader, nest>>
  /\ UNCHANGED <<l_value, forwards>>

(* matchLine(): a line of the REPL that ends here is not complete, unless    *)
(* there was an error.                                                       *)
SkipNewLines ==
  /\ Is("skipNewLines")
  /\ \/ /\ current = "line"
        /\ Lex
        /\ UNCHANGED todo
     \/ /\ current # "line"
        /\ need_more_lines' =
             (need_more_lines \/ (repl_mode /\ ~has_errors /\ current = Eof))
        /\ Replace(<<>>)
        /\ UNCHANGED <<tokens, has_errors, wrong, printed, first, reader, nest>>
  /\ UNCHANGED <<l_value, forwards>>

(* What a prefix's function parses after its token; <<Err>> if there is none. *)
Prefix(t) ==
  CASE t \in {"null", "true", "false", "number", "string"} -> <<>>
    [] t = "name" -> <<Item("exprName")>>
    [] t = "func" -> <<Function("literal")>>
    [] t = "("    -> <<Skip, Expression, Skip, Expect(")")>>
    [] t = "["    -> <<Skip, Item("exprList")>>
    [] t = "{"    -> <<Skip, Item("exprMap")>>
    [] t \in {"~", "-", "not"} -> <<Skip, Parse(Unary + 1)>>
    [] OTHER -> <<Err>>

(* What an infix's function parses after its token. *)
InfixRest(t) ==
  CASE t = "or"  -> <<Parse(LogicalOr)>>
    [] t = "and" -> <<Parse(LogicalAnd)>>
    [] t = "("   -> <<Item("exprCall")>>
    [] t = "["   -> <<Expression, Expect("]"), Item("assignment")>>
    [] t = "."   -> <<Expect("name"), Item("assignment")>>
    [] t = "->"  -> <<Skip, Parse(ChainCall + 1), Item("chainArguments")>>
    [] OTHER     -> <<Skip, Parse(Precedence(t) + 1)>>

LValue(p) == p <= Lowest

(* parsePrecedence(), up to the infixes. *)
ParsePrecedence ==
  /\ Is("parsePrecedence")
  /\ Lex
  /\ IF Prefix(current) = <<Err>>
     THEN Replace(<<Err>>) /\ UNCHANGED l_value
     ELSE /\ l_value' = LValue(Head(todo)[2])
          /\ Replace(Prefix(current) \o <<Infix(Head(todo)[2])>>)
  /\ UNCHANGED forwards

(* The loop of parsePrecedence(). *)
InfixLoop ==
  /\ Is("infix")
  /\ \/ /\ Precedence(current) >= Head(todo)[2]
        /\ current # "not"
        /\ Lex
        /\ todo' = InfixRest(current) \o todo
     \/ /\ Precedence(current) < Head(todo)[2]
        /\ Stay
        /\ Replace(<<>>)
  /\ UNCHANGED <<l_value, forwards>>

(* The rule of TK_NOT has a precedence and no infix function: a null pointer *)
(* is called.                                                                *)
CallNull ==
  /\ Is("infix")
  /\ current = "not"
  /\ Precedence(current) >= Head(todo)[2]
  /\ at' = "returned"
  /\ result' = "crashed"
  /\ UNCHANGED <<tokens, todo, errors, l_value, forwards, vocabulary, repl_mode,
                 lines, more, nest>>
-----------------------------------------------------------------------------
(* The constructs.  What one becomes, by the current token: the items to be  *)
(* parsed in its place, after the token is consumed by a match(), or not.    *)

Become(items) == {[eat |-> FALSE, to |-> items]}
Match(items)  == {[eat |-> TRUE, to |-> items]}

(* The loop of exprName() and its like: the assignment of an l-value. *)
Assigned == Match(<<Skip, Expression>>)

(* exprName(): a variable, what cannot be assigned, a name not yet defined. *)
Variable == IF l_value /\ current \in Assignments THEN Assigned ELSE Become(<<>>)
Unknown == CASE l_value /\ current = "=" -> Match(<<Skip, Check, Expression>>)
             [] current = "(" -> {}
             [] OTHER -> Become(<<Err>>)
ExprName == Variable \cup Become(<<>>) \cup Unknown

(* The elements of a list and a map, the arguments of a call and a chain.    *)
ExprList == IF current = "]" THEN Become(<<Skip, Expect("]")>>)
            ELSE Become(<<Expression, Skip, Item("listMore")>>)
ListMore == IF current = "," THEN Match(<<Skip, Item("exprList")>>)
            ELSE Become(<<Skip, Expect("]")>>)
ExprMap == IF current = "}" THEN Become(<<Skip, Expect("}")>>)
           ELSE Become(<<Expression, Expect(":"), Expression, Skip, Item("mapMore")>>)
MapMore == IF current = "," THEN Match(<<Skip, Item("exprMap")>>)
           ELSE Become(<<Skip, Expect("}")>>)
ExprCall == IF current = ")" THEN Match(<<>>)
            ELSE Become(<<Skip, Expression, Skip, Arguments(")")>>)
MoreArguments(close) ==
  IF current = "," THEN Match(<<Skip, Expression, Skip, Arguments(close)>>)
  ELSE Become(<<Expect(close)>>)
ChainArguments == IF current = "{" THEN Match(<<Item("chainFirst")>>) ELSE Become(<<>>)
ChainFirst == IF current = "}" THEN Match(<<>>)
              ELSE Become(<<Skip, Expression, Skip, Arguments("}")>>)

(* matchEndStatement(): the tokens it takes for the end of a statement. *)
Ends == {"end", "else", "elsif"}
ConsumeEndStatement ==
  CASE current = ";" -> Match(<<Skip>>)
    [] current \in {"line", Eof} -> Become(<<Skip>>)
    [] current \in Ends -> Become(<<>>)
    [] OTHER -> Become(<<Err>>)
ConsumeStartBlock(delimiter) ==
  CASE current = delimiter -> Match(<<Skip>>)
    [] current = "line" -> Become(<<Skip>>)
    [] OTHER -> Become(<<Skip, Err>>)

(* compileBlockBody() *)
CompileBlockBody(type) ==
  Become((CASE type = "if" -> <<StartBlock("then")>>
            [] type = "loop" -> <<StartBlock("do")>>
            [] OTHER -> <<>>) \o <<Skip, Statements(type)>>)
(* A fault: only an end ends a block. *)
BlockStatementsToEnd(type) ==
  IF current = "end" \/ (type = "if" /\ current \in {"else", "elsif"})
  THEN Become(<<>>)
  ELSE Become(<<Item("compileStatement"), Skip, Statements(type)>>)

BlockStatements(type) ==
  IF current \in {"end", Eof} \/ (type = "if" /\ current \in {"else", "elsif"})
  THEN Become(<<>>)
  ELSE Become(<<Item("compileStatement"), Skip, Statements(type)>>)

(* compileIfStatement(): an elsif leaves the end to its if. *)
CompileIf(elsif) == Become(<<Skip, Expression, Block("if"), <<"ifRest", elsif>>>>)
IfEnd(elsif) == IF elsif THEN <<>> ELSE <<Skip, Expect("end")>>
IfRest(elsif) == CASE current = "elsif" -> Match(<<If(TRUE)>> \o IfEnd(elsif))
                   [] current = "else"  -> Match(<<Block("else")>> \o IfEnd(elsif))
                   [] OTHER -> Become(IfEnd(elsif))

(* compileWhileStatement(), compileForStatement(): "endLoop" is where the    *)
(* compiler's loop is again the outer one.                                   *)
EndLoop == Item("endLoop")
CompileWhile == <<Expression, Block("loop"), EndLoop, Skip, Expect("end")>>
CompileFor == <<Expect("name"), Expect("in"), Check, Expression, Item("forBody")>>
ForBody == Become(<<Check, Block("loop"), EndLoop, Skip, Expect("end")>>)

InLoop == \E i \in 1 .. Len(todo) : todo[i] = EndLoop
AtTop == \A i \in 1 .. Len(todo) : todo[i][1] # "statements"

(* compileStatement() *)
CompileStatement ==
  CASE current \in {"break", "continue"} -> Match(<<IF InLoop THEN EndStatement ELSE Err>>)
    [] current = "return" -> Match(<<IF AtTop THEN Err ELSE Item("returnValue")>>)
    [] current = "if"     -> Match(<<If(FALSE)>>)
    [] current = "while"  -> Match(CompileWhile)
    [] current = "for"    -> Match(CompileFor)
    [] OTHER              -> Become(<<Expression, EndStatement>>)
ReturnValue == IF current \in Ends \cup {";", "line", Eof} THEN Become(<<EndStatement>>)
               ELSE Become(<<Expression, EndStatement>>)

(* compileFunction(): a name, an optional list of parameters, a body. *)
FunctionBody(type) == IF type = "native" THEN <<>> ELSE <<Block("func"), Expect("end")>>
Parameter(type) == <<Skip, Expect("name"), Check, <<"moreParameters", type>>>>
CompileFunction(type) ==
  Become((IF type = "literal" THEN <<>> ELSE <<Expect("name")>>)
         \o <<Check, <<"parameters", type>>>>)
Parameters(type) == IF current = "(" THEN Match(<<<<"firstParameter", type>>>>)
                    ELSE Become(FunctionBody(type))
FirstParameter(type) == IF current = ")" THEN Match(FunctionBody(type))
                        ELSE Become(Parameter(type))
MoreParameters(type) == IF current = "," THEN Match(Parameter(type))
                        ELSE Become(<<Expect(")")>> \o FunctionBody(type))

(* compileType() *)
CompileType == <<Expect("name"), Check, Skip, Item("fields")>>
Fields == IF current \in {"end", Eof} THEN Become(<<Expect("end")>>)
          ELSE Become(<<Expect("name"), Check, Expect("="), Expression,
                        EndStatement, Skip, Item("fields")>>)

(* compileFromImport(), compileRegularImport() and compilerImport(), which   *)
(* may find no such module and compile another script (Imports).             *)
CompilerImport == IF current \in {"name", "string"} THEN Match(<<Check>>) ELSE Become(<<Err>>)
Symbol == <<Expect("name"), Item("alias"), Check, Item("moreSymbols")>>
FromSymbols == IF current = "*" THEN Match(<<Check, EndStatement>>) ELSE Become(Symbol)
Alias == IF current = "as" THEN Match(<<Expect("name")>>) ELSE Become(<<>>)
MoreSymbols == IF current = "," THEN Match(<<Skip>> \o Symbol) ELSE Become(<<EndStatement>>)
Import == <<Item("compilerImport"), Item("alias"), Check, Item("moreImports")>>
MoreImports == IF current = "," THEN Match(<<Skip>> \o Import) ELSE Become(<<EndStatement>>)

(* compileTopLevelStatement() *)
TopLevelStatement ==
  CASE current = "class"  -> Match(CompileType)
    [] current = "native" -> Match(<<Function("native")>>)
    [] current = "def"    -> Match(<<Function("script")>>)
    [] current = "from"   -> Match(<<Item("compilerImport"), Expect("import"),
                                     Item("fromSymbols")>>)
    [] current = "import" -> Match(Import)
    [] current = "module" -> Match(<<Err>>)
    [] OTHER              -> Become(<<Item("compileStatement")>>)

(* The module's name, then the statements of the script, in compile(). *)
ModuleName ==
  IF current = "module" THEN Match(<<Err>>) \cup Match(<<Expect("name"), EndStatement>>)
  ELSE Become(<<>>)
Script == IF current = Eof THEN Match(<<>>)
          ELSE Become(<<Item("compileTopLevelStatement"), Skip, Item("script")>>)

Production(name, arg) ==
  CASE name = "check"        -> Become(<<>>) \cup Become(<<Err>>)
    [] name = "discard"      -> IF current = arg THEN Match(<<>>) ELSE Become(<<>>)
    [] name = "exprName"     -> ExprName
    [] name = "assignment"   -> Variable
    [] name = "exprList"     -> ExprList
    [] name = "listMore"     -> ListMore
    [] name = "exprMap"      -> ExprMap
    [] name = "mapMore"      -> MapMore
    [] name = "exprCall"     -> ExprCall
    [] name = "arguments"    -> MoreArguments(arg)
    [] name = "chainArguments" -> ChainArguments
    [] name = "chainFirst"   -> ChainFirst
    [] name = "consumeEndStatement" -> ConsumeEndStatement
    [] name = "consumeStartBlock"   -> ConsumeStartBlock(arg)
    [] name = "compileBlockBody"    -> CompileBlockBody(arg)
    [] name = "statements"   -> BlockStatements(arg)
    [] name = "compileStatement"    -> CompileStatement
    [] name = "returnValue"  -> ReturnValue
    [] name = "compileIfStatement"  -> CompileIf(arg)
    [] name = "ifRest"       -> IfRest(arg)
    [] name = "forBody"      -> ForBody
    [] name = "endLoop"      -> Become(<<>>)
    [] name = "compileFunction" -> CompileFunction(arg)
    [] name = "parameters"   -> Parameters(arg)
    [] name = "firstParameter"  -> FirstParameter(arg)
    [] name = "moreParameters"  -> MoreParameters(arg)
    [] name = "fields"       -> Fields
    [] name = "compilerImport"  -> CompilerImport
    [] name = "fromSymbols"  -> FromSymbols
    [] name = "alias"        -> Alias
    [] name = "moreSymbols"  -> MoreSymbols
    [] name = "moreImports"  -> MoreImports
    [] name = "compileTopLevelStatement" -> TopLevelStatement
    [] name = "moduleName"   -> ModuleName
    [] name = "script"       -> Script
    [] name = "lexToken"     -> Match(<<>>)
    [] OTHER                 -> {}

(* The step of a construct. *)
Produce ==
  /\ at = "compiling" /\ todo # <<>>
  /\ \E p \in Production(Head(todo)[1], Head(todo)[Len(Head(todo))]) :
       /\ IF p.eat THEN Lex ELSE Stay
       /\ Replace(p.to)
  /\ UNCHANGED <<l_value, forwards>>

(* exprName() of a name not yet defined that is called: compilerAddForward(). *)
UseForward ==
  /\ Is("exprName")
  /\ current = "("
  /\ forwards' = TRUE
  /\ Replace(<<Check>>)
  /\ Stay
  /\ UNCHANGED l_value

-----------------------------------------------------------------------------
(* compile(), from its first lexToken() to its result, and repl(). *)

(* A fault: the window is not filled. *)
StartOnce == <<Item("lexToken"), Skip, Item("moduleName"), Item("script")>>

Start == <<Item("lexToken"), Item("lexToken"), Skip, Item("moduleName"), Item("script")>>

(* The end of compile(): names used before their definition. *)
ResolveForwards ==
  /\ at = "compiling" /\ todo = <<>>
  /\ forwards
  /\ forwards' = FALSE
  /\ \/ UNCHANGED errors
     \/ /\ need_more_lines' = FALSE
        /\ wrong' = TRUE
        /\ Report(FALSE)
  /\ UNCHANGED <<tokens, todo, l_value, reader, nest>>

Result == IF ~has_errors THEN "success"
          ELSE IF repl_mode /\ need_more_lines THEN "unexpected_eof" ELSE "compile_error"

EndCompile ==
  /\ at = "compiling" /\ todo = <<>>
  /\ ~forwards
  /\ result' = Result
  /\ at' = IF repl_mode THEN "prompt" ELSE "returned"
  /\ more' = (repl_mode /\ result' = "unexpected_eof")
  /\ lines' = more'
  /\ UNCHANGED <<tokens, todo, errors, l_value, forwards, vocabulary, repl_mode, nest>>

(* A line that is not blank, or one more of several: all of them are         *)
(* compiled, from the first.  (A blank line is dropped.)                     *)
ReadLine ==
  /\ at = "prompt"
  /\ at' = "compiling"
  /\ lines' = TRUE
  /\ result' = "none"
  /\ todo' = Start
  /\ previous' = TRUE /\ current' = Error /\ next' = "unlexed"
  /\ has_errors' = FALSE /\ need_more_lines' = FALSE
  /\ wrong' = FALSE /\ printed' = FALSE /\ first' = "none"
  /\ nest' = <<>>
  /\ UNCHANGED <<l_value, forwards, vocabulary, repl_mode, more>>

ParserInit ==
  /\ Init
  /\ todo = Start
  /\ has_errors = FALSE /\ need_more_lines = FALSE /\ l_value = FALSE
  /\ forwards = FALSE
  /\ vocabulary \in Vocabularies
  /\ repl_mode \in BOOLEAN
  /\ at = IF repl_mode THEN "prompt" ELSE "compiling"
  /\ result = "none"
  /\ lines = FALSE /\ more = FALSE
  /\ wrong = FALSE /\ printed = FALSE /\ first = "none"
  /\ nest = <<>>

CompileStep ==
  \/ Consume \/ ParseError \/ SkipNewLines \/ ParsePrecedence \/ InfixLoop
  \/ CallNull \/ Produce \/ UseForward \/ ResolveForwards \/ EndCompile

ParserNext == CompileStep \/ ReadLine

(* A text ends: lexToken() comes to the null byte, after which it has no     *)
(* more errors to report.                                                    *)
ReadGood == CompileStep /\ next' = "good"
ReadEof == CompileStep /\ current # Eof /\ current' = Eof

ParserSpec == /\ ParserInit /\ [][ParserNext]_vars
              /\ WF_vars(CompileStep) /\ SF_vars(ReadGood) /\ SF_vars(ReadEof)

-----------------------------------------------------------------------------
(* Properties *)

TypeOK ==
  /\ previous \in BOOLEAN /\ current \in Token \cup {Error} /\ next \in Kinds
  /\ \A i \in 1 .. Len(todo) : Len(todo[i]) \in {1, 2}
  /\ {has_errors, need_more_lines, l_value, forwards, repl_mode} \subseteq BOOLEAN
  /\ at \in {"prompt", "compiling", "returned"}
  /\ result \in {"none", "success", "compile_error", "unexpected_eof", "crashed"}
  /\ need_more_lines => repl_mode

(* parseError() says nothing after a TK_ERROR, because the lexer has spoken; *)
(* the first token of all is a TK_ERROR of which nobody has.  Yet no text    *)
(* with an error compiles: whenever parseError() is silent, something was    *)
(* reported before.                                                          *)
NoErrorIsSwallowed == wrong => has_errors

(* The REPL asks for more lines only if all of the text was right: the first *)
(* error came at its end, and nothing was printed of it (matchLine(),        *)
(* reportError()).                                                           *)
OnlyTheEndAsksForMore ==
  result = "unexpected_eof" => repl_mode /\ first = "end" /\ ~printed

(* repl() compiles a line alone, unless the last asked for more: its         *)
(* assertion that nothing is buffered then.                                  *)
LinesAreKeptForMore ==
  at = "prompt" => /\ lines <=> more
                   /\ more <=> result = "unexpected_eof"

(* Whether the REPL asks for more, and what it then keeps. *)
MoreIsAskedRightly == TypeOK /\ OnlyTheEndAsksForMore /\ LinesAreKeptForMore

(* A text that compiles is well bracketed: for each (, [ and {, and for each *)
(* construct that an end closes, there is one closer, in its place.  The     *)
(* functions of the parser consume these each on its own (an elsif leaves    *)
(* the end to its if, native has none).                                      *)
BracketsAreClosed == at # "compiling" /\ result = "success" => nest = <<>>

(* A text that compiles had no error and no bracket or end too few: what     *)
(* compile() calls a success is one.                                         *)
WhatCompilesIsRight == NoErrorIsSwallowed /\ BracketsAreClosed

(* compile() ends on every text that does: no loop of the parser goes on     *)
(* without consuming a token, and at the end of the text none goes on.       *)
CompilationEnds == at = "compiling" ~> at # "compiling"
=============================================================================
