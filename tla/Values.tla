-------------------------------- MODULE Values --------------------------------
(* What values look like and when they are equal: to_string() and repr,      *)
(* ==, and `in' (pk_var.c, pk_core.c), of values that are inside each other. *)
(* The values are as a program made them; none of the operations changes     *)
(* them or calls back.                                                       *)
(*                                                                           *)
(* The three are recursive in C.  Here the calls that are under way are a    *)
(* stack: the last is the innermost.                                         *)
EXTENDS Integers, Sequences, FiniteSets, SequencesExt, Relation

CONSTANTS
  Thing,    \* The lists, the maps and the instances of classes.
  Number,   \* Numbers, and what else is written as it is.
  Str,      \* The strings.
  Text,     \* The text of each string.
  Graphs,   \* Which things there are, and what is in them.
  Null, Error, \* No result, and that of an operation that fails.
  MaxDepth  \* Bound: the calls the stack of C has room for.

Scalar == Number \cup Str
Value == Thing \cup Scalar

(* The content of a list is its elements, of a map its keys, each with its   *)
(* value, in the order of the slots; of an instance its fields.              *)
Kind == {"list", "map", "inst"}

ASSUME ValuesAssumption ==
  /\ Text \in [Str -> {Text[s] : s \in Str}]
  /\ \A g \in Graphs : g.kind \in [Thing -> Kind] /\ g.content \in [Thing -> Seq(Value)]
  /\ MaxDepth \in Nat

VARIABLES
  kind, content, \* The things, of a behaviour.
  at,       \* "rest", "print", "compare", "search" between two elements,
            \* "done", "aborted", or "overflow" of the stack of C.
  op,       \* The operation: "none", "print", "==" or "in".
  stack,    \* The calls under way.
  output,   \* The buffer that is written.
  operands, \* The values printed or compared, or searched for and in.
  searched, \* How many elements a search has seen, or 0.
  result    \* What a comparison or a search has found.

things == <<kind, content>>
vars == <<things, at, op, stack, output, operands, searched, result>>

Sequence(v) == v \in Thing /\ kind[v] \in {"list", "map"}

Top == Last(stack)
Below == Front(stack)

-----------------------------------------------------------------------------
(* _toStringInternal().  A call for a list or a map knows those that are     *)
(* being written around it, the chain of OuterSequence.                      *)

Mark(m, x) == [mark |-> m, value |-> x]

(* The quotes depend on what is around a string, not on instances though.    *)
Scalars(v, outer, repr) ==
  IF v \in Str /\ (outer # <<>> \/ repr) THEN Mark("quoted", Text[v])
  ELSE Mark("plain", IF v \in Str THEN Text[v] ELSE v)

(* A fault: two sequences of a kind are taken for the same. *)
RecursiveOfKind(v, outer) == \E i \in 1 .. Len(outer) : kind[outer[i]] = kind[v]

(* A sequence that is being written is not entered again. *)
Recursive(v, outer) == \E i \in 1 .. Len(outer) : outer[i] = v

(* A fault: a call for an instance passes its own chain on, an empty one.    *)
CallForgetful(v, outer, repr) ==
  IF Sequence(v) THEN [of |-> v, next |-> 1, outer |-> Append(outer, v), repr |-> TRUE]
  ELSE [of |-> v, next |-> 1, outer |-> <<>>, repr |-> repr]

(* The elements of a sequence are written by repr, with it in their chain;   *)
(* the fields of an instance as the instance is.                             *)
Call(v, outer, repr) ==
  IF Sequence(v) THEN [of |-> v, next |-> 1, outer |-> Append(outer, v), repr |-> TRUE]
  ELSE [of |-> v, next |-> 1, outer |-> outer, repr |-> repr]

(* The call for v, above the calls under way. *)
Written(v, outer, repr, calls) ==
  IF Len(calls) = MaxDepth THEN at' = "overflow" /\ UNCHANGED <<stack, output>>
  ELSE
    /\ at' = "print"
    /\ CASE v \in Scalar ->
              stack' = calls /\ output' = Append(output, Scalars(v, outer, repr))
         [] Sequence(v) /\ content[v] = <<>> ->
              stack' = calls /\ output' = Append(output, Mark("empty", v))
         [] Sequence(v) /\ content[v] # <<>> /\ Recursive(v, outer) ->
              stack' = calls /\ output' = Append(output, Mark("cut", v))
         [] OTHER ->
              /\ stack' = Append(calls, Call(v, outer, repr))
              /\ output' = Append(output, Mark("open", v))

(* toString() and toRepr(); a string itself is its text. *)
PrintValue(v, repr) ==
  /\ at = "rest"
  /\ op' = "print"
  /\ operands' = <<v, repr>>
  /\ Written(v, <<>>, repr, <<>>)
  /\ UNCHANGED <<things, searched, result>>

(* The next element of the innermost. *)
PrintElement ==
  /\ at = "print" /\ stack # <<>>
  /\ Top.next <= Len(content[Top.of])
  /\ LET v == content[Top.of][Top.next]
     IN  Written(v, Top.outer, Top.repr, Append(Below, [Top EXCEPT !.next = @ + 1]))
  /\ UNCHANGED <<things, op, operands, searched, result>>

PrintClose ==
  /\ at = "print" /\ stack # <<>>
  /\ Top.next > Len(content[Top.of])
  /\ output' = Append(output, Mark("close", Top.of))
  /\ stack' = Below
  /\ UNCHANGED <<things, at, op, operands, searched, result>>

(* The buffer becomes a string. *)
PrintDone ==
  /\ at = "print" /\ stack = <<>>
  /\ at' = "done"
  /\ UNCHANGED <<things, op, stack, output, operands, searched, result>>

-----------------------------------------------------------------------------
(* isValuesEqual() *)

IsList(v) == v \in Thing /\ kind[v] = "list"

(* Equal without a look inside: the same, or strings of one text. *)
Same(x, y) == x = y \/ (x \in Str /\ y \in Str /\ Text[x] = Text[y])

(* Lists of a length are compared by their elements. *)
Enters(x, y) == IsList(x) /\ IsList(y) /\ Len(content[x]) = Len(content[y])

(* The comparison has an answer; a search goes on to the next element if it  *)
(* is no and there is one.                                                   *)
Answer(r) ==
  /\ stack' = <<>>
  /\ result' = r
  /\ at' = IF searched' # 0 /\ ~r /\ searched' < Len(content[operands'[2]])
           THEN "search" ELSE "done"

(* A fault: a list is equal to another as soon as an element is. *)
YesAtOnce(calls) == Answer(TRUE)

(* A call that answers no ends all the calls under way; one that answers yes *)
(* lets that below go on.                                                    *)
Yes(calls) ==
  IF calls = <<>> THEN Answer(TRUE)
  ELSE at' = "compare" /\ stack' = calls /\ UNCHANGED result

(* The call for x and y, above the calls under way. *)
Equal(x, y, calls) ==
  IF Len(calls) = MaxDepth THEN at' = "overflow" /\ UNCHANGED <<stack, result>>
  ELSE CASE Same(x, y) -> Yes(calls)
         [] ~Same(x, y) /\ Enters(x, y) ->
              /\ stack' = Append(calls, [l |-> x, r |-> y, next |-> 1])
              /\ at' = "compare"
              /\ UNCHANGED result
         [] OTHER -> Answer(FALSE)

(* OP_EQEQ, OP_NOTEQ *)
Compare(x, y) ==
  /\ at = "rest"
  /\ op' = "=="
  /\ operands' = <<x, y>>
  /\ UNCHANGED searched
  /\ Equal(x, y, <<>>)
  /\ UNCHANGED <<things, output>>

(* The next elements of the innermost lists. *)
CompareElements ==
  /\ at = "compare"
  /\ Top.next <= Len(content[Top.l])
  /\ UNCHANGED <<op, operands, searched>>
  /\ Equal(content[Top.l][Top.next], content[Top.r][Top.next],
           Append(Below, [Top EXCEPT !.next = @ + 1]))
  /\ UNCHANGED <<things, output>>

(* No element is left. *)
CompareReturn ==
  /\ at = "compare"
  /\ Top.next > Len(content[Top.l])
  /\ UNCHANGED <<op, operands, searched>>
  /\ Yes(Below)
  /\ UNCHANGED <<things, output>>

-----------------------------------------------------------------------------
(* varContains() *)

Keys(m) == {content[m][i] : i \in {j \in DOMAIN content[m] : j % 2 = 1}}

(* In a map: the lookup of a key.  That of a list or of a map is undefined,  *)
(* it finds nothing if it does not end the program; that of an instance ends *)
(* it, see _hashObject().                                                    *)
InMap(x, m) ==
  /\ CASE content[m] = <<>> -> at' = "done" /\ result' = FALSE
       [] content[m] # <<>> /\ x \in Scalar ->
            at' = "done" /\ result' = (\E k \in Keys(m) : Same(x, k))
       [] content[m] # <<>> /\ Sequence(x) ->
            \/ at' = "done" /\ result' = FALSE
            \/ at' = "aborted" /\ UNCHANGED result
       [] OTHER -> at' = "aborted" /\ UNCHANGED result
  /\ UNCHANGED <<stack, searched>>

(* In a string: only that a longer one is not inside is implemented. *)
InString(x, s) ==
  /\ CASE x \notin Str -> at' = "done" /\ result' = Error
       [] x \in Str /\ Len(Text[x]) > Len(Text[s]) -> at' = "done" /\ result' = FALSE
       [] OTHER -> at' = "aborted" /\ UNCHANGED result
  /\ UNCHANGED <<stack, searched>>

(* In what is not an object the error is set and its memory read, in an      *)
(* instance it is not implemented: the program ends.                         *)
InOther ==
  /\ at' = "aborted"
  /\ UNCHANGED <<stack, searched, result>>

(* OP_IN *)
VarContains(x, c) ==
  /\ at = "rest"
  /\ op' = "in"
  /\ operands' = <<x, c>>
  /\ IF IsList(c) /\ content[c] # <<>>
     THEN searched' = 1 /\ Equal(x, content[c][1], <<>>)
     ELSE CASE IsList(c) -> at' = "done" /\ result' = FALSE /\ UNCHANGED <<stack, searched>>
            [] Sequence(c) /\ ~IsList(c) -> InMap(x, c)
            [] c \in Str -> InString(x, c)
            [] OTHER -> InOther
  /\ UNCHANGED <<things, output>>

SearchNext ==
  /\ at = "search"
  /\ searched' = searched + 1
  /\ UNCHANGED <<op, operands>>
  /\ Equal(operands[1], content[operands[2]][searched + 1], <<>>)
  /\ UNCHANGED <<things, output>>

-----------------------------------------------------------------------------

Init ==
  /\ \E g \in Graphs : kind = g.kind /\ content = g.content
  /\ at = "rest"
  /\ op = "none"
  /\ stack = <<>>
  /\ output = <<>>
  /\ operands = <<>>
  /\ searched = 0
  /\ result = Null

(* The program goes on, unless it was ended. *)
Return ==
  /\ at = "done"
  /\ at' = "rest"
  /\ op' = "none"
  /\ stack' = <<>>
  /\ output' = <<>>
  /\ operands' = <<>>
  /\ searched' = 0
  /\ result' = Null
  /\ UNCHANGED things

Next ==
  \/ \E v \in Value, repr \in BOOLEAN : PrintValue(v, repr)
  \/ PrintElement \/ PrintClose \/ PrintDone
  \/ \E x, y \in Value : Compare(x, y) \/ VarContains(x, y)
  \/ CompareElements \/ CompareReturn
  \/ SearchNext
  \/ Return

Spec == Init /\ [][Next]_vars /\ WF_vars(PrintElement \/ PrintClose \/ PrintDone)
                             /\ WF_vars(CompareElements \/ CompareReturn \/ SearchNext)

-----------------------------------------------------------------------------
(* Properties *)

TypeOK ==
  /\ at \in {"rest", "print", "compare", "search", "done", "aborted", "overflow"}
  /\ Len(stack) <= MaxDepth
  /\ at \in {"rest", "search", "done"} => stack = <<>>
  /\ at = "compare" => stack # <<>>
  /\ \A i \in 1 .. Len(stack) :
       IF "of" \in DOMAIN stack[i]
       THEN stack[i].of \in Thing /\ stack[i].next \in 1 .. Len(content[stack[i].of]) + 1
       ELSE stack[i].l \in Thing /\ stack[i].r \in Thing
              /\ stack[i].next \in 1 .. Len(content[stack[i].l]) + 1
  /\ result \in {TRUE, FALSE, Null, Error}

(* x is in v, through things of these kinds only. *)
Within(kinds) ==
  TransitiveClosure(
    [v, x \in Thing |-> kind[v] \in kinds /\ kind[x] \in kinds
                          /\ \E i \in DOMAIN content[v] : content[v][i] = x], Thing)

(* v is, or has in it, something that is inside itself. *)
Cyclic(v, kinds) ==
  v \in Thing /\ \E x \in Thing : /\ x = v \/ Within(Kind)[v, x]
                                  /\ Within(kinds)[x, x]

(* What a value that is not inside itself looks like, shared parts in full. *)
RECURSIVE Shown(_, _)
Shown(v, quoted) ==
  CASE v \in Scalar -> <<IF v \in Str THEN Mark(IF quoted THEN "quoted" ELSE "plain", Text[v])
                                      ELSE Mark("plain", v)>>
    [] Sequence(v) /\ content[v] = <<>> -> <<Mark("empty", v)>>
    [] OTHER -> <<Mark("open", v)>>
                \o FlattenSeq([i \in DOMAIN content[v] |->
                                Shown(content[v][i], quoted \/ Sequence(v))])
                \o <<Mark("close", v)>>

(* Only what is inside itself is cut: of a value that is in several places   *)
(* each is written in full (pk_var.c, _toStringInternal()).                  *)
PrintedInFull ==
  at = "done" /\ op = "print" /\ ~Cyclic(operands[1], Kind) => output = Shown(operands[1], operands[2])

Marks(m) == {x \in Thing : \E i \in 1 .. Len(output) : output[i] = Mark(m, x)}

(* Of a value with cycles all is written that is in it, and a sequence is    *)
(* cut only if it is inside itself.                                          *)
NothingIsLost ==
  at = "done" /\ op = "print" /\ operands[1] \in Thing =>
    /\ \A x \in Thing : x = operands[1] \/ Within(Kind)[operands[1], x] =>
         x \in Marks("open") \cup Marks("empty")
    /\ \A x \in Marks("cut") : Within(Kind)[x, x]

(* What toString() writes is the value: nothing more is cut than must be. *)
WrittenRightly == TypeOK /\ PrintedInFull /\ NothingIsLost

(* An equality and a search answer by what the lists are made of, whichever  *)
(* way: yes for the largest relation whose pairs are the same or lists of    *)
(* pairs of it.                                                              *)
RECURSIVE Largest(_)
Largest(R) ==
  LET S == {p \in R : \/ Same(p[1], p[2])
                      \/ /\ IsList(p[1]) /\ IsList(p[2])
                         /\ Len(content[p[1]]) = Len(content[p[2]])
                         /\ \A i \in DOMAIN content[p[1]] :
                              <<content[p[1]][i], content[p[2]][i]>> \in R}
  IN  IF S = R THEN R ELSE Largest(S)

Equals(x, y) == <<x, y>> \in Largest(Value \X Value)

AnswersAreRight ==
  at = "done" /\ result \in BOOLEAN =>
    LET x == operands[1]
        c == operands[2]
    IN  CASE op = "==" -> result = Equals(x, c)
          [] op = "in" /\ IsList(c) -> result = \E i \in DOMAIN content[c] : Equals(x, content[c][i])
          [] op = "in" /\ Sequence(c) /\ ~IsList(c) -> result = \E k \in Keys(c) : Equals(x, k)
          [] OTHER -> result = FALSE

(* Writing a value ends, however lists and maps are inside each other: with  *)
(* an instance between or not, unless instances alone are inside themselves, *)
(* which the stack of C has no room for.                                     *)
PrintingEnds ==
  at = "print" /\ ~Cyclic(operands[1], {"inst"}) ~> at = "done"

(* A comparison ends if one of the two is no list inside itself; a comment   *)
(* at isValuesEqual() says that it does not if both are.                     *)
ComparingEnds ==
  at \in {"compare", "search"}
    /\ (~Cyclic(operands[1], {"list"}) \/ ~Cyclic(operands[2], {"list"})) ~> at = "done"

(* The recursions of C over what a program's values refer to all end. *)
RecursionsEnd == PrintingEnds /\ ComparingEnds
=============================================================================
