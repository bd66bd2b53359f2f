---------------------------- MODULE ParserProofs ----------------------------
(***************************************************************************)
(* Proofs about Parser, for texts of any tokens and any length.            *)
(***************************************************************************)
EXTENDS Parser, TLAPS, SequenceTheorems

(* The items, by name and argument; that of an item without one is its name. *)
Plain == {"skipNewLines", "consumeEndStatement", "parseError", "check", "assignment",
          "exprList", "listMore", "exprMap", "mapMore", "exprCall", "chainArguments",
          "chainFirst", "compileStatement", "returnValue", "forBody", "endLoop", "fields",
          "compilerImport", "fromSymbols", "alias", "moreSymbols", "moreImports",
          "compileTopLevelStatement", "moduleName", "script"}
Expected  == {")", "]", "}", "end", "name", ":", "in", "=", "import"}
Delimiters == {"then", "do"}
Precedences == Nat \ {0}
BlockTypes == {"if", "else", "loop", "func"}
FunctionTypes == {"literal", "native", "script"}

Ordinary ==
  {Item(n) : n \in Plain} \cup {Expect(t) : t \in Expected}
  \cup {StartBlock(d) : d \in Delimiters} \cup {Parse(p) : p \in Precedences}
  \cup {Infix(p) : p \in Precedences}
  \cup {Block(type) : type \in BlockTypes} \cup {Statements(type) : type \in BlockTypes}
  \cup {If(elsif) : elsif \in BOOLEAN} \cup {<<"ifRest", elsif>> : elsif \in BOOLEAN}
  \cup {Arguments(close) : close \in {")", "}"}}
  \cup {Function(type) : type \in FunctionTypes}
  \cup {<<"parameters", type>> : type \in FunctionTypes}
  \cup {<<"firstParameter", type>> : type \in FunctionTypes}
  \cup {<<"moreParameters", type>> : type \in FunctionTypes}

Others == Ordinary \cup {<<"discard", t>> : t \in Expected}
Items == Others \cup {Item("exprName")}

(* The first two steps of a compilation, which fill the window. *)
Starts == {Start, Tail(Start)}

(* The closers an item is going to consume.  That of an error's token that is *)
(* discarded is nobody's.                                                     *)
Owed(n, a) ==
  CASE n = "consume" /\ a \in Closers       -> <<a>>
    [] n \in {"exprList", "listMore"}       -> <<"]">>
    [] n \in {"exprMap", "mapMore", "chainFirst"} -> <<"}">>
    [] n = "exprCall"                       -> <<")">>
    [] n = "arguments"                      -> <<a>>
    [] n \in {"compileIfStatement", "ifRest"} /\ ~a -> <<"end">>
    [] n \in {"fields", "forBody"}          -> <<"end">>
    [] n \in {"compileFunction", "parameters"} /\ a # "native" -> <<"end">>
    [] n \in {"firstParameter", "moreParameters"} ->
         IF a = "native" THEN <<")">> ELSE <<")", "end">>
    [] n = "discard"                        -> <<"unmatched">>
    [] OTHER                                -> <<>>

Owes(item) == Owed(item[1], item[Len(item)])

(* What is to be done consumes these closers in turn: o has, for each item, *)
(* what is owed from there on.                                              *)
Owing(o, s, e) ==
  /\ o \in Seq(Seq(Closers)) /\ Len(o) = Len(s) + 1
  /\ o[1] = e /\ o[Len(s) + 1] = <<>>
  /\ \A i \in 1 .. Len(s) : o[i] = Owes(s[i]) \o o[i + 1]

Sums(s, e) == \E o : Owing(o, s, e)

(* Consuming t, what is owed changes from d to e. *)
Eaten(t, d, e) ==
  /\ t \in Openers => e = <<Closer(t)>> \o d
  /\ t \in Closers => d = <<t>> \o e
  /\ t \notin Openers \cup Closers => e = d

HasErr(s) == \E i \in 1 .. Len(s) : s[i] = Err

(* What may become of an item that owes d. *)
Pays(outcomes, d) ==
  \A p \in outcomes :
    /\ p.eat \in BOOLEAN /\ p.to \in Seq(Ordinary)
    /\ \/ HasErr(p.to)
       \/ \E e \in Seq(Closers) : Sums(p.to, e) /\ IF p.eat THEN Eaten(current, d, e) ELSE e = d

-----------------------------------------------------------------------------
(* Sequences. *)

(* The tail of a sequence. *)
LEMMA TailOf ==
  ASSUME NEW S, NEW s \in Seq(S), s # <<>>
  PROVE  /\ Head(s) = s[1] /\ Head(s) \in S /\ Tail(s) \in Seq(S)
         /\ Len(s) \in Nat \ {0} /\ Len(Tail(s)) = Len(s) - 1
         /\ \A i \in 1 .. Len(s) - 1 : Tail(s)[i] = s[i + 1]
OBVIOUS

(* One sequence after another. *)
LEMMA ConcatOf ==
  ASSUME NEW S, NEW s \in Seq(S), NEW t \in Seq(S)
  PROVE  /\ s \o t \in Seq(S) /\ Len(s \o t) = Len(s) + Len(t)
         /\ \A i \in 1 .. Len(s) : (s \o t)[i] = s[i]
         /\ \A i \in 1 .. Len(t) : (s \o t)[Len(s) + i] = t[i]
<1>1. Len(s) \in Nat /\ Len(t) \in Nat
  OBVIOUS
<1>2. \A i \in 1 .. Len(t) : Len(s) + i \in 1 .. Len(s) + Len(t) /\ Len(s) + i > Len(s)
                             /\ Len(s) + i - Len(s) = i
  BY <1>1
<1>3. \A i \in 1 .. Len(s) : i \in 1 .. Len(s) + Len(t)
  BY <1>1
<1>4. QED
  BY <1>1, <1>2, <1>3, ConcatProperties

LEMMA ConcatNone ==
  ASSUME NEW S, NEW s \in Seq(S)
  PROVE  s \o <<>> = s /\ <<>> \o s = s
BY ConcatEmptySeq

(* A sequence of elements of S, by its head and its tail. *)
LEMMA SeqByHead ==
  ASSUME NEW S, NEW T, S \subseteq T, NEW s \in Seq(T), s # <<>>, Head(s) \in S, Tail(s) \in Seq(S)
  PROVE  s \in Seq(S)
<1>1. /\ Head(s) = s[1] /\ Len(s) \in Nat \ {0} /\ Len(Tail(s)) = Len(s) - 1
      /\ \A i \in 1 .. Len(s) - 1 : Tail(s)[i] = s[i + 1]
  BY TailOf
<1>2. ASSUME NEW i \in 1 .. Len(s)
      PROVE  s[i] \in S
  <2>1. CASE i = 1
    BY <1>1, <2>1
  <2>2. CASE i # 1
    <3>1. i - 1 \in 1 .. Len(s) - 1 /\ i - 1 + 1 = i
      BY <1>1, <2>2
    <3>2. Tail(s)[i - 1] = s[i] /\ Tail(s)[i - 1] \in S
      BY <1>1, <3>1, ElementOfSeq
    <3>3. QED
      BY <3>2
  <2>3. QED
    BY <2>1, <2>2
<1>3. QED
  BY <1>2

(* An element before a sequence. *)
LEMMA HeadAndTail ==
  ASSUME NEW S, NEW a \in S, NEW r \in Seq(S), NEW s, s = <<a>> \o r
  PROVE  s # <<>> /\ Head(s) = a /\ Tail(s) = r
<1>1. <<a>> \in Seq(S) /\ Len(<<a>>) = 1 /\ <<a>>[1] = a
  OBVIOUS
<1>2. /\ s \in Seq(S) /\ Len(s) = 1 + Len(r) /\ s[1] = a
      /\ \A i \in 1 .. Len(r) : s[1 + i] = r[i]
  BY <1>1, ConcatOf
<1>3. s # <<>>
  BY <1>2
<1>4. /\ Head(s) = s[1] /\ Tail(s) \in Seq(S) /\ Len(Tail(s)) = Len(s) - 1
      /\ \A i \in 1 .. Len(s) - 1 : Tail(s)[i] = s[i + 1]
  BY <1>2, <1>3, TailOf
<1>5. Len(Tail(s)) = Len(r) /\ \A i \in 1 .. Len(r) : Tail(s)[i] = r[i]
  <2>1. \A i \in 1 .. Len(r) : i \in 1 .. Len(s) - 1 /\ i + 1 = 1 + i
    BY <1>2
  <2>2. QED
    BY <1>2, <1>4, <2>1
<1>6. \A u, v \in Seq(S) : Len(u) = Len(v) /\ (\A i \in 1 .. Len(v) : u[i] = v[i]) => u = v
  OBVIOUS
<1>7. QED
  BY <1>2, <1>3, <1>4, <1>5, <1>6

(* Tuples, one after the other. *)
LEMMA OneAndOne ==
  ASSUME NEW a, NEW b
  PROVE  <<a>> \o <<b>> = <<a, b>>
<1> DEFINE S == {a, b}
           r == <<a>> \o <<b>>
<1>1. <<a>> \in Seq(S) /\ <<b>> \in Seq(S)
  OBVIOUS
<1>2. Len(<<a>>) = 1 /\ Len(<<b>>) = 1 /\ <<a>>[1] = a /\ <<b>>[1] = b
  OBVIOUS
<1> HIDE DEF S
<1>3. r \in Seq(S) /\ Len(r) = 2 /\ r[1] = a /\ r[2] = b
  BY <1>1, <1>2, ConcatOf
<1>4. \A u \in Seq(S) : Len(u) = 2 => u = <<u[1], u[2]>>
  OBVIOUS
<1> HIDE DEF r
<1>5. r = <<a, b>>
  BY <1>3, <1>4
<1>6. QED
  BY <1>5 DEF r

LEMMA TwoAndOne ==
  ASSUME NEW a, NEW b, NEW c
  PROVE  <<a, b>> \o <<c>> = <<a, b, c>>
<1> DEFINE S == {a, b, c}
           r == <<a, b>> \o <<c>>
<1>1. <<a, b>> \in Seq(S) /\ <<c>> \in Seq(S)
  OBVIOUS
<1>2. /\ Len(<<a, b>>) = 2 /\ Len(<<c>>) = 1 /\ <<a, b>>[1] = a /\ <<a, b>>[2] = b /\ <<c>>[1] = c
  OBVIOUS
<1> HIDE DEF S
<1>3. r \in Seq(S) /\ Len(r) = 3 /\ r[1] = a /\ r[2] = b /\ r[3] = c
  BY <1>1, <1>2, ConcatOf
<1>4. \A u \in Seq(S) : Len(u) = 3 => u = <<u[1], u[2], u[3]>>
  OBVIOUS
<1> HIDE DEF r
<1>5. r = <<a, b, c>>
  BY <1>3, <1>4
<1>6. QED
  BY <1>5 DEF r

LEMMA OneAndTwo ==
  ASSUME NEW a, NEW b, NEW c
  PROVE  <<a>> \o <<b, c>> = <<a, b, c>>
<1> DEFINE S == {a, b, c}
           r == <<a>> \o <<b, c>>
<1>1. <<a>> \in Seq(S) /\ <<b, c>> \in Seq(S)
  OBVIOUS
<1>2. /\ Len(<<a>>) = 1 /\ Len(<<b, c>>) = 2 /\ <<a>>[1] = a /\ <<b, c>>[1] = b /\ <<b, c>>[2] = c
  OBVIOUS
<1> HIDE DEF S
<1>3. r \in Seq(S) /\ Len(r) = 3 /\ r[1] = a /\ r[2] = b /\ r[3] = c
  BY <1>1, <1>2, ConcatOf
<1>4. \A u \in Seq(S) : Len(u) = 3 => u = <<u[1], u[2], u[3]>>
  OBVIOUS
<1> HIDE DEF r
<1>5. r = <<a, b, c>>
  BY <1>3, <1>4
<1>6. QED
  BY <1>5 DEF r

LEMMA TwoAndTwo ==
  ASSUME NEW a, NEW b, NEW c, NEW d
  PROVE  <<a, b>> \o <<c, d>> = <<a, b, c, d>>
<1> DEFINE S == {a, b, c, d}
           r == <<a, b>> \o <<c, d>>
<1>1. <<a, b>> \in Seq(S) /\ <<c, d>> \in Seq(S)
  OBVIOUS
<1>2. /\ Len(<<a, b>>) = 2 /\ Len(<<c, d>>) = 2
      /\ <<a, b>>[1] = a /\ <<a, b>>[2] = b /\ <<c, d>>[1] = c /\ <<c, d>>[2] = d
  OBVIOUS
<1> HIDE DEF S
<1>3. r \in Seq(S) /\ Len(r) = 4 /\ r[1] = a /\ r[2] = b /\ r[3] = c /\ r[4] = d
  BY <1>1, <1>2, ConcatOf
<1>4. \A u \in Seq(S) : Len(u) = 4 => u = <<u[1], u[2], u[3], u[4]>>
  OBVIOUS
<1> HIDE DEF r
<1>5. r = <<a, b, c, d>>
  BY <1>3, <1>4
<1>6. QED
  BY <1>5 DEF r

-----------------------------------------------------------------------------
(* What is owed. *)

LEMMA ThreeOwed ==
  \A r, s, t \in Seq(Closers) : (r \o s) \o t = r \o (s \o t)
BY ConcatAssociative

LEMMA OwesItem ==
  /\ \A n : Owes(<<n>>) = Owed(n, n)
  /\ \A n, a : Owes(<<n, a>>) = Owed(n, a)
BY DEF Owes

LEMMA SumsNone == Sums(<<>>, <<>>)
<1>1. << <<>> >> \in Seq(Seq(Closers))
  <2>1. <<>> \in Seq(Closers)
    OBVIOUS
  <2>2. QED
    BY <2>1
<1>2. Owing(<< <<>> >>, <<>>, <<>>)
  BY <1>1 DEF Owing
<1>3. QED
  BY <1>2 DEF Sums

(* What is owed are closers. *)
LEMMA SumsTyped ==
  ASSUME NEW S, NEW s \in Seq(S), NEW e, Sums(s, e)
  PROVE  e \in Seq(Closers)
<1>1. PICK o : Owing(o, s, e)
  BY DEF Sums
<1>2. 1 \in 1 .. Len(o) /\ o \in Seq(Seq(Closers)) /\ e = o[1]
  BY <1>1 DEF Owing
<1>3. QED
  BY <1>2, ElementOfSeq

(* Where nothing is done nothing is owed. *)
LEMMA NoneSums ==
  ASSUME NEW e, Sums(<<>>, e)
  PROVE  e = <<>>
BY DEF Sums, Owing

(* The last item owes it all. *)
LEMMA SumsLast ==
  ASSUME NEW S, NEW s \in Seq(S), s # <<>>, NEW e \in Seq(Closers), Owes(s[Len(s)]) = e,
         \A i \in 1 .. Len(s) - 1 : Owes(s[i]) = <<>>
  PROVE  Sums(s, e)
<1> DEFINE N == Len(s)
           o == [i \in 1 .. N + 1 |-> IF i <= N THEN e ELSE <<>>]
<1>1. N \in Nat \ {0} /\ <<>> \in Seq(Closers)
  OBVIOUS
<1>2. o \in [1 .. N + 1 -> Seq(Closers)]
  BY <1>1
<1>3. o \in Seq(Seq(Closers)) /\ Len(o) = N + 1
  BY <1>1, <1>2
<1>4. o[1] = e /\ o[N + 1] = <<>>
  BY <1>1
<1>5. \A i \in 1 .. N : o[i] = e /\ o[i + 1] = IF i = N THEN <<>> ELSE e
  BY <1>1
<1>6. e \o <<>> = e /\ <<>> \o e = e
  BY ConcatNone
<1>7. \A i \in 1 .. N : i = N \/ i \in 1 .. N - 1
  BY <1>1
<1> HIDE DEF o
<1>8. \A i \in 1 .. N : o[i] = Owes(s[i]) \o o[i + 1]
  BY <1>5, <1>6, <1>7
<1>9. QED
  BY <1>3, <1>4, <1>8 DEF Sums, Owing

(* Items in a row owe what the first ones do, then what the others do. *)
LEMMA SumsConcat ==
  ASSUME NEW S, NEW s \in Seq(S), NEW t \in Seq(S), NEW d, NEW e, Sums(s, d), Sums(t, e),
         \A i \in 1 .. Len(s) : Owes(s[i]) \in Seq(Closers)
  PROVE  Sums(s \o t, d \o e)
<1>1. PICK o : Owing(o, s, d)
  BY DEF Sums
<1>2. PICK q : Owing(q, t, e)
  BY DEF Sums
<1> DEFINE M == Len(s)
           N == Len(t)
           r == [i \in 1 .. M + N + 1 |-> IF i <= M THEN o[i] \o e ELSE q[i - M]]
<1>3. M \in Nat /\ N \in Nat
  OBVIOUS
<1>4. /\ \A i \in 1 .. M + 1 : o[i] \in Seq(Closers)
      /\ \A i \in 1 .. N + 1 : q[i] \in Seq(Closers)
      /\ e \in Seq(Closers) /\ d \in Seq(Closers)
  <2>1. o \in Seq(Seq(Closers)) /\ Len(o) = M + 1 /\ q \in Seq(Seq(Closers)) /\ Len(q) = N + 1
    BY <1>1, <1>2 DEF Owing
  <2>2. QED
    BY <2>1, SumsTyped, ElementOfSeq
<1>5. \A i \in 1 .. M + N + 1 : r[i] \in Seq(Closers)
  <2>1. ASSUME NEW i \in 1 .. M + N + 1
        PROVE  r[i] \in Seq(Closers)
    <3>1. CASE i <= M
      <4>1. i \in 1 .. M + 1 /\ r[i] = o[i] \o e
        BY <1>3, <3>1
      <4>2. QED
        BY <1>4, <4>1, ConcatOf
    <3>2. CASE ~(i <= M)
      <4>1. i - M \in 1 .. N + 1 /\ r[i] = q[i - M]
        BY <1>3, <3>2
      <4>2. QED
        BY <1>4, <4>1
    <3>3. QED
      BY <3>1, <3>2
  <2>2. QED
    BY <2>1
<1>6. r \in Seq(Seq(Closers)) /\ Len(r) = M + N + 1
  <2>1. M + N + 1 \in Nat
    BY <1>3
  <2>2. QED
    BY <1>5, <2>1
<1>7. r[1] = d \o e
  <2>1. CASE M = 0
    <3>1. r[1] = q[1] /\ q[1] = e /\ o[1] = d /\ o[1] = <<>>
      BY <1>1, <1>2, <1>3, <2>1 DEF Owing
    <3>2. <<>> \o e = e
      BY <1>4, ConcatNone
    <3>3. QED
      BY <3>1, <3>2
  <2>2. CASE M # 0
    <3>1. 1 \in 1 .. M + N + 1 /\ 1 <= M
      BY <1>3, <2>2
    <3>2. r[1] = o[1] \o e /\ o[1] = d
      BY <1>1, <3>1 DEF Owing
    <3>3. QED
      BY <3>2
  <2>3. QED
    BY <2>1, <2>2
<1>8. r[M + N + 1] = <<>>
  BY <1>2, <1>3 DEF Owing
<1>9. ASSUME NEW i \in 1 .. M + N
      PROVE  r[i] = Owes((s \o t)[i]) \o r[i + 1]
  <2>1. CASE i <= M
    <3>1. i \in 1 .. M /\ i + 1 \in 1 .. M + 1 /\ r[i] = o[i] \o e
      BY <1>3, <2>1
    <3>2. (s \o t)[i] = s[i]
      BY <3>1, ConcatOf
    <3>3. r[i + 1] = o[i + 1] \o e
      <4>1. CASE i = M
        <5>1. r[i + 1] = q[1]
          BY <1>3, <4>1
        <5>2. o[i + 1] = <<>> /\ q[1] = e
          BY <1>1, <1>2, <4>1 DEF Owing
        <5>3. <<>> \o e = e
          BY <1>4, ConcatNone
        <5>4. QED
          BY <5>1, <5>2, <5>3
      <4>2. CASE i # M
        BY <1>3, <2>1, <4>2
      <4>3. QED
        BY <4>1, <4>2
    <3>4. o[i] = Owes(s[i]) \o o[i + 1]
      BY <1>1, <3>1 DEF Owing
    <3>5. (Owes(s[i]) \o o[i + 1]) \o e = Owes(s[i]) \o (o[i + 1] \o e)
      <4>1. Owes(s[i]) \in Seq(Closers) /\ o[i + 1] \in Seq(Closers) /\ e \in Seq(Closers)
        BY <1>4, <3>1
      <4> HIDE DEF r
      <4>2. QED
        BY <4>1, ThreeOwed, Zenon
    <3> HIDE DEF r
    <3>6. QED
      BY <3>1, <3>2, <3>3, <3>4, <3>5
  <2>2. CASE ~(i <= M)
    <3>1. i - M \in 1 .. N /\ M + (i - M) = i /\ r[i] = q[i - M] /\ r[i + 1] = q[i - M + 1]
      BY <1>3, <2>2
    <3>2. (s \o t)[i] = t[i - M]
      BY <3>1, ConcatOf
    <3>3. q[i - M] = Owes(t[i - M]) \o q[i - M + 1]
      BY <1>2, <3>1 DEF Owing
    <3> HIDE DEF r
    <3>4. QED
      BY <3>1, <3>2, <3>3
  <2>3. QED
    BY <2>1, <2>2
<1>10. Len(s \o t) = M + N
  BY ConcatOf
<1> HIDE DEF r
<1>11. QED
  BY <1>6, <1>7, <1>8, <1>9, <1>10 DEF Sums, Owing

(* What is owed after the first item is done. *)
LEMMA SumsTail ==
  ASSUME NEW S, NEW s \in Seq(S), s # <<>>, NEW d, Sums(s, d)
  PROVE  \E e \in Seq(Closers) : Sums(Tail(s), e) /\ d = Owes(Head(s)) \o e
<1>1. PICK o : Owing(o, s, d)
  BY DEF Sums
<1>2. /\ Head(s) = s[1] /\ Tail(s) \in Seq(S) /\ Len(s) \in Nat \ {0} /\ Len(Tail(s)) = Len(s) - 1
      /\ \A i \in 1 .. Len(s) - 1 : Tail(s)[i] = s[i + 1]
  BY TailOf
<1>3. /\ o \in Seq(Seq(Closers)) /\ Len(o) = Len(s) + 1 /\ o[1] = d /\ o[Len(s) + 1] = <<>>
      /\ \A i \in 1 .. Len(s) : o[i] = Owes(s[i]) \o o[i + 1]
  BY <1>1 DEF Owing
<1>4. /\ Tail(o) \in Seq(Seq(Closers)) /\ Len(Tail(o)) = Len(o) - 1
      /\ \A i \in 1 .. Len(o) - 1 : Tail(o)[i] = o[i + 1]
  <2>1. o # <<>>
    BY <1>2, <1>3
  <2>2. QED
    BY <1>3, <2>1, TailOf
<1>5. \A i \in 1 .. Len(Tail(s)) : /\ i \in 1 .. Len(s) - 1 /\ i + 1 \in 1 .. Len(s)
                                   /\ i \in 1 .. Len(o) - 1 /\ i + 1 \in 1 .. Len(o) - 1
  BY <1>2, <1>3
<1>6. \A i \in 1 .. Len(Tail(s)) : Tail(o)[i] = Owes(Tail(s)[i]) \o Tail(o)[i + 1]
  BY <1>2, <1>3, <1>4, <1>5
<1>7. Len(Tail(o)) = Len(Tail(s)) + 1 /\ Tail(o)[Len(Tail(s)) + 1] = <<>>
  BY <1>2, <1>3, <1>4
<1>8. Owing(Tail(o), Tail(s), Tail(o)[1])
  BY <1>4, <1>6, <1>7 DEF Owing
<1>9. 1 \in 1 .. Len(s) /\ 1 \in 1 .. Len(Tail(o)) /\ Tail(o)[1] = o[2]
  BY <1>2, <1>3, <1>4
<1>10. Tail(o)[1] \in Seq(Closers) /\ d = Owes(Head(s)) \o Tail(o)[1]
  BY <1>2, <1>3, <1>4, <1>9, ElementOfSeq
<1>11. QED
  BY <1>8, <1>10 DEF Sums

(* An item and what it owes. *)
One(item, e) == item \in Ordinary /\ Owes(item) = e /\ e \in Seq(Closers)

Owers == {"exprList", "listMore", "exprMap", "mapMore", "chainFirst", "exprCall",
          "fields", "forBody"}

(* The items that owe nothing. *)
LEMMA QuietItems ==
  /\ \A n \in Plain \ Owers : One(Item(n), <<>>)
  /\ One(Skip, <<>>) /\ One(EndStatement, <<>>) /\ One(Check, <<>>) /\ One(EndLoop, <<>>)
  /\ One(Err, <<>>)
  /\ \A t \in Expected \ Closers : One(Expect(t), <<>>)
  /\ \A d \in Delimiters : One(StartBlock(d), <<>>)
  /\ \A p \in Precedences : One(Parse(p), <<>>) /\ One(Infix(p), <<>>)
  /\ One(Expression, <<>>)
  /\ \A type \in BlockTypes : One(Block(type), <<>>) /\ One(Statements(type), <<>>)
<1>1. <<>> \in Seq(Closers)
  OBVIOUS
<1>2. ASSUME NEW n \in Plain \ Owers
      PROVE  One(Item(n), <<>>)
  <2>1. Owed(n, n) = <<>>
    BY DEF Plain, Owers, Owed
  <2>2. Item(n) \in Ordinary /\ Owes(Item(n)) = Owed(n, n)
    BY OwesItem DEF Ordinary, Item
  <2>3. QED
    BY <1>1, <2>1, <2>2 DEF One
<1>3. /\ One(Skip, <<>>) /\ One(EndStatement, <<>>) /\ One(Check, <<>>) /\ One(EndLoop, <<>>)
      /\ One(Err, <<>>)
  <2>1. {"skipNewLines", "consumeEndStatement", "check", "endLoop", "parseError"} \subseteq Plain \ Owers
    BY DEF Plain, Owers
  <2>2. QED
    BY <1>2, <2>1 DEF Skip, EndStatement, Check, EndLoop, Err
<1>4. ASSUME NEW t \in Expected \ Closers
      PROVE  One(Expect(t), <<>>)
  <2>1. Owed("consume", t) = <<>>
    BY DEF Owed
  <2>2. Expect(t) \in Ordinary /\ Owes(Expect(t)) = Owed("consume", t)
    BY OwesItem DEF Ordinary, Expect
  <2>3. QED
    BY <1>1, <2>1, <2>2 DEF One
<1>5. ASSUME NEW d \in Delimiters
      PROVE  One(StartBlock(d), <<>>)
  <2>1. Owed("consumeStartBlock", d) = <<>>
    BY DEF Owed
  <2>2. StartBlock(d) \in Ordinary /\ Owes(StartBlock(d)) = Owed("consumeStartBlock", d)
    BY OwesItem DEF Ordinary, StartBlock
  <2>3. QED
    BY <1>1, <2>1, <2>2 DEF One
<1>6. ASSUME NEW p \in Precedences
      PROVE  One(Parse(p), <<>>) /\ One(Infix(p), <<>>)
  <2>1. Owed("parsePrecedence", p) = <<>> /\ Owed("infix", p) = <<>>
    BY DEF Owed
  <2>2. /\ Parse(p) \in Ordinary /\ Owes(Parse(p)) = Owed("parsePrecedence", p)
        /\ Infix(p) \in Ordinary /\ Owes(Infix(p)) = Owed("infix", p)
    BY OwesItem DEF Ordinary, Parse, Infix
  <2>3. QED
    BY <1>1, <2>1, <2>2 DEF One
<1>7. One(Expression, <<>>)
  BY <1>6 DEF Expression, Parse, Lowest, Precedences
<1>8. ASSUME NEW type \in BlockTypes
      PROVE  One(Block(type), <<>>) /\ One(Statements(type), <<>>)
  <2>1. Owed("compileBlockBody", type) = <<>> /\ Owed("statements", type) = <<>>
    BY DEF Owed
  <2>2. /\ Block(type) \in Ordinary /\ Owes(Block(type)) = Owed("compileBlockBody", type)
        /\ Statements(type) \in Ordinary /\ Owes(Statements(type)) = Owed("statements", type)
    BY OwesItem DEF Ordinary, Block, Statements
  <2>3. QED
    BY <1>1, <2>1, <2>2 DEF One
<1>9. QED
  BY <1>2, <1>3, <1>4, <1>5, <1>6, <1>7, <1>8

(* What a function's parameters and its body owe. *)
BodyOwed(type) == IF type = "native" THEN <<>> ELSE <<"end">>
ParameterOwed(type) == IF type = "native" THEN <<")">> ELSE <<")", "end">>

(* The items that owe a closer. *)
LEMMA OwingItems ==
  /\ One(Item("exprList"), <<"]">>) /\ One(Item("listMore"), <<"]">>)
  /\ One(Item("exprMap"), <<"}">>) /\ One(Item("mapMore"), <<"}">>)
  /\ One(Item("chainFirst"), <<"}">>) /\ One(Item("exprCall"), <<")">>)
  /\ One(Item("fields"), <<"end">>) /\ One(Item("forBody"), <<"end">>)
  /\ \A t \in Closers : One(Expect(t), <<t>>)
  /\ \A close \in {")", "}"} : One(Arguments(close), <<close>>)
  /\ One(If(TRUE), <<>>) /\ One(<<"ifRest", TRUE>>, <<>>)
  /\ One(If(FALSE), <<"end">>) /\ One(<<"ifRest", FALSE>>, <<"end">>)
  /\ \A type \in FunctionTypes :
       /\ One(Function(type), BodyOwed(type)) /\ One(<<"parameters", type>>, BodyOwed(type))
       /\ One(<<"firstParameter", type>>, ParameterOwed(type))
       /\ One(<<"moreParameters", type>>, ParameterOwed(type))
<1>1. /\ <<>> \in Seq(Closers) /\ <<"]">> \in Seq(Closers) /\ <<"}">> \in Seq(Closers)
      /\ <<")">> \in Seq(Closers) /\ <<"end">> \in Seq(Closers) /\ <<")", "end">> \in Seq(Closers)
      /\ \A t \in Closers : <<t>> \in Seq(Closers)
  BY DEF Closers
<1>2. /\ One(Item("exprList"), <<"]">>) /\ One(Item("listMore"), <<"]">>)
      /\ One(Item("exprMap"), <<"}">>) /\ One(Item("mapMore"), <<"}">>)
      /\ One(Item("chainFirst"), <<"}">>) /\ One(Item("exprCall"), <<")">>)
      /\ One(Item("fields"), <<"end">>) /\ One(Item("forBody"), <<"end">>)
  <2>1. \A n \in Plain : Item(n) \in Ordinary /\ Owes(Item(n)) = Owed(n, n)
    BY OwesItem DEF Ordinary, Item
  <2>2. Owers \subseteq Plain
    BY DEF Owers, Plain
  <2>3. /\ Owed("exprList", "exprList") = <<"]">> /\ Owed("listMore", "listMore") = <<"]">>
        /\ Owed("exprMap", "exprMap") = <<"}">> /\ Owed("mapMore", "mapMore") = <<"}">>
        /\ Owed("chainFirst", "chainFirst") = <<"}">> /\ Owed("exprCall", "exprCall") = <<")">>
        /\ Owed("fields", "fields") = <<"end">> /\ Owed("forBody", "forBody") = <<"end">>
    BY DEF Owed
  <2>4. \A n \in Owers : Item(n) \in Ordinary /\ Owes(Item(n)) = Owed(n, n)
    BY <2>1, <2>2
  <2>5. QED
    BY <1>1, <2>3, <2>4 DEF One, Owers
<1>3. ASSUME NEW t \in Closers
      PROVE  One(Expect(t), <<t>>)
  <2>1. Owed("consume", t) = <<t>> /\ t \in Expected
    BY DEF Owed, Closers, Expected
  <2>2. Expect(t) \in Ordinary /\ Owes(Expect(t)) = Owed("consume", t)
    BY <2>1, OwesItem DEF Ordinary, Expect
  <2>3. QED
    BY <1>1, <2>1, <2>2 DEF One
<1>4. ASSUME NEW close \in {")", "}"}
      PROVE  One(Arguments(close), <<close>>)
  <2>1. Owed("arguments", close) = <<close>> /\ close \in Closers
    BY DEF Owed, Closers
  <2>2. Arguments(close) \in Ordinary /\ Owes(Arguments(close)) = Owed("arguments", close)
    BY OwesItem DEF Ordinary, Arguments
  <2>3. QED
    BY <1>1, <2>1, <2>2 DEF One
<1>5. /\ One(If(TRUE), <<>>) /\ One(<<"ifRest", TRUE>>, <<>>)
      /\ One(If(FALSE), <<"end">>) /\ One(<<"ifRest", FALSE>>, <<"end">>)
  <2>1. /\ Owed("compileIfStatement", TRUE) = <<>> /\ Owed("ifRest", TRUE) = <<>>
        /\ Owed("compileIfStatement", FALSE) = <<"end">> /\ Owed("ifRest", FALSE) = <<"end">>
    BY DEF Owed
  <2>2. \A b \in BOOLEAN :
          /\ If(b) \in Ordinary /\ Owes(If(b)) = Owed("compileIfStatement", b)
          /\ <<"ifRest", b>> \in Ordinary /\ Owes(<<"ifRest", b>>) = Owed("ifRest", b)
    BY OwesItem DEF Ordinary, If
  <2>3. QED
    BY <1>1, <2>1, <2>2 DEF One
<1>6. ASSUME NEW type \in FunctionTypes
      PROVE  /\ One(Function(type), BodyOwed(type)) /\ One(<<"parameters", type>>, BodyOwed(type))
             /\ One(<<"firstParameter", type>>, ParameterOwed(type))
             /\ One(<<"moreParameters", type>>, ParameterOwed(type))
  <2>1. /\ Owed("compileFunction", type) = BodyOwed(type)
        /\ Owed("parameters", type) = BodyOwed(type)
        /\ Owed("firstParameter", type) = ParameterOwed(type)
        /\ Owed("moreParameters", type) = ParameterOwed(type)
    BY DEF Owed, BodyOwed, ParameterOwed
  <2>2. BodyOwed(type) \in Seq(Closers) /\ ParameterOwed(type) \in Seq(Closers)
    BY <1>1 DEF BodyOwed, ParameterOwed
  <2>3. /\ Function(type) \in Ordinary /\ Owes(Function(type)) = Owed("compileFunction", type)
        /\ <<"parameters", type>> \in Ordinary
        /\ Owes(<<"parameters", type>>) = Owed("parameters", type)
        /\ <<"firstParameter", type>> \in Ordinary
        /\ Owes(<<"firstParameter", type>>) = Owed("firstParameter", type)
        /\ <<"moreParameters", type>> \in Ordinary
        /\ Owes(<<"moreParameters", type>>) = Owed("moreParameters", type)
    BY OwesItem DEF Ordinary, Function
  <2>4. QED
    BY <2>1, <2>2, <2>3 DEF One
<1>7. QED
  BY <1>2, <1>3, <1>4, <1>5, <1>6

-----------------------------------------------------------------------------
(* What an item owes are closers. *)
LEMMA OwesTyped ==
  ASSUME NEW it \in Ordinary
  PROVE  Owes(it) \in Seq(Closers)
<1>1. /\ \A n \in Plain : n \in Plain \ Owers \/ n \in Owers
      /\ \A t \in Expected : t \in Expected \ Closers \/ t \in Closers
      /\ \A b \in BOOLEAN : b = TRUE \/ b = FALSE
  OBVIOUS
<1>2. \A n \in Owers : \E e : One(Item(n), e)
  BY OwingItems DEF Owers
<1>3. \E e : One(it, e)
  BY <1>1, <1>2, QuietItems, OwingItems DEF Ordinary
<1>4. QED
  BY <1>3 DEF One

(* What items in a row owe, when it is the last that does. *)
Good(s, e) == s \in Seq(Ordinary) /\ e \in Seq(Closers) /\ Sums(s, e)

LEMMA GoodNone == Good(<<>>, <<>>)
BY SumsNone DEF Good

(* Short rows of items, of which only the last owes something. *)
LEMMA Good1 ==
  ASSUME NEW z, NEW d,
         One(z, d)
  PROVE  Good(<<z>>, d)
<1> DEFINE s == <<z>>
<1>1. s \in Seq(Ordinary) /\ Len(s) = 1 /\ s # <<>>
  BY DEF One
<1>2. d \in Seq(Closers) /\ Owes(s[Len(s)]) = d
  BY <1>1 DEF One
<1>3. \A i \in 1 .. Len(s) - 1 : Owes(s[i]) = <<>>
  BY <1>1 DEF One
<1> HIDE DEF s
<1>4. Sums(s, d)
  BY <1>1, <1>2, <1>3, SumsLast, Zenon
<1>5. Good(s, d)
  BY <1>1, <1>2, <1>4 DEF Good
<1>6. QED
  BY <1>5 DEF s

LEMMA Good2 ==
  ASSUME NEW a, NEW z, NEW d,
         One(a, <<>>), One(z, d)
  PROVE  Good(<<a, z>>, d)
<1> DEFINE s == <<a, z>>
<1>1. s \in Seq(Ordinary) /\ Len(s) = 2 /\ s # <<>>
  BY DEF One
<1>2. d \in Seq(Closers) /\ Owes(s[Len(s)]) = d
  BY <1>1 DEF One
<1>3. \A i \in 1 .. Len(s) - 1 : Owes(s[i]) = <<>>
  BY <1>1 DEF One
<1> HIDE DEF s
<1>4. Sums(s, d)
  BY <1>1, <1>2, <1>3, SumsLast, Zenon
<1>5. Good(s, d)
  BY <1>1, <1>2, <1>4 DEF Good
<1>6. QED
  BY <1>5 DEF s

LEMMA Good3 ==
  ASSUME NEW a, NEW b, NEW z, NEW d,
         One(a, <<>>), One(b, <<>>), One(z, d)
  PROVE  Good(<<a, b, z>>, d)
<1> DEFINE s == <<a, b, z>>
<1>1. s \in Seq(Ordinary) /\ Len(s) = 3 /\ s # <<>>
  BY DEF One
<1>2. d \in Seq(Closers) /\ Owes(s[Len(s)]) = d
  BY <1>1 DEF One
<1>3. \A i \in 1 .. Len(s) - 1 : Owes(s[i]) = <<>>
  BY <1>1 DEF One
<1> HIDE DEF s
<1>4. Sums(s, d)
  BY <1>1, <1>2, <1>3, SumsLast, Zenon
<1>5. Good(s, d)
  BY <1>1, <1>2, <1>4 DEF Good
<1>6. QED
  BY <1>5 DEF s

LEMMA Good4 ==
  ASSUME NEW a, NEW b, NEW c, NEW z, NEW d,
         One(a, <<>>), One(b, <<>>), One(c, <<>>), One(z, d)
  PROVE  Good(<<a, b, c, z>>, d)
<1> DEFINE s == <<a, b, c, z>>
<1>1. s \in Seq(Ordinary) /\ Len(s) = 4 /\ s # <<>>
  BY DEF One
<1>2. d \in Seq(Closers) /\ Owes(s[Len(s)]) = d
  BY <1>1 DEF One
<1>3. \A i \in 1 .. Len(s) - 1 : Owes(s[i]) = <<>>
  BY <1>1 DEF One
<1> HIDE DEF s
<1>4. Sums(s, d)
  BY <1>1, <1>2, <1>3, SumsLast, Zenon
<1>5. Good(s, d)
  BY <1>1, <1>2, <1>4 DEF Good
<1>6. QED
  BY <1>5 DEF s

(* Rows one after the other. *)
LEMMA GoodConcat ==
  ASSUME NEW s, NEW t, NEW d, NEW e, Good(s, d), Good(t, e)
  PROVE  Good(s \o t, d \o e)
<1>1. /\ s \in Seq(Ordinary) /\ t \in Seq(Ordinary) /\ d \in Seq(Closers) /\ e \in Seq(Closers)
      /\ Sums(s, d) /\ Sums(t, e)
  BY DEF Good
<1>2. s \o t \in Seq(Ordinary) /\ d \o e \in Seq(Closers)
  BY <1>1, ConcatProperties
<1>3. \A i \in 1 .. Len(s) : Owes(s[i]) \in Seq(Closers)
  BY <1>1, OwesTyped, ElementOfSeq
<1>4. QED
  BY <1>1, <1>2, <1>3, SumsConcat DEF Good

(* More items, by the last of them. *)
LEMMA Tuple5 ==
  ASSUME NEW a, NEW b, NEW c, NEW y, NEW z
  PROVE  <<a, b>> \o <<c, y, z>> = <<a, b, c, y, z>>
<1> DEFINE S == {a, b, c, y, z}
           u == <<a, b>>
           t == <<c, y, z>>
           v == <<a, b, c, y, z>>
<1>1. u \in Seq(S) /\ Len(u) = 2 /\ t \in Seq(S) /\ Len(t) = 3
  OBVIOUS
<1>2. v \in Seq(S) /\ Len(v) = 5
  OBVIOUS
<1>3. /\ u \o t \in Seq(S) /\ Len(u \o t) = 5
      /\ \A i \in 1 .. 5 : (u \o t)[i] = IF i <= 2 THEN u[i] ELSE t[i - 2]
  BY <1>1, ConcatProperties
<1>4. \A i \in 1 .. 5 : v[i] = IF i <= 2 THEN u[i] ELSE t[i - 2]
  OBVIOUS
<1>5. \A p, q \in Seq(S) : Len(p) = 5 /\ Len(q) = 5 /\ (\A i \in 1 .. 5 : p[i] = q[i]) => p = q
  OBVIOUS
<1> HIDE DEF S, u, t, v
<1>6. u \o t = v
  BY <1>2, <1>3, <1>4, <1>5
<1>7. QED
  BY <1>6 DEF u, t, v

LEMMA Tuple7 ==
  ASSUME NEW a, NEW b, NEW c, NEW w, NEW x, NEW y, NEW z
  PROVE  <<a, b>> \o <<c, w, x, y, z>> = <<a, b, c, w, x, y, z>>
<1> DEFINE S == {a, b, c, w, x, y, z}
           u == <<a, b>>
           t == <<c, w, x, y, z>>
           v == <<a, b, c, w, x, y, z>>
<1>1. u \in Seq(S) /\ Len(u) = 2 /\ t \in Seq(S) /\ Len(t) = 5
  OBVIOUS
<1>2. v \in Seq(S) /\ Len(v) = 7
  OBVIOUS
<1>3. /\ u \o t \in Seq(S) /\ Len(u \o t) = 7
      /\ \A i \in 1 .. 7 : (u \o t)[i] = IF i <= 2 THEN u[i] ELSE t[i - 2]
  BY <1>1, ConcatProperties
<1>4. \A i \in 1 .. 7 : v[i] = IF i <= 2 THEN u[i] ELSE t[i - 2]
  OBVIOUS
<1>5. \A p, q \in Seq(S) : Len(p) = 7 /\ Len(q) = 7 /\ (\A i \in 1 .. 7 : p[i] = q[i]) => p = q
  OBVIOUS
<1> HIDE DEF S, u, t, v
<1>6. u \o t = v
  BY <1>2, <1>3, <1>4, <1>5
<1>7. QED
  BY <1>6 DEF u, t, v

LEMMA Good5 ==
  ASSUME NEW a, NEW b, NEW c, NEW y, NEW z, NEW d,
         One(a, <<>>), One(b, <<>>), Good(<<c, y, z>>, d)
  PROVE  Good(<<a, b, c, y, z>>, d)
<1>1. Good(<<a, b>>, <<>>)
  BY Good2
<1>2. Good(<<a, b>> \o <<c, y, z>>, <<>> \o d)
  BY <1>1, GoodConcat
<1>3. <<a, b>> \o <<c, y, z>> = <<a, b, c, y, z>> /\ d \in Seq(Closers)
  BY Tuple5 DEF Good
<1>4. <<>> \o d = d
  BY <1>3, ConcatNone
<1>5. QED
  BY <1>2, <1>3, <1>4

LEMMA Good7 ==
  ASSUME NEW a, NEW b, NEW c, NEW w, NEW x, NEW y, NEW z, NEW d,
         One(a, <<>>), One(b, <<>>), Good(<<c, w, x, y, z>>, d)
  PROVE  Good(<<a, b, c, w, x, y, z>>, d)
<1>1. Good(<<a, b>>, <<>>)
  BY Good2
<1>2. Good(<<a, b>> \o <<c, w, x, y, z>>, <<>> \o d)
  BY <1>1, GoodConcat
<1>3. <<a, b>> \o <<c, w, x, y, z>> = <<a, b, c, w, x, y, z>> /\ d \in Seq(Closers)
  BY Tuple7 DEF Good
<1>4. <<>> \o d = d
  BY <1>3, ConcatNone
<1>5. QED
  BY <1>2, <1>3, <1>4

(* The outcomes there are. *)
Quiet == current \notin Openers \cup Closers

(* No token is consumed: what is owed is what was. *)
LEMMA BecomePays ==
  ASSUME NEW s, NEW d, Good(s, d)
  PROVE  Pays(Become(s), d)
<1>1. /\ s \in Seq(Ordinary) /\ d \in Seq(Closers) /\ Sums(s, d)
      /\ \A p \in Become(s) : p.eat = FALSE /\ p.to = s
  BY DEF Become, Good
<1>2. QED
  BY <1>1 DEF Pays

(* A token is consumed. *)
LEMMA MatchPays ==
  ASSUME NEW s, NEW d, NEW e, Good(s, e), Eaten(current, d, e)
  PROVE  Pays(Match(s), d)
<1>1. /\ s \in Seq(Ordinary) /\ e \in Seq(Closers) /\ Sums(s, e)
      /\ \A p \in Match(s) : p.eat = TRUE /\ p.to = s
  BY DEF Match, Good
<1>2. QED
  BY <1>1 DEF Pays

(* One that is no bracket. *)
LEMMA QuietPays ==
  ASSUME NEW s, NEW d, Good(s, d), Quiet
  PROVE  Pays(Match(s), d)
BY MatchPays DEF Quiet, Eaten

(* One that opens a bracket, of which the closer is owed from then on. *)
LEMMA OpenerPays ==
  ASSUME NEW s, NEW d, Good(s, <<Closer(current)>> \o d), current \in Openers
  PROVE  Pays(Match(s), d)
<1>1. Eaten(current, d, <<Closer(current)>> \o d)
  BY DEF Eaten, Openers, Closers
<1>2. QED
  BY <1>1, MatchPays

(* One that closes a bracket. *)
LEMMA CloserPays ==
  ASSUME NEW s, NEW e, Good(s, e), current \in Closers, current \notin Openers
  PROVE  Pays(Match(s), <<current>> \o e)
<1>1. Eaten(current, <<current>> \o e, e)
  BY DEF Eaten
<1>2. QED
  BY <1>1, MatchPays

(* An error pays everything. *)
LEMMA ErrPays ==
  ASSUME NEW d
  PROVE  Pays(Become(<<Err>>), d) /\ Pays(Match(<<Err>>), d)
<1>1. <<Err>> \in Seq(Ordinary) /\ HasErr(<<Err>>)
  BY QuietItems DEF One, HasErr
<1>2. QED
  BY <1>1 DEF Pays, Become, Match

LEMMA SkipErrPays ==
  ASSUME NEW d
  PROVE  Pays(Become(<<Skip, Err>>), d)
<1>1. <<Skip, Err>> \in Seq(Ordinary) /\ HasErr(<<Skip, Err>>)
  <2>1. <<Skip, Err>> \in Seq(Ordinary)
    BY QuietItems DEF One
  <2>2. 2 \in 1 .. Len(<<Skip, Err>>) /\ <<Skip, Err>>[2] = Err
    OBVIOUS
  <2>3. QED
    BY <2>1, <2>2 DEF HasErr
<1>2. \A p \in Become(<<Skip, Err>>) : p.eat = FALSE /\ p.to = <<Skip, Err>>
  BY DEF Become
<1>3. QED
  BY <1>1, <1>2 DEF Pays

LEMMA UnionPays ==
  ASSUME NEW A, NEW B, NEW d, Pays(A, d), Pays(B, d)
  PROVE  Pays(A \cup B, d)
BY DEF Pays

(* The items there are, each with what it owes. *)
LEMMA QuietOnes ==
  /\ One(Item("assignment"), <<>>)
  /\ One(Item("chainArguments"), <<>>)
  /\ One(Item("compileStatement"), <<>>)
  /\ One(Item("returnValue"), <<>>)
  /\ One(Item("compilerImport"), <<>>)
  /\ One(Item("fromSymbols"), <<>>)
  /\ One(Item("alias"), <<>>)
  /\ One(Item("moreSymbols"), <<>>)
  /\ One(Item("moreImports"), <<>>)
  /\ One(Item("compileTopLevelStatement"), <<>>)
  /\ One(Item("moduleName"), <<>>)
  /\ One(Item("script"), <<>>)
  /\ One(Expect("name"), <<>>) /\ One(Expect(":"), <<>>) /\ One(Expect("in"), <<>>)
  /\ One(Expect("="), <<>>) /\ One(Expect("import"), <<>>)
  /\ One(StartBlock("then"), <<>>) /\ One(StartBlock("do"), <<>>)
  /\ One(Block("if"), <<>>) /\ One(Block("else"), <<>>) /\ One(Block("loop"), <<>>)
  /\ One(Block("func"), <<>>)
<1>1. {"assignment", "chainArguments", "compileStatement", "returnValue",
       "compilerImport", "fromSymbols", "alias", "moreSymbols",
       "moreImports", "compileTopLevelStatement", "moduleName", "script"}
        \subseteq Plain \ Owers
  BY DEF Plain, Owers
<1>2. {"name", ":", "in", "=", "import"} \subseteq Expected \ Closers
  BY DEF Expected, Closers
<1>3. {"then", "do"} \subseteq Delimiters /\ {"if", "else", "loop", "func"} \subseteq BlockTypes
  BY DEF Delimiters, BlockTypes
<1>4. QED
  BY <1>1, <1>2, <1>3, QuietItems

LEMMA OwingOnes ==
  /\ One(Expect(")"), <<")">>) /\ One(Expect("]"), <<"]">>) /\ One(Expect("}"), <<"}">>)
  /\ One(Expect("end"), <<"end">>)
  /\ One(Arguments(")"), <<")">>) /\ One(Arguments("}"), <<"}">>)
<1>1. {")", "]", "}", "end"} \subseteq Closers
  BY DEF Closers
<1>2. QED
  BY <1>1, OwingItems
-----------------------------------------------------------------------------
(* What each production pays. *)

LEMMA NoneAfter ==
  \A t : <<t>> \o <<>> = <<t>>
OBVIOUS

LEMMA VariablePays ==
  Pays(Variable, <<>>)
<1>1. CASE l_value /\ current \in Assignments
  <2>1. Good(<<Skip, Expression>>, <<>>)
    BY Good2, QuietItems, QuietOnes, OwingItems, OwingOnes
  <2>2. Quiet
    BY <1>1, SymbolsAssumption DEF Quiet, Openers, Closers, Assignments
  <2>3. QED
    BY <1>1, <2>1, <2>2, QuietPays DEF Variable, Assigned
<1>2. CASE ~(l_value /\ current \in Assignments)
  <2>1. Good(<<>>, <<>>)
    BY GoodNone
  <2>2. QED
    BY <1>2, <2>1, BecomePays DEF Variable, Assigned
<1>3. QED
  BY <1>1, <1>2

LEMMA ExprListPays ==
  Pays(ExprList, <<"]">>)
<1>1. CASE current = "]"
  <2>1. Good(<<Skip, Expect("]")>>, <<"]">>)
    BY Good2, QuietItems, QuietOnes, OwingItems, OwingOnes
  <2>2. QED
    BY <1>1, <2>1, BecomePays DEF ExprList
<1>2. CASE current # "]"
  <2>1. Good(<<Expression, Skip, Item("listMore")>>, <<"]">>)
    BY Good3, QuietItems, QuietOnes, OwingItems, OwingOnes
  <2>2. QED
    BY <1>2, <2>1, BecomePays DEF ExprList
<1>3. QED
  BY <1>1, <1>2

LEMMA ListMorePays ==
  Pays(ListMore, <<"]">>)
<1>1. CASE current = ","
  <2>1. Good(<<Skip, Item("exprList")>>, <<"]">>)
    BY Good2, QuietItems, QuietOnes, OwingItems, OwingOnes
  <2>2. Quiet
    BY <1>1, SymbolsAssumption DEF Quiet, Openers, Closers, Assignments
  <2>3. QED
    BY <1>1, <2>1, <2>2, QuietPays DEF ListMore
<1>2. CASE current # ","
  <2>1. Good(<<Skip, Expect("]")>>, <<"]">>)
    BY Good2, QuietItems, QuietOnes, OwingItems, OwingOnes
  <2>2. QED
    BY <1>2, <2>1, BecomePays DEF ListMore
<1>3. QED
  BY <1>1, <1>2

LEMMA ExprMapPays ==
  Pays(ExprMap, <<"}">>)
<1>1. CASE current = "}"
  <2>1. Good(<<Skip, Expect("}")>>, <<"}">>)
    BY Good2, QuietItems, QuietOnes, OwingItems, OwingOnes
  <2>2. QED
    BY <1>1, <2>1, BecomePays DEF ExprMap
<1>2. CASE current # "}"
  <2>1. Good(<<Expression, Expect(":"), Expression, Skip, Item("mapMore")>>, <<"}">>)
    <3>1. Good(<<Expression, Skip, Item("mapMore")>>, <<"}">>)
      BY Good3, QuietItems, QuietOnes, OwingItems, OwingOnes
    <3>2. One(Expression, <<>>) /\ One(Expect(":"), <<>>)
      BY QuietItems, QuietOnes, OwingItems, OwingOnes
    <3>3. QED
      BY <3>1, <3>2, Good5
  <2>2. QED
    BY <1>2, <2>1, BecomePays DEF ExprMap
<1>3. QED
  BY <1>1, <1>2

LEMMA MapMorePays ==
  Pays(MapMore, <<"}">>)
<1>1. CASE current = ","
  <2>1. Good(<<Skip, Item("exprMap")>>, <<"}">>)
    BY Good2, QuietItems, QuietOnes, OwingItems, OwingOnes
  <2>2. Quiet
    BY <1>1, SymbolsAssumption DEF Quiet, Openers, Closers, Assignments
  <2>3. QED
    BY <1>1, <2>1, <2>2, QuietPays DEF MapMore
<1>2. CASE current # ","
  <2>1. Good(<<Skip, Expect("}")>>, <<"}">>)
    BY Good2, QuietItems, QuietOnes, OwingItems, OwingOnes
  <2>2. QED
    BY <1>2, <2>1, BecomePays DEF MapMore
<1>3. QED
  BY <1>1, <1>2

LEMMA ExprCallPays ==
  Pays(ExprCall, <<")">>)
<1>1. CASE current = ")"
  <2>1. Good(<<>>, <<>>)
    BY GoodNone
  <2>2. current \in Closers /\ current \notin Openers /\ <<current>> \o <<>> = <<")">>
    BY <1>1, NoneAfter DEF Openers, Closers
  <2>3. QED
    BY <1>1, <2>1, <2>2, CloserPays DEF ExprCall
<1>2. CASE current # ")"
  <2>1. Good(<<Skip, Expression, Skip, Arguments(")")>>, <<")">>)
    <3>1. /\ One(Skip, <<>>) /\ One(Expression, <<>>) /\ One(Arguments(")"), <<")">>)
      BY QuietItems, QuietOnes, OwingItems, OwingOnes
    <3>2. QED
      BY <3>1, Good4
  <2>2. QED
    BY <1>2, <2>1, BecomePays DEF ExprCall
<1>3. QED
  BY <1>1, <1>2

LEMMA MoreArgumentsPays ==
  ASSUME NEW close \in {")", "}"}
  PROVE  Pays(MoreArguments(close), <<close>>)
<1>1. CASE current = ","
  <2>1. Good(<<Skip, Expression, Skip, Arguments(close)>>, <<close>>)
    <3>1. /\ One(Skip, <<>>) /\ One(Expression, <<>>) /\ One(Arguments(close), <<close>>)
      BY QuietItems, QuietOnes, OwingItems, OwingOnes
    <3>2. QED
      BY <3>1, Good4
  <2>2. Quiet
    BY <1>1, SymbolsAssumption DEF Quiet, Openers, Closers, Assignments
  <2>3. QED
    BY <1>1, <2>1, <2>2, QuietPays DEF MoreArguments
<1>2. CASE current # ","
  <2>1. Good(<<Expect(close)>>, <<close>>)
    BY Good1, QuietItems, QuietOnes, OwingItems, OwingOnes
  <2>2. QED
    BY <1>2, <2>1, BecomePays DEF MoreArguments
<1>3. QED
  BY <1>1, <1>2

LEMMA ChainArgumentsPays ==
  Pays(ChainArguments, <<>>)
<1>1. CASE current = "{"
  <2>1. Good(<<Item("chainFirst")>>, <<"}">>)
    BY Good1, QuietItems, QuietOnes, OwingItems, OwingOnes
  <2>2. current \in Openers /\ <<Closer(current)>> \o <<>> = <<"}">>
    BY <1>1, NoneAfter DEF Openers, Closer
  <2>3. QED
    BY <1>1, <2>1, <2>2, OpenerPays DEF ChainArguments
<1>2. CASE current # "{"
  <2>1. Good(<<>>, <<>>)
    BY GoodNone
  <2>2. QED
    BY <1>2, <2>1, BecomePays DEF ChainArguments
<1>3. QED
  BY <1>1, <1>2

LEMMA ChainFirstPays ==
  Pays(ChainFirst, <<"}">>)
<1>1. CASE current = "}"
  <2>1. Good(<<>>, <<>>)
    BY GoodNone
  <2>2. current \in Closers /\ current \notin Openers /\ <<current>> \o <<>> = <<"}">>
    BY <1>1, NoneAfter DEF Openers, Closers
  <2>3. QED
    BY <1>1, <2>1, <2>2, CloserPays DEF ChainFirst
<1>2. CASE current # "}"
  <2>1. Good(<<Skip, Expression, Skip, Arguments("}")>>, <<"}">>)
    <3>1. /\ One(Skip, <<>>) /\ One(Expression, <<>>) /\ One(Arguments("}"), <<"}">>)
      BY QuietItems, QuietOnes, OwingItems, OwingOnes
    <3>2. QED
      BY <3>1, Good4
  <2>2. QED
    BY <1>2, <2>1, BecomePays DEF ChainFirst
<1>3. QED
  BY <1>1, <1>2

LEMMA ConsumeEndStatementPays ==
  Pays(ConsumeEndStatement, <<>>)
<1>1. CASE current = ";"
  <2>1. Good(<<Skip>>, <<>>)
    BY Good1, QuietItems, QuietOnes, OwingItems, OwingOnes
  <2>2. ConsumeEndStatement = Match(<<Skip>>)
    BY <1>1, SymbolsAssumption DEF ConsumeEndStatement, Ends, Closers
  <2>3. Quiet
    BY <1>1, SymbolsAssumption DEF Quiet, Openers, Closers, Assignments
  <2>4. QED
    BY <2>1, <2>2, <2>3, QuietPays
<1>2. CASE current # ";" /\ current \in {"line", Eof}
  <2>1. Good(<<Skip>>, <<>>)
    BY Good1, QuietItems, QuietOnes, OwingItems, OwingOnes
  <2>2. ConsumeEndStatement = Become(<<Skip>>)
    BY <1>2, SymbolsAssumption DEF ConsumeEndStatement, Ends, Closers
  <2>3. QED
    BY <2>1, <2>2, BecomePays
<1>3. CASE current # ";" /\ current \notin {"line", Eof} /\ current \in Ends
  <2>1. Good(<<>>, <<>>)
    BY GoodNone
  <2>2. ConsumeEndStatement = Become(<<>>)
    BY <1>3, SymbolsAssumption DEF ConsumeEndStatement, Ends, Closers
  <2>3. QED
    BY <2>1, <2>2, BecomePays
<1>4. CASE current # ";" /\ current \notin {"line", Eof} \cup Ends
  BY <1>4, ErrPays DEF ConsumeEndStatement
<1>5. QED
  BY <1>1, <1>2, <1>3, <1>4

LEMMA ConsumeStartBlockPays ==
  ASSUME NEW delimiter \in Delimiters
  PROVE  Pays(ConsumeStartBlock(delimiter), <<>>)
<1>1. CASE current = delimiter
  <2>1. Good(<<Skip>>, <<>>)
    BY Good1, QuietItems, QuietOnes, OwingItems, OwingOnes
  <2>2. ConsumeStartBlock(delimiter) = Match(<<Skip>>)
    BY <1>1 DEF ConsumeStartBlock, Delimiters
  <2>3. Quiet
    BY <1>1, SymbolsAssumption DEF Quiet, Openers, Closers, Assignments, Delimiters
  <2>4. QED
    BY <2>1, <2>2, <2>3, QuietPays
<1>2. CASE current # delimiter /\ current = "line"
  <2>1. Good(<<Skip>>, <<>>)
    BY Good1, QuietItems, QuietOnes, OwingItems, OwingOnes
  <2>2. ConsumeStartBlock(delimiter) = Become(<<Skip>>)
    BY <1>2 DEF ConsumeStartBlock, Delimiters
  <2>3. QED
    BY <2>1, <2>2, BecomePays
<1>3. CASE current # delimiter /\ current # "line"
  BY <1>3, SkipErrPays DEF ConsumeStartBlock
<1>4. QED
  BY <1>1, <1>2, <1>3

LEMMA BlockStatementsPays ==
  ASSUME NEW type \in BlockTypes
  PROVE  Pays(BlockStatements(type), <<>>)
<1>1. CASE current \in {"end", Eof} \/ (type = "if" /\ current \in {"else", "elsif"})
  <2>1. Good(<<>>, <<>>)
    BY GoodNone
  <2>2. QED
    BY <1>1, <2>1, BecomePays DEF BlockStatements
<1>2. CASE ~(current \in {"end", Eof} \/ (type = "if" /\ current \in {"else", "elsif"}))
  <2>1. Good(<<Item("compileStatement"), Skip, Statements(type)>>, <<>>)
    BY Good3, QuietItems, QuietOnes, OwingItems, OwingOnes
  <2>2. QED
    BY <1>2, <2>1, BecomePays DEF BlockStatements
<1>3. QED
  BY <1>1, <1>2

LEMMA ForBodyPays ==
  Pays(ForBody, <<"end">>)
<1>1. Good(<<Check, Block("loop"), EndLoop, Skip, Expect("end")>>, <<"end">>)
  <2>1. Good(<<EndLoop, Skip, Expect("end")>>, <<"end">>)
    BY Good3, QuietItems, QuietOnes, OwingItems, OwingOnes
  <2>2. One(Check, <<>>) /\ One(Block("loop"), <<>>)
    BY QuietItems, QuietOnes, OwingItems, OwingOnes
  <2>3. QED
    BY <2>1, <2>2, Good5
<1>2. QED
  BY <1>1, BecomePays DEF ForBody

LEMMA ReturnValuePays ==
  Pays(ReturnValue, <<>>)
<1>1. CASE current \in Ends \cup {";", "line", Eof}
  <2>1. Good(<<EndStatement>>, <<>>)
    BY Good1, QuietItems, QuietOnes, OwingItems, OwingOnes
  <2>2. QED
    BY <1>1, <2>1, BecomePays DEF ReturnValue
<1>2. CASE current \notin Ends \cup {";", "line", Eof}
  <2>1. Good(<<Expression, EndStatement>>, <<>>)
    BY Good2, QuietItems, QuietOnes, OwingItems, OwingOnes
  <2>2. QED
    BY <1>2, <2>1, BecomePays DEF ReturnValue
<1>3. QED
  BY <1>1, <1>2

LEMMA FieldsPays ==
  Pays(Fields, <<"end">>)
<1>1. CASE current \in {"end", Eof}
  <2>1. Good(<<Expect("end")>>, <<"end">>)
    BY Good1, QuietItems, QuietOnes, OwingItems, OwingOnes
  <2>2. QED
    BY <1>1, <2>1, BecomePays DEF Fields
<1>2. CASE current \notin {"end", Eof}
  <2>1. Good(<<Expect("name"), Check, Expect("="), Expression, EndStatement, Skip, Item("fields")>>, <<"end">>)
    <3>1. Good(<<Expect("="), Expression, EndStatement, Skip, Item("fields")>>, <<"end">>)
      <4>1. Good(<<EndStatement, Skip, Item("fields")>>, <<"end">>)
        BY Good3, QuietItems, QuietOnes, OwingItems, OwingOnes
      <4>2. One(Expect("="), <<>>) /\ One(Expression, <<>>)
        BY QuietItems, QuietOnes, OwingItems, OwingOnes
      <4>3. QED
        BY <4>1, <4>2, Good5
    <3>2. One(Expect("name"), <<>>) /\ One(Check, <<>>)
      BY QuietItems, QuietOnes, OwingItems, OwingOnes
    <3>3. QED
      BY <3>1, <3>2, Good7
  <2>2. QED
    BY <1>2, <2>1, BecomePays DEF Fields
<1>3. QED
  BY <1>1, <1>2

LEMMA CompilerImportPays ==
  Pays(CompilerImport, <<>>)
<1>1. CASE current \in {"name", "string"}
  <2>1. Good(<<Check>>, <<>>)
    BY Good1, QuietItems, QuietOnes, OwingItems, OwingOnes
  <2>2. Quiet
    BY <1>1, SymbolsAssumption DEF Quiet, Openers, Closers, Assignments
  <2>3. QED
    BY <1>1, <2>1, <2>2, QuietPays DEF CompilerImport
<1>2. CASE current \notin {"name", "string"}
  BY <1>2, ErrPays DEF CompilerImport
<1>3. QED
  BY <1>1, <1>2

LEMMA FromSymbolsPays ==
  Pays(FromSymbols, <<>>)
<1>1. CASE current = "*"
  <2>1. Good(<<Check, EndStatement>>, <<>>)
    BY Good2, QuietItems, QuietOnes, OwingItems, OwingOnes
  <2>2. Quiet
    BY <1>1, SymbolsAssumption DEF Quiet, Openers, Closers, Assignments
  <2>3. QED
    BY <1>1, <2>1, <2>2, QuietPays DEF FromSymbols, Symbol
<1>2. CASE current # "*"
  <2>1. Good(<<Expect("name"), Item("alias"), Check, Item("moreSymbols")>>, <<>>)
    <3>1. /\ One(Expect("name"), <<>>) /\ One(Item("alias"), <<>>) /\ One(Check, <<>>)
          /\ One(Item("moreSymbols"), <<>>)
      BY QuietItems, QuietOnes, OwingItems, OwingOnes
    <3>2. QED
      BY <3>1, Good4
  <2>2. QED
    BY <1>2, <2>1, BecomePays DEF FromSymbols, Symbol
<1>3. QED
  BY <1>1, <1>2

LEMMA AliasPays ==
  Pays(Alias, <<>>)
<1>1. CASE current = "as"
  <2>1. Good(<<Expect("name")>>, <<>>)
    BY Good1, QuietItems, QuietOnes, OwingItems, OwingOnes
  <2>2. Quiet
    BY <1>1, SymbolsAssumption DEF Quiet, Openers, Closers, Assignments
  <2>3. QED
    BY <1>1, <2>1, <2>2, QuietPays DEF Alias
<1>2. CASE current # "as"
  <2>1. Good(<<>>, <<>>)
    BY GoodNone
  <2>2. QED
    BY <1>2, <2>1, BecomePays DEF Alias
<1>3. QED
  BY <1>1, <1>2

LEMMA ScriptPays ==
  Pays(Script, <<>>)
<1>1. CASE current = Eof
  <2>1. Good(<<>>, <<>>)
    BY GoodNone
  <2>2. Quiet
    BY <1>1, SymbolsAssumption DEF Quiet, Openers, Closers, Assignments
  <2>3. QED
    BY <1>1, <2>1, <2>2, QuietPays DEF Script
<1>2. CASE current # Eof
  <2>1. Good(<<Item("compileTopLevelStatement"), Skip, Item("script")>>, <<>>)
    BY Good3, QuietItems, QuietOnes, OwingItems, OwingOnes
  <2>2. QED
    BY <1>2, <2>1, BecomePays DEF Script
<1>3. QED
  BY <1>1, <1>2

LEMMA SymbolGood ==
  Good(Symbol, <<>>)
<1>1. Good(<<Expect("name"), Item("alias"), Check, Item("moreSymbols")>>, <<>>)
  <2>1. /\ One(Expect("name"), <<>>) /\ One(Item("alias"), <<>>) /\ One(Check, <<>>)
        /\ One(Item("moreSymbols"), <<>>)
    BY QuietItems, QuietOnes, OwingItems, OwingOnes
  <2>2. QED
    BY <2>1, Good4
<1>2. QED
  BY <1>1 DEF Symbol

LEMMA ImportGood ==
  Good(Import, <<>>)
<1>1. Good(<<Item("compilerImport"), Item("alias"), Check, Item("moreImports")>>, <<>>)
  <2>1. /\ One(Item("compilerImport"), <<>>) /\ One(Item("alias"), <<>>) /\ One(Check, <<>>)
        /\ One(Item("moreImports"), <<>>)
    BY QuietItems, QuietOnes, OwingItems, OwingOnes
  <2>2. QED
    BY <2>1, Good4
<1>2. QED
  BY <1>1 DEF Import

LEMMA CompileWhileGood ==
  Good(CompileWhile, <<"end">>)
<1>1. Good(<<Expression, Block("loop"), EndLoop, Skip, Expect("end")>>, <<"end">>)
  <2>1. Good(<<EndLoop, Skip, Expect("end")>>, <<"end">>)
    BY Good3, QuietItems, QuietOnes, OwingItems, OwingOnes
  <2>2. One(Expression, <<>>) /\ One(Block("loop"), <<>>)
    BY QuietItems, QuietOnes, OwingItems, OwingOnes
  <2>3. QED
    BY <2>1, <2>2, Good5
<1>2. QED
  BY <1>1 DEF CompileWhile

LEMMA CompileForGood ==
  Good(CompileFor, <<"end">>)
<1>1. Good(<<Expect("name"), Expect("in"), Check, Expression, Item("forBody")>>, <<"end">>)
  <2>1. Good(<<Check, Expression, Item("forBody")>>, <<"end">>)
    BY Good3, QuietItems, QuietOnes, OwingItems, OwingOnes
  <2>2. One(Expect("name"), <<>>) /\ One(Expect("in"), <<>>)
    BY QuietItems, QuietOnes, OwingItems, OwingOnes
  <2>3. QED
    BY <2>1, <2>2, Good5
<1>2. QED
  BY <1>1 DEF CompileFor

LEMMA CompileTypeGood ==
  Good(CompileType, <<"end">>)
<1>1. Good(<<Expect("name"), Check, Skip, Item("fields")>>, <<"end">>)
  <2>1. /\ One(Expect("name"), <<>>) /\ One(Check, <<>>) /\ One(Skip, <<>>)
        /\ One(Item("fields"), <<"end">>)
    BY QuietItems, QuietOnes, OwingItems, OwingOnes
  <2>2. QED
    BY <2>1, Good4
<1>2. QED
  BY <1>1 DEF CompileType

LEMMA ParameterGood ==
  ASSUME NEW type \in FunctionTypes
  PROVE  Good(Parameter(type), ParameterOwed(type))
<1>1. Good(<<Skip, Expect("name"), Check, <<"moreParameters", type>>>>, ParameterOwed(type))
  <2>1. /\ One(Skip, <<>>) /\ One(Expect("name"), <<>>) /\ One(Check, <<>>)
        /\ One(<<"moreParameters", type>>, ParameterOwed(type))
    BY QuietItems, QuietOnes, OwingItems, OwingOnes
  <2>2. QED
    BY <2>1, Good4
<1>2. QED
  BY <1>1 DEF Parameter

LEMMA FunctionBodyGood ==
  ASSUME NEW type \in FunctionTypes
  PROVE  Good(FunctionBody(type), BodyOwed(type))
<1>1. Good(<<Block("func"), Expect("end")>>, <<"end">>)
  BY Good2, QuietOnes, OwingOnes
<1>2. QED
  BY <1>1, GoodNone DEF FunctionBody, BodyOwed

IfOwed(elsif) == IF elsif THEN <<>> ELSE <<"end">>

LEMMA IfEndGood ==
  ASSUME NEW elsif \in BOOLEAN
  PROVE  Good(IfEnd(elsif), IfOwed(elsif))
<1>1. Good(<<Skip, Expect("end")>>, <<"end">>)
  BY Good2, QuietItems, OwingOnes
<1>2. QED
  BY <1>1, GoodNone DEF IfEnd, IfOwed

(* Items that owe nothing, before others. *)
LEMMA GoodAfter ==
  ASSUME NEW s, NEW t, NEW d, Good(s, <<>>), Good(t, d)
  PROVE  Good(s \o t, d)
<1>1. d \in Seq(Closers) /\ Good(s \o t, <<>> \o d)
  BY GoodConcat DEF Good
<1>2. <<>> \o d = d
  BY <1>1, ConcatNone
<1>3. QED
  BY <1>1, <1>2

LEMMA ExprNamePays ==
  Pays(ExprName, <<>>)
<1>1. Pays(Become(<<>>), <<>>)
  BY GoodNone, BecomePays
<1>2. Pays(Unknown, <<>>)
  <2>1. CASE l_value /\ current = "="
    <3>1. Good(<<Skip, Check, Expression>>, <<>>)
      BY Good3, QuietItems
    <3>2. Quiet
      BY <2>1 DEF Quiet, Openers, Closers
    <3>3. Unknown = Match(<<Skip, Check, Expression>>)
      BY <2>1 DEF Unknown
    <3>4. QED
      BY <3>1, <3>2, <3>3, QuietPays
  <2>2. CASE ~(l_value /\ current = "=") /\ current = "("
    <3>1. Unknown = {}
      BY <2>2 DEF Unknown
    <3>2. QED
      BY <3>1 DEF Pays
  <2>3. CASE ~(l_value /\ current = "=") /\ current # "("
    <3>1. Unknown = Become(<<Err>>)
      BY <2>3 DEF Unknown
    <3>2. QED
      BY <3>1, ErrPays
  <2>4. QED
    BY <2>1, <2>2, <2>3
<1>3. QED
  BY <1>1, <1>2, VariablePays, UnionPays DEF ExprName

LEMMA CompileBlockBodyPays ==
  ASSUME NEW type \in BlockTypes
  PROVE  Pays(CompileBlockBody(type), <<>>)
<1>1. Good(<<Skip, Statements(type)>>, <<>>)
  BY Good2, QuietItems
<1>2. Good(<<StartBlock("then")>>, <<>>) /\ Good(<<StartBlock("do")>>, <<>>)
  BY Good1, QuietOnes
<1>3. CASE type = "if"
  <2>1. CompileBlockBody(type) = Become(<<StartBlock("then")>> \o <<Skip, Statements(type)>>)
    BY <1>3 DEF CompileBlockBody
  <2>2. QED
    BY <1>1, <1>2, <2>1, GoodAfter, BecomePays
<1>4. CASE type = "loop"
  <2>1. CompileBlockBody(type) = Become(<<StartBlock("do")>> \o <<Skip, Statements(type)>>)
    BY <1>4 DEF CompileBlockBody
  <2>2. QED
    BY <1>1, <1>2, <2>1, GoodAfter, BecomePays
<1>5. CASE type \notin {"if", "loop"}
  <2>1. CompileBlockBody(type) = Become(<<>> \o <<Skip, Statements(type)>>)
    BY <1>5 DEF CompileBlockBody
  <2>2. QED
    BY <1>1, <2>1, GoodNone, GoodAfter, BecomePays
<1>6. QED
  BY <1>3, <1>4, <1>5

LEMMA CompileIfPays ==
  ASSUME NEW elsif \in BOOLEAN
  PROVE  Pays(CompileIf(elsif), IfOwed(elsif))
<1>1. One(<<"ifRest", elsif>>, IfOwed(elsif))
  BY OwingItems DEF IfOwed
<1>2. Good(<<Skip, Expression, Block("if"), <<"ifRest", elsif>>>>, IfOwed(elsif))
  BY <1>1, Good4, QuietItems, QuietOnes
<1>3. QED
  BY <1>2, BecomePays DEF CompileIf

LEMMA IfRestPays ==
  ASSUME NEW elsif \in BOOLEAN
  PROVE  Pays(IfRest(elsif), IfOwed(elsif))
<1>1. Good(<<If(TRUE)>>, <<>>) /\ Good(<<Block("else")>>, <<>>)
  BY Good1, QuietOnes, OwingItems
<1>2. Good(IfEnd(elsif), IfOwed(elsif))
  BY IfEndGood
<1>3. /\ Good(<<If(TRUE)>> \o IfEnd(elsif), IfOwed(elsif))
      /\ Good(<<Block("else")>> \o IfEnd(elsif), IfOwed(elsif))
  BY <1>1, <1>2, GoodAfter
<1>4. CASE current = "elsif"
  <2>1. Quiet /\ IfRest(elsif) = Match(<<If(TRUE)>> \o IfEnd(elsif))
    BY <1>4 DEF Quiet, Openers, Closers, IfRest
  <2>2. QED
    BY <1>3, <2>1, QuietPays
<1>5. CASE current = "else"
  <2>1. Quiet /\ IfRest(elsif) = Match(<<Block("else")>> \o IfEnd(elsif))
    BY <1>5 DEF Quiet, Openers, Closers, IfRest
  <2>2. QED
    BY <1>3, <2>1, QuietPays
<1>6. CASE current \notin {"elsif", "else"}
  <2>1. IfRest(elsif) = Become(IfEnd(elsif))
    BY <1>6 DEF IfRest
  <2>2. QED
    BY <1>2, <2>1, BecomePays
<1>7. QED
  BY <1>4, <1>5, <1>6

LEMMA CompileStatementPays ==
  Pays(CompileStatement, <<>>)
<1>1. Good(<<EndStatement>>, <<>>) /\ Good(<<Item("returnValue")>>, <<>>)
  BY Good1, QuietItems, QuietOnes
<1>2. CASE current \in {"break", "continue"}
  <2>1. Quiet /\ CompileStatement = Match(<<IF InLoop THEN EndStatement ELSE Err>>)
    BY <1>2 DEF Quiet, Openers, Closers, CompileStatement
  <2>2. CASE InLoop
    BY <1>1, <2>1, <2>2, QuietPays
  <2>3. CASE ~InLoop
    BY <2>1, <2>3, ErrPays
  <2>4. QED
    BY <2>2, <2>3
<1>3. CASE current = "return"
  <2>1. Quiet /\ CompileStatement = Match(<<IF AtTop THEN Err ELSE Item("returnValue")>>)
    BY <1>3 DEF Quiet, Openers, Closers, CompileStatement
  <2>2. CASE ~AtTop
    BY <1>1, <2>1, <2>2, QuietPays
  <2>3. CASE AtTop
    BY <2>1, <2>3, ErrPays
  <2>4. QED
    BY <2>2, <2>3
<1>4. ASSUME NEW s, Good(s, <<"end">>), current \in {"if", "while", "for"}
      PROVE  Pays(Match(s), <<>>)
  <2>1. current \in Openers /\ <<Closer(current)>> \o <<>> = <<"end">>
    BY <1>4, NoneAfter DEF Openers, Closer
  <2>2. QED
    BY <1>4, <2>1, OpenerPays
<1>5. CASE current = "if"
  <2>1. Good(<<If(FALSE)>>, <<"end">>)
    BY Good1, OwingItems
  <2>2. CompileStatement = Match(<<If(FALSE)>>)
    BY <1>5 DEF CompileStatement
  <2>3. QED
    BY <1>4, <1>5, <2>1, <2>2
<1>6. CASE current = "while"
  <2>1. CompileStatement = Match(CompileWhile)
    BY <1>6 DEF CompileStatement
  <2>2. QED
    BY <1>4, <1>6, <2>1, CompileWhileGood
<1>7. CASE current = "for"
  <2>1. CompileStatement = Match(CompileFor)
    BY <1>7 DEF CompileStatement
  <2>2. QED
    BY <1>4, <1>7, <2>1, CompileForGood
<1>8. CASE current \notin {"break", "continue", "return", "if", "while", "for"}
  <2>1. Good(<<Expression, EndStatement>>, <<>>)
    BY Good2, QuietItems
  <2>2. CompileStatement = Become(<<Expression, EndStatement>>)
    BY <1>8 DEF CompileStatement
  <2>3. QED
    BY <2>1, <2>2, BecomePays
<1>9. QED
  BY <1>2, <1>3, <1>5, <1>6, <1>7, <1>8

(* A function's parameters owe their bracket, and its body after it. *)
LEMMA ParametersOwe ==
  \A type : <<")">> \o BodyOwed(type) = ParameterOwed(type)
<1>1. <<")">> \o <<"end">> = <<")", "end">>
  BY OneAndOne
<1>2. QED
  BY <1>1, NoneAfter DEF BodyOwed, ParameterOwed

LEMMA CompileFunctionPays ==
  ASSUME NEW type \in FunctionTypes
  PROVE  Pays(CompileFunction(type), BodyOwed(type))
<1>1. Good(<<Check, <<"parameters", type>>>>, BodyOwed(type))
  BY Good2, QuietItems, OwingItems
<1>2. Good(<<Expect("name")>>, <<>>)
  BY Good1, QuietOnes
<1>3. QED
  BY <1>1, <1>2, GoodNone, GoodAfter, BecomePays DEF CompileFunction

LEMMA ParametersPays ==
  ASSUME NEW type \in FunctionTypes
  PROVE  Pays(Parameters(type), BodyOwed(type))
<1>1. CASE current = "("
  <2>1. Good(<<<<"firstParameter", type>>>>, ParameterOwed(type))
    BY Good1, OwingItems
  <2>2. current \in Openers /\ <<Closer(current)>> \o BodyOwed(type) = ParameterOwed(type)
    BY <1>1, ParametersOwe DEF Openers, Closer
  <2>3. QED
    BY <1>1, <2>1, <2>2, OpenerPays DEF Parameters
<1>2. CASE current # "("
  BY <1>2, FunctionBodyGood, BecomePays DEF Parameters
<1>3. QED
  BY <1>1, <1>2

LEMMA FirstParameterPays ==
  ASSUME NEW type \in FunctionTypes
  PROVE  Pays(FirstParameter(type), ParameterOwed(type))
<1>1. CASE current = ")"
  <2>1. current \in Closers /\ current \notin Openers /\ <<current>> \o BodyOwed(type) = ParameterOwed(type)
    BY <1>1, ParametersOwe DEF Openers, Closers
  <2>2. QED
    BY <1>1, <2>1, FunctionBodyGood, CloserPays DEF FirstParameter
<1>2. CASE current # ")"
  BY <1>2, ParameterGood, BecomePays DEF FirstParameter
<1>3. QED
  BY <1>1, <1>2

LEMMA MoreParametersPays ==
  ASSUME NEW type \in FunctionTypes
  PROVE  Pays(MoreParameters(type), ParameterOwed(type))
<1>1. CASE current = ","
  <2>1. Quiet
    BY <1>1 DEF Quiet, Openers, Closers
  <2>2. QED
    BY <1>1, <2>1, ParameterGood, QuietPays DEF MoreParameters
<1>2. CASE current # ","
  <2>1. Good(<<Expect(")")>>, <<")">>)
    BY Good1, OwingOnes
  <2>2. <<")">> \o BodyOwed(type) = ParameterOwed(type)
    BY ParametersOwe
  <2>3. Good(<<Expect(")")>> \o FunctionBody(type), ParameterOwed(type))
    BY <2>1, <2>2, FunctionBodyGood, GoodConcat
  <2>4. QED
    BY <1>2, <2>3, BecomePays DEF MoreParameters
<1>3. QED
  BY <1>1, <1>2

LEMMA MorePays ==
  Pays(MoreSymbols, <<>>) /\ Pays(MoreImports, <<>>)
<1>1. Good(<<EndStatement>>, <<>>) /\ Good(<<Skip>>, <<>>)
  BY Good1, QuietItems
<1>2. Good(<<Skip>> \o Symbol, <<>>) /\ Good(<<Skip>> \o Import, <<>>)
  BY <1>1, SymbolGood, ImportGood, GoodAfter
<1>3. CASE current = ","
  <2>1. Quiet
    BY <1>3 DEF Quiet, Openers, Closers
  <2>2. QED
    BY <1>2, <1>3, <2>1, QuietPays DEF MoreSymbols, MoreImports
<1>4. CASE current # ","
  BY <1>1, <1>4, BecomePays DEF MoreSymbols, MoreImports
<1>5. QED
  BY <1>3, <1>4

LEMMA TopLevelStatementPays ==
  Pays(TopLevelStatement, <<>>)
<1>1. ASSUME NEW s, Good(s, <<"end">>), current \in {"class", "def"}
      PROVE  Pays(Match(s), <<>>)
  <2>1. current \in Openers /\ <<Closer(current)>> \o <<>> = <<"end">>
    BY <1>1, NoneAfter DEF Openers, Closer
  <2>2. QED
    BY <1>1, <2>1, OpenerPays
<1>2. CASE current = "class"
  <2>1. TopLevelStatement = Match(CompileType)
    BY <1>2 DEF TopLevelStatement
  <2>2. QED
    BY <1>1, <1>2, <2>1, CompileTypeGood
<1>3. CASE current = "native"
  <2>1. Quiet /\ TopLevelStatement = Match(<<Function("native")>>)
    BY <1>3 DEF Quiet, Openers, Closers, TopLevelStatement
  <2>2. One(Function("native"), <<>>)
    BY OwingItems DEF FunctionTypes, BodyOwed
  <2>3. QED
    BY <2>1, <2>2, Good1, QuietPays
<1>4. CASE current = "def"
  <2>1. TopLevelStatement = Match(<<Function("script")>>)
    BY <1>4 DEF TopLevelStatement
  <2>2. One(Function("script"), <<"end">>)
    BY OwingItems DEF FunctionTypes, BodyOwed
  <2>3. QED
    BY <1>1, <1>4, <2>1, <2>2, Good1
<1>5. CASE current = "from"
  <2>1. Good(<<Item("compilerImport"), Expect("import"), Item("fromSymbols")>>, <<>>)
    BY Good3, QuietOnes
  <2>2. /\ Quiet
        /\ TopLevelStatement = Match(<<Item("compilerImport"), Expect("import"), Item("fromSymbols")>>)
    BY <1>5 DEF Quiet, Openers, Closers, TopLevelStatement
  <2>3. QED
    BY <2>1, <2>2, QuietPays
<1>6. CASE current = "import"
  <2>1. Quiet /\ TopLevelStatement = Match(Import)
    BY <1>6 DEF Quiet, Openers, Closers, TopLevelStatement
  <2>2. QED
    BY <2>1, ImportGood, QuietPays
<1>7. CASE current = "module"
  <2>1. TopLevelStatement = Match(<<Err>>)
    BY <1>7 DEF TopLevelStatement
  <2>2. QED
    BY <2>1, ErrPays
<1>8. CASE current \notin {"class", "native", "def", "from", "import", "module"}
  <2>1. Good(<<Item("compileStatement")>>, <<>>)
    BY Good1, QuietOnes
  <2>2. TopLevelStatement = Become(<<Item("compileStatement")>>)
    BY <1>8 DEF TopLevelStatement
  <2>3. QED
    BY <2>1, <2>2, BecomePays
<1>9. QED
  BY <1>2, <1>3, <1>4, <1>5, <1>6, <1>7, <1>8

LEMMA ModuleNamePays ==
  Pays(ModuleName, <<>>)
<1>1. CASE current = "module"
  <2>1. Good(<<Expect("name"), EndStatement>>, <<>>)
    BY Good2, QuietItems, QuietOnes
  <2>2. Quiet
    BY <1>1 DEF Quiet, Openers, Closers
  <2>3. Pays(Match(<<Expect("name"), EndStatement>>), <<>>) /\ Pays(Match(<<Err>>), <<>>)
    BY <2>1, <2>2, QuietPays, ErrPays
  <2>4. ModuleName = Match(<<Err>>) \cup Match(<<Expect("name"), EndStatement>>)
    BY <1>1 DEF ModuleName
  <2>5. QED
    BY <2>3, <2>4, UnionPays
<1>2. CASE current # "module"
  BY <1>2, GoodNone, BecomePays DEF ModuleName
<1>3. QED
  BY <1>1, <1>2

-----------------------------------------------------------------------------
(* All productions. *)

(* The productions by their names. *)
LEMMA PlainProductions ==
  \A a :
    /\ Production("skipNewLines", a) = {} /\ Production("parseError", a) = {}
    /\ Production("check", a) = Become(<<>>) \cup Become(<<Err>>)
    /\ Production("exprName", a) = ExprName /\ Production("assignment", a) = Variable
    /\ Production("exprList", a) = ExprList /\ Production("listMore", a) = ListMore
    /\ Production("exprMap", a) = ExprMap /\ Production("mapMore", a) = MapMore
    /\ Production("exprCall", a) = ExprCall
    /\ Production("chainArguments", a) = ChainArguments
    /\ Production("chainFirst", a) = ChainFirst
    /\ Production("consumeEndStatement", a) = ConsumeEndStatement
    /\ Production("compileStatement", a) = CompileStatement
    /\ Production("returnValue", a) = ReturnValue /\ Production("forBody", a) = ForBody
    /\ Production("endLoop", a) = Become(<<>>) /\ Production("fields", a) = Fields
    /\ Production("compilerImport", a) = CompilerImport
    /\ Production("fromSymbols", a) = FromSymbols /\ Production("alias", a) = Alias
    /\ Production("moreSymbols", a) = MoreSymbols
    /\ Production("moreImports", a) = MoreImports
    /\ Production("compileTopLevelStatement", a) = TopLevelStatement
    /\ Production("moduleName", a) = ModuleName /\ Production("script", a) = Script
BY DEF Production

LEMMA OtherProductions ==
  \A a :
    /\ Production("consume", a) = {} /\ Production("parsePrecedence", a) = {}
    /\ Production("infix", a) = {}
    /\ Production("consumeStartBlock", a) = ConsumeStartBlock(a)
    /\ Production("compileBlockBody", a) = CompileBlockBody(a)
    /\ Production("statements", a) = BlockStatements(a)
    /\ Production("compileIfStatement", a) = CompileIf(a)
    /\ Production("ifRest", a) = IfRest(a)
    /\ Production("arguments", a) = MoreArguments(a)
    /\ Production("compileFunction", a) = CompileFunction(a)
    /\ Production("parameters", a) = Parameters(a)
    /\ Production("firstParameter", a) = FirstParameter(a)
    /\ Production("moreParameters", a) = MoreParameters(a)
    /\ Production("lexToken", a) = Match(<<>>)
    /\ Production("discard", a) = IF current = a THEN Match(<<>>) ELSE Become(<<>>)
BY DEF Production

LEMMA ChecksPay ==
  Pays(Become(<<>>), <<>>) /\ Pays(Become(<<>>) \cup Become(<<Err>>), <<>>)
BY GoodNone, BecomePays, ErrPays, UnionPays

(* The productions of the items without an argument. *)
LEMMA PlainPays ==
  ASSUME NEW n \in Plain
  PROVE  Pays(Production(n, n), Owes(Item(n)))
<1>1. CASE n \in {"skipNewLines", "parseError", "check", "endLoop"}
  <2>1. Owes(Item(n)) = <<>>
    BY <1>1, QuietItems DEF Plain, Owers, One
  <2>2. Pays({}, <<>>)
    BY DEF Pays
  <2>3. CASE n \in {"skipNewLines", "parseError"}
    <3>1. Production(n, n) = {}
      BY <2>3, PlainProductions
    <3>2. QED
      BY <2>1, <2>2, <3>1
  <2>4. CASE n = "check"
    <3>1. Production(n, n) = Become(<<>>) \cup Become(<<Err>>)
      BY <2>4, PlainProductions
    <3>2. QED
      BY <2>1, <3>1, ChecksPay
  <2>5. CASE n = "endLoop"
    <3>1. Production(n, n) = Become(<<>>)
      BY <2>5, PlainProductions
    <3>2. QED
      BY <2>1, <3>1, ChecksPay
  <2>6. QED
    BY <1>1, <2>3, <2>4, <2>5
<1>2. CASE n \in {"assignment", "chainArguments", "consumeEndStatement", "compileStatement",
                  "returnValue", "compilerImport", "fromSymbols", "alias"}
  <2>1. Owes(Item(n)) = <<>>
    BY <1>2, QuietItems DEF Plain, Owers, One
  <2>2. QED
    BY <1>2, <2>1, PlainProductions, VariablePays, ChainArgumentsPays, ConsumeEndStatementPays,
       CompileStatementPays, ReturnValuePays, CompilerImportPays, FromSymbolsPays, AliasPays
<1>3. CASE n \in {"moreSymbols", "moreImports", "compileTopLevelStatement", "moduleName", "script"}
  <2>1. Owes(Item(n)) = <<>>
    BY <1>3, QuietItems DEF Plain, Owers, One
  <2>2. QED
    BY <1>3, <2>1, PlainProductions, MorePays, TopLevelStatementPays, ModuleNamePays, ScriptPays
<1>4. CASE n \in {"exprList", "listMore", "exprMap", "mapMore", "exprCall", "chainFirst"}
  <2>1. /\ Owes(Item("exprList")) = <<"]">> /\ Owes(Item("listMore")) = <<"]">>
        /\ Owes(Item("exprMap")) = <<"}">> /\ Owes(Item("mapMore")) = <<"}">>
        /\ Owes(Item("chainFirst")) = <<"}">> /\ Owes(Item("exprCall")) = <<")">>
    BY OwingItems DEF One
  <2>2. CASE n \in {"exprList", "listMore"}
    BY <2>1, <2>2, PlainProductions, ExprListPays, ListMorePays
  <2>3. CASE n \in {"exprMap", "mapMore"}
    BY <2>1, <2>3, PlainProductions, ExprMapPays, MapMorePays
  <2>4. CASE n \in {"exprCall", "chainFirst"}
    BY <2>1, <2>4, PlainProductions, ExprCallPays, ChainFirstPays
  <2>5. QED
    BY <1>4, <2>2, <2>3, <2>4
<1>5. CASE n \in {"fields", "forBody"}
  <2>1. Owes(Item("fields")) = <<"end">> /\ Owes(Item("forBody")) = <<"end">>
    BY OwingItems DEF One
  <2>2. QED
    BY <1>5, <2>1, PlainProductions, FieldsPays, ForBodyPays
<1>6. QED
  BY <1>1, <1>2, <1>3, <1>4, <1>5 DEF Plain

(* What an item becomes pays what the item owes. *)
LEMMA ProductionPays ==
  ASSUME NEW it \in Ordinary
  PROVE  Pays(Production(it[1], it[Len(it)]), Owes(it))
<1> DEFINE P(item) == Pays(Production(item[1], item[Len(item)]), Owes(item))
<1>1. /\ \A n : <<n>>[1] = n /\ <<n>>[Len(<<n>>)] = n
      /\ \A n, a : <<n, a>>[1] = n /\ <<n, a>>[Len(<<n, a>>)] = a
  OBVIOUS
<1>2. \A d : Pays({}, d)
  BY DEF Pays
<1>3. ASSUME NEW n \in Plain
      PROVE  P(Item(n))
  <2>1. Item(n)[1] = n /\ Item(n)[Len(Item(n))] = n
    BY <1>1 DEF Item
  <2>2. QED
    BY <2>1, PlainPays
<1>4. ASSUME NEW t \in Expected
      PROVE  P(Expect(t))
  BY <1>1, <1>2, OtherProductions DEF Expect
<1>5. ASSUME NEW p \in Precedences
      PROVE  P(Parse(p)) /\ P(Infix(p))
  BY <1>1, <1>2, OtherProductions DEF Parse, Infix
<1>6. ASSUME NEW d \in Delimiters
      PROVE  P(StartBlock(d))
  <2>1. Owes(StartBlock(d)) = <<>> /\ Pays(ConsumeStartBlock(d), <<>>)
    BY QuietItems, ConsumeStartBlockPays DEF One
  <2>2. QED
    BY <1>1, <2>1, OtherProductions DEF StartBlock
<1>7. ASSUME NEW type \in BlockTypes
      PROVE  P(Block(type)) /\ P(Statements(type))
  <2>1. /\ Owes(Block(type)) = <<>> /\ Pays(CompileBlockBody(type), <<>>)
        /\ Owes(Statements(type)) = <<>> /\ Pays(BlockStatements(type), <<>>)
    BY QuietItems, CompileBlockBodyPays, BlockStatementsPays DEF One
  <2>2. QED
    BY <1>1, <2>1, OtherProductions DEF Block, Statements
<1>8. ASSUME NEW elsif \in BOOLEAN
      PROVE  P(If(elsif)) /\ P(<<"ifRest", elsif>>)
  <2>1. Owes(If(elsif)) = IfOwed(elsif) /\ Owes(<<"ifRest", elsif>>) = IfOwed(elsif)
    BY OwingItems DEF One, IfOwed
  <2>2. Pays(CompileIf(elsif), IfOwed(elsif)) /\ Pays(IfRest(elsif), IfOwed(elsif))
    BY CompileIfPays, IfRestPays
  <2>3. QED
    BY <1>1, <2>1, <2>2, OtherProductions DEF If
<1>9. ASSUME NEW close \in {")", "}"}
      PROVE  P(Arguments(close))
  <2>1. Owes(Arguments(close)) = <<close>> /\ Pays(MoreArguments(close), <<close>>)
    BY OwingItems, MoreArgumentsPays DEF One
  <2>2. QED
    BY <1>1, <2>1, OtherProductions DEF Arguments
<1>10. ASSUME NEW type \in FunctionTypes
       PROVE  /\ P(Function(type)) /\ P(<<"parameters", type>>)
              /\ P(<<"firstParameter", type>>) /\ P(<<"moreParameters", type>>)
  <2>1. /\ Owes(Function(type)) = BodyOwed(type) /\ Owes(<<"parameters", type>>) = BodyOwed(type)
        /\ Owes(<<"firstParameter", type>>) = ParameterOwed(type)
        /\ Owes(<<"moreParameters", type>>) = ParameterOwed(type)
    BY OwingItems DEF One
  <2>2. /\ Pays(CompileFunction(type), BodyOwed(type)) /\ Pays(Parameters(type), BodyOwed(type))
        /\ Pays(FirstParameter(type), ParameterOwed(type))
        /\ Pays(MoreParameters(type), ParameterOwed(type))
    BY CompileFunctionPays, ParametersPays, FirstParameterPays, MoreParametersPays
  <2>3. QED
    BY <1>1, <2>1, <2>2, OtherProductions DEF Function
<1> HIDE DEF P
<1>11. P(it)
  BY <1>3, <1>4, <1>5, <1>6, <1>7, <1>8, <1>9, <1>10 DEF Ordinary
<1>12. QED
  BY <1>11 DEF P

-----------------------------------------------------------------------------
(* Expressions. *)

LEMMA PrecedenceTyped ==
  \A t : Precedence(t) \in Nat
BY DEF Precedence, LogicalOr, LogicalAnd, Unary, ChainCall

(* The prefix of an expression, but for a name. *)
LEMMA PrefixPays ==
  ASSUME current # "name"
  PROVE  Pays(Match(Prefix(current)), <<>>)
<1>1. CASE current \in {"null", "true", "false", "number", "string"}
  <2>1. Prefix(current) = <<>> /\ Quiet
    BY <1>1 DEF Prefix, Quiet, Openers, Closers
  <2>2. QED
    BY <2>1, GoodNone, QuietPays
<1>2. CASE current = "func"
  <2>1. /\ Prefix(current) = <<Function("literal")>>
        /\ current \in Openers /\ <<Closer(current)>> \o <<>> = <<"end">>
    BY <1>2, NoneAfter DEF Prefix, Openers, Closer
  <2>2. One(Function("literal"), <<"end">>)
    BY OwingItems DEF FunctionTypes, BodyOwed
  <2>3. QED
    BY <2>1, <2>2, Good1, OpenerPays
<1>3. CASE current = "("
  <2>1. /\ Prefix(current) = <<Skip, Expression, Skip, Expect(")")>>
        /\ current \in Openers /\ <<Closer(current)>> \o <<>> = <<")">>
    BY <1>3, NoneAfter DEF Prefix, Openers, Closer
  <2>2. Good(<<Skip, Expression, Skip, Expect(")")>>, <<")">>)
    BY Good4, QuietItems, OwingOnes
  <2>3. QED
    BY <2>1, <2>2, OpenerPays
<1>4. CASE current = "["
  <2>1. /\ Prefix(current) = <<Skip, Item("exprList")>>
        /\ current \in Openers /\ <<Closer(current)>> \o <<>> = <<"]">>
    BY <1>4, NoneAfter DEF Prefix, Openers, Closer
  <2>2. QED
    BY <2>1, Good2, QuietItems, OwingItems, OpenerPays
<1>5. CASE current = "{"
  <2>1. /\ Prefix(current) = <<Skip, Item("exprMap")>>
        /\ current \in Openers /\ <<Closer(current)>> \o <<>> = <<"}">>
    BY <1>5, NoneAfter DEF Prefix, Openers, Closer
  <2>2. QED
    BY <2>1, Good2, QuietItems, OwingItems, OpenerPays
<1>6. CASE current \in {"~", "-", "not"}
  <2>1. Prefix(current) = <<Skip, Parse(Unary + 1)>>
    BY <1>6 DEF Prefix
  <2>2. Quiet
    BY <1>6 DEF Quiet, Openers, Closers
  <2>3. Unary + 1 \in Precedences
    BY DEF Unary, Precedences
  <2>4. QED
    BY <2>1, <2>2, <2>3, Good2, QuietItems, QuietPays
<1>7. CASE current \notin {"null", "true", "false", "number", "string", "func", "(", "[", "{",
                           "~", "-", "not"}
  <2>1. Prefix(current) = <<Err>>
    BY <1>7 DEF Prefix
  <2>2. QED
    BY <2>1, ErrPays
<1>8. QED
  BY <1>1, <1>2, <1>3, <1>4, <1>5, <1>6, <1>7

(* An infix. *)
LEMMA InfixPays ==
  ASSUME Precedence(current) # 0
  PROVE  Pays(Match(InfixRest(current)), <<>>)
<1>1. CASE current \in {"or", "and"}
  <2>1. /\ InfixRest(current) = <<Parse(Precedence(current))>> /\ Quiet
        /\ Precedence(current) \in Precedences
    BY <1>1 DEF InfixRest, Quiet, Openers, Closers, Precedence, LogicalOr, LogicalAnd, Precedences
  <2>2. QED
    BY <2>1, Good1, QuietItems, QuietPays
<1>2. CASE current = "("
  <2>1. /\ InfixRest(current) = <<Item("exprCall")>>
        /\ current \in Openers /\ <<Closer(current)>> \o <<>> = <<")">>
    BY <1>2, NoneAfter DEF InfixRest, Openers, Closer
  <2>2. QED
    BY <2>1, Good1, OwingItems, OpenerPays
<1>3. CASE current = "["
  <2>1. /\ InfixRest(current) = <<Expression, Expect("]"), Item("assignment")>>
        /\ current \in Openers /\ <<Closer(current)>> \o <<>> = <<"]">>
    BY <1>3, NoneAfter DEF InfixRest, Openers, Closer
  <2>2. Good(<<Expression, Expect("]")>> \o <<Item("assignment")>>, <<"]">> \o <<>>)
    <3>1. Good(<<Expression, Expect("]")>>, <<"]">>) /\ Good(<<Item("assignment")>>, <<>>)
      BY Good1, Good2, QuietItems, QuietOnes, OwingOnes
    <3>2. QED
      BY <3>1, GoodConcat
  <2>3. <<Expression, Expect("]")>> \o <<Item("assignment")>> = InfixRest(current)
    BY <2>1, TwoAndOne
  <2>4. Good(InfixRest(current), <<"]">>)
    BY <2>2, <2>3, NoneAfter
  <2>5. QED
    BY <2>1, <2>4, OpenerPays
<1>4. CASE current = "."
  <2>1. InfixRest(current) = <<Expect("name"), Item("assignment")>> /\ Quiet
    BY <1>4 DEF InfixRest, Quiet, Openers, Closers
  <2>2. QED
    BY <2>1, Good2, QuietOnes, QuietPays
<1>5. CASE current = "->"
  <2>1. /\ InfixRest(current) = <<Skip, Parse(ChainCall + 1), Item("chainArguments")>> /\ Quiet
        /\ ChainCall + 1 \in Precedences
    BY <1>5 DEF InfixRest, Quiet, Openers, Closers, ChainCall, Precedences
  <2>2. QED
    BY <2>1, Good3, QuietItems, QuietOnes, QuietPays
<1>6. CASE current \notin {"or", "and", "(", "[", ".", "->"}
  <2>1. InfixRest(current) = <<Skip, Parse(Precedence(current) + 1)>>
    BY <1>6 DEF InfixRest
  <2>2. Quiet
    BY <1>6 DEF Quiet, Openers, Closers, Precedence
  <2>3. Precedence(current) + 1 \in Precedences
    BY PrecedenceTyped DEF Precedences
  <2>4. QED
    BY <2>1, <2>2, <2>3, Good2, QuietItems, QuietPays
<1>7. QED
  BY <1>1, <1>2, <1>3, <1>4, <1>5, <1>6

-----------------------------------------------------------------------------
(* The inductive invariant. *)

(* Only the first item may be a name to be looked up. *)
Shape ==
  \/ todo \in Starts
  \/ todo \in Seq(Items) /\ (todo # <<>> => Tail(todo) \in Seq(Others))

Types ==
  /\ previous \in BOOLEAN /\ current \in Token \cup {Error} /\ next \in Kinds
  /\ has_errors \in BOOLEAN /\ need_more_lines \in BOOLEAN /\ l_value \in BOOLEAN
  /\ forwards \in BOOLEAN /\ repl_mode \in BOOLEAN
  /\ at \in {"prompt", "compiling", "returned"}
  /\ result \in {"none", "success", "compile_error", "unexpected_eof", "crashed"}
  /\ wrong \in BOOLEAN /\ printed \in BOOLEAN

(* Unless there was an error or is to be one, what is left to be parsed has a *)
(* closer for each of the open brackets, in their order, and no other.        *)
Brackets == wrong \/ HasErr(todo) \/ Sums(todo, nest)

(* No token was consumed yet but those that fill the window. *)
Fresh == Starts \cup
  {<<Skip, Item("moduleName"), Item("script")>>, <<Item("moduleName"), Item("script")>>,
   <<Item("script")>>, <<Item("compileTopLevelStatement"), Skip, Item("script")>>,
   <<Item("compileStatement"), Skip, Item("script")>>,
   <<Expression, EndStatement, Skip, Item("script")>>}

(* Of every error the host was told, by the lexer or by the parser, as of the *)
(* tokens of type TK_ERROR but those of the window before the text.           *)
Told ==
  /\ wrong => has_errors
  /\ next \in {"error", "faulty"} => has_errors
  /\ next = "unlexed" <=> todo = Start
  /\ current = Error => has_errors \/ todo \in Starts
  /\ todo \in Starts => current = Error
  /\ previous => has_errors \/ todo \in Fresh

(* More lines are asked for at the end of the text, before any error. *)
Asked ==
  /\ ~has_errors => first = "none" /\ ~printed
  /\ need_more_lines => /\ repl_mode /\ current = Eof /\ ~printed
                        /\ has_errors => first = "end"
  /\ current = Eof => next = "good"

Results ==
  /\ at = "compiling" => result = "none"
  /\ BracketsAreClosed
  /\ OnlyTheEndAsksForMore
  /\ LinesAreKeptForMore

IInv == Types /\ Shape /\ Brackets /\ Told /\ Asked /\ Results

-----------------------------------------------------------------------------
(* The items to do. *)

(* Names that occur only where they are to. *)
LEMMA ItemNames ==
  /\ \A it \in Ordinary : it[1] # "lexToken" /\ it[1] # "exprName" /\ it[1] # "discard"
                          /\ Len(it) \in {1, 2}
  /\ \A it \in Others : it[1] # "lexToken" /\ it[1] # "exprName" /\ Len(it) \in {1, 2}
  /\ \A it \in Items : it[1] # "lexToken" /\ Len(it) \in {1, 2}
<1>1. /\ \A n : <<n>>[1] = n /\ Len(<<n>>) = 1
      /\ \A n, a : <<n, a>>[1] = n /\ Len(<<n, a>>) = 2
  OBVIOUS
<1>2. \A it \in Ordinary : it[1] # "lexToken" /\ it[1] # "exprName" /\ it[1] # "discard"
                           /\ Len(it) \in {1, 2}
  <2>1. \A n \in Plain : n # "lexToken" /\ n # "exprName" /\ n # "discard"
    BY DEF Plain
  <2> DEFINE Pairs == {"consume", "consumeStartBlock", "parsePrecedence", "infix", "compileBlockBody",
                       "statements", "compileIfStatement", "ifRest", "arguments",
                       "compileFunction", "parameters", "firstParameter", "moreParameters"}
  <2>2. ASSUME NEW it \in Ordinary
        PROVE  (\E n \in Plain : it = <<n>>) \/ (\E n \in Pairs : \E a : it = <<n, a>>)
    BY DEF Ordinary, Item, Expect, StartBlock, Parse, Infix, Block, Statements, If, Arguments, Function
  <2>3. \A n \in Pairs : n # "lexToken" /\ n # "exprName" /\ n # "discard"
    OBVIOUS
  <2> HIDE DEF Pairs
  <2>4. QED
    BY <1>1, <2>1, <2>2, <2>3
<1>3. \A it \in Others : it[1] # "lexToken" /\ it[1] # "exprName" /\ Len(it) \in {1, 2}
  BY <1>1, <1>2 DEF Others
<1>4. QED
  BY <1>1, <1>2, <1>3 DEF Items, Item

(* The window is filled. *)
LEMMA NotStarts ==
  ASSUME NEW s \in Seq(Items)
  PROVE  s \notin Starts
<1>1. \A r \in Starts : Len(r) # 0 /\ r[1][1] = "lexToken"
  BY DEF Starts, Start, Item
<1>2. Len(s) # 0 => s[1] \in Items
  OBVIOUS
<1>3. QED
  BY <1>1, <1>2, ItemNames

(* What is done first, and what is left after it. *)
LEMMA TheFirst ==
  ASSUME Shape, todo \notin Starts, todo # <<>>
  PROVE  /\ todo \in Seq(Items) /\ Head(todo) \in Items /\ Tail(todo) \in Seq(Others)
         /\ Head(todo)[1] # "exprName" => Head(todo) \in Others
<1>1. todo \in Seq(Items) /\ Tail(todo) \in Seq(Others) /\ Head(todo) \in Items
  BY DEF Shape
<1>2. \A it \in Items : it[1] = "exprName" \/ it \in Others
  BY DEF Items, Item
<1>3. QED
  BY <1>1, <1>2

(* A name and an item before others. *)
LEMMA TwoBefore ==
  ASSUME NEW b \in Others, NEW r \in Seq(Others)
  PROVE  /\ <<Item("exprName"), b>> \o r \in Seq(Items)
         /\ <<Item("exprName"), b>> \o r # <<>>
         /\ Tail(<<Item("exprName"), b>> \o r) \in Seq(Others)
         /\ (<<Item("exprName"), b>> \o r)[2] = b
<1> DEFINE a == Item("exprName")
           S == Others
           T == Items
           s == <<a, b>> \o r
           t == <<b>> \o r
<1>0. b \in S /\ r \in Seq(S) /\ S \subseteq T /\ a \in T
  BY DEF Items
<1> HIDE DEF a, S, T
<1>1. <<a, b>> \in Seq(T) /\ r \in Seq(T) /\ Len(<<a, b>>) = 2 /\ Len(r) \in Nat
      /\ <<a, b>>[1] = a /\ <<a, b>>[2] = b
  BY <1>0
<1>2. <<b>> \in Seq(S) /\ Len(<<b>>) = 1 /\ <<b>>[1] = b
  BY <1>0
<1>3. /\ s \in Seq(T) /\ Len(s) = 2 + Len(r) /\ s[1] = a /\ s[2] = b
      /\ \A i \in 1 .. Len(r) : s[2 + i] = r[i]
  <2>1. 1 \in 1 .. 2 /\ 2 \in 1 .. 2
    OBVIOUS
  <2>2. QED
    BY <1>1, <2>1, ConcatOf
<1>4. /\ t \in Seq(S) /\ Len(t) = 1 + Len(r) /\ t[1] = b
      /\ \A i \in 1 .. Len(r) : t[1 + i] = r[i]
  BY <1>0, <1>2, ConcatOf
<1> HIDE DEF s, t
<1>5. s # <<>>
  BY <1>1, <1>3
<1>6. /\ Head(s) = s[1] /\ Tail(s) \in Seq(T) /\ Len(Tail(s)) = Len(s) - 1
      /\ \A i \in 1 .. Len(s) - 1 : Tail(s)[i] = s[i + 1]
  BY <1>3, <1>5, TailOf
<1>7. ASSUME NEW i \in 1 .. 1 + Len(r)
      PROVE  Tail(s)[i] = t[i]
  <2>1. CASE i = 1
    BY <1>1, <1>3, <1>4, <1>6, <2>1
  <2>2. CASE i # 1
    <3>1. i - 1 \in 1 .. Len(r) /\ i + 1 = 2 + (i - 1) /\ i = 1 + (i - 1) /\ i \in 1 .. Len(s) - 1
      BY <1>1, <1>3, <2>2
    <3>2. Tail(s)[i] = s[2 + (i - 1)] /\ t[1 + (i - 1)] = r[i - 1]
      BY <1>4, <1>6, <3>1
    <3>3. QED
      BY <1>3, <3>1, <3>2
  <2>3. QED
    BY <2>1, <2>2
<1>8. Tail(s) = t
  <2>1. t \in Seq(T)
    BY <1>0, <1>4
  <2>2. \A u, v \in Seq(T) : Len(u) = Len(v) /\ (\A i \in 1 .. Len(u) : u[i] = v[i]) => u = v
    OBVIOUS
  <2>3. Len(Tail(s)) = 1 + Len(r) /\ Len(t) = 1 + Len(r)
    BY <1>1, <1>3, <1>4, <1>6
  <2>4. QED
    BY <1>6, <1>7, <2>1, <2>2, <2>3
<1>9. QED
  BY <1>3, <1>4, <1>5, <1>8 DEF s, a, S, T

-----------------------------------------------------------------------------
(* What a lexToken() does. *)

LEMMA LexedTokens ==
  ASSUME Types, Told, Asked, Lex
  PROVE  /\ previous' = (current = Error) /\ current' \in Token \cup {Error}
         /\ next' \in Kinds \ {"unlexed"}
         /\ current = Eof => current' = Eof /\ next' = next /\ ~LexError
         /\ current' = Eof => next' = "good"
         /\ current # Eof => current' \in TypesOf(next)
         /\ todo \notin Starts => (current' = Error => has_errors) /\ (previous' => has_errors)
<1>1. next \in Kinds /\ (todo \notin Starts => next # "unlexed")
  BY DEF Types, Told, Starts
<1>2. /\ next = "good" => TypesOf(next) = Token
      /\ next = "faulty" => TypesOf(next) = Literal
      /\ next \in {"error", "unlexed"} => TypesOf(next) = {Error}
  BY DEF TypesOf
<1>3. previous' = (current = Error)
  BY DEF Lex, LexToken
<1>4. CASE current = Eof
  <2>1. current' = current /\ next' = next /\ next = "good"
    BY <1>4 DEF Lex, LexToken, Asked
  <2>2. QED
    BY <1>1, <1>3, <1>4, <2>1, TokenAssumption DEF LexError, Types, Told
<1>5. CASE current # Eof
  <2>1. /\ current' \in TypesOf(next)
        /\ (current' = Eof /\ next' = next) \/ (current' # Eof /\ next' \in Kinds \ {"unlexed"})
    BY <1>5 DEF Lex, LexToken
  <2>2. /\ current' \in Token \cup {Error} /\ (current' = Error => next \in {"error", "unlexed"})
        /\ current' = Eof => next = "good"
    BY <1>1, <1>2, <2>1, TokenAssumption DEF Kinds
  <2>3. next' \in Kinds \ {"unlexed"} /\ (current' = Eof => next' = "good")
    BY <2>1, <2>2 DEF Kinds
  <2>4. QED
    BY <1>1, <1>3, <1>5, <2>1, <2>2, <2>3 DEF Told
<1>6. QED
  BY <1>4, <1>5

(* reportError() sets has_errors, or it was set. *)
LEMMA Reported ==
  ASSUME Types, NEW nm \in BOOLEAN, Report(nm)
  PROVE  has_errors' = TRUE /\ printed' \in BOOLEAN
BY DEF Report, Types

(* Its errors are reported. *)
LEMMA LexedErrors ==
  ASSUME Types, Told, Lex
  PROVE  /\ has_errors' \in BOOLEAN /\ printed' \in BOOLEAN /\ wrong' \in BOOLEAN
         /\ has_errors => has_errors'
         /\ wrong' => has_errors'
         /\ next' \in {"error", "faulty"} => has_errors'
         /\ ~LexError => UNCHANGED <<has_errors, printed, first, wrong>>
<1>1. wrong' = (wrong \/ LexError) /\ LexError \in BOOLEAN /\ need_more_lines \in BOOLEAN
  BY DEF Lex, LexError, Types
<1>2. CASE LexError
  <2>1. Report(need_more_lines)
    BY <1>2 DEF Lex
  <2>2. QED
    BY <1>1, <1>2, <2>1, Reported
<1>3. CASE ~LexError
  <2>1. UNCHANGED <<has_errors, printed, first>>
    BY <1>3 DEF Lex
  <2>2. QED
    BY <1>1, <1>3, <2>1 DEF Types, Told, LexError
<1>4. QED
  BY <1>2, <1>3

(* The invariant's parts that are not about what is left to be done. *)
LEMMA LexedTypes ==
  ASSUME Types, Told, Asked, Lex, l_value' \in BOOLEAN, forwards' = forwards
  PROVE  Types'
<1>1. UNCHANGED <<need_more_lines, reader>>
  BY DEF Lex
<1>2. QED
  BY <1>1, LexedTokens, LexedErrors DEF Types, reader

LEMMA LexedTold ==
  ASSUME Types, Told, Asked, todo \notin Starts, todo' \notin Starts, Lex
  PROVE  Told'
BY LexedTokens, LexedErrors DEF Told, Kinds, Starts

LEMMA LexedAsked ==
  ASSUME Types, Told, Asked, Lex
  PROVE  Asked'
<1>1. UNCHANGED <<need_more_lines, repl_mode>>
  BY DEF Lex, reader
<1>2. ~has_errors' => first' = "none" /\ ~printed'
  BY LexedErrors DEF Asked, Told, LexError
<1>3. ASSUME need_more_lines'
      PROVE  repl_mode' /\ current' = Eof /\ ~printed' /\ (has_errors' => first' = "end")
  <2>1. current = Eof /\ repl_mode /\ ~printed /\ (has_errors => first = "end")
    BY <1>1, <1>3 DEF Asked
  <2>2. UNCHANGED <<has_errors, printed, first>> /\ current' = Eof
    BY <2>1, LexedTokens, LexedErrors
  <2>3. QED
    BY <1>1, <2>1, <2>2
<1>4. current' = Eof => next' = "good"
  BY LexedTokens
<1>5. QED
  BY <1>2, <1>3, <1>4 DEF Asked

(* A compilation that goes on has no result. *)
LEMMA CompilingResults ==
  ASSUME Results, at = "compiling", UNCHANGED reader
  PROVE  Results'
BY DEF Results, reader, BracketsAreClosed, OnlyTheEndAsksForMore, LinesAreKeptForMore

-----------------------------------------------------------------------------
(* The brackets. *)

(* An error to come stays to come. *)
LEMMA ErrIn ==
  ASSUME NEW s \in Seq(Items), NEW r \in Seq(Items), HasErr(s) \/ HasErr(r)
  PROVE  HasErr(s \o r)
<1>1. /\ Len(s) \in Nat /\ Len(r) \in Nat /\ Len(s \o r) = Len(s) + Len(r)
      /\ \A i \in 1 .. Len(s) : (s \o r)[i] = s[i]
      /\ \A i \in 1 .. Len(r) : (s \o r)[Len(s) + i] = r[i]
  BY ConcatOf
<1>2. /\ \A i \in 1 .. Len(s) : i \in 1 .. Len(s) + Len(r)
      /\ \A i \in 1 .. Len(r) : Len(s) + i \in 1 .. Len(s) + Len(r)
  BY <1>1
<1>3. QED
  BY <1>1, <1>2 DEF HasErr

(* It does unless it is next. *)
LEMMA ErrAfter ==
  ASSUME NEW S, NEW s \in Seq(S), HasErr(s), s # <<>>, Head(s) # Err
  PROVE  HasErr(Tail(s))
<1>1. PICK i \in 1 .. Len(s) : s[i] = Err
  BY DEF HasErr
<1>2. i # 1 /\ i - 1 \in 1 .. Len(s) - 1 /\ Tail(s)[i - 1] = s[i - 1 + 1] /\ i - 1 + 1 = i
      /\ Len(Tail(s)) = Len(s) - 1
  BY <1>1, TailOf
<1>3. QED
  BY <1>1, <1>2 DEF HasErr

(* A token is consumed: the open brackets are those still owed. *)
LEMMA EatenNests ==
  ASSUME NEW d \in Seq(Closers), NEW e \in Seq(Closers), NEW f \in Seq(Closers),
         Eaten(current, d, e), nest = d \o f, ~wrong', nest' = Nested
  PROVE  nest' = e \o f
<1>1. \A t \in Closers : <<t>> \in Seq(Closers)
  OBVIOUS
<1>2. CASE current \in Openers
  <2>1. e = <<Closer(current)>> \o d /\ nest' = <<Closer(current)>> \o (d \o f)
    BY <1>2 DEF Eaten, Nested
  <2>2. Closer(current) \in Closers
    BY DEF Closer, Closers
  <2>3. (<<Closer(current)>> \o d) \o f = <<Closer(current)>> \o (d \o f)
    BY <1>1, <2>2, ThreeOwed
  <2>4. QED
    BY <2>1, <2>3
<1>3. CASE current \in Closers
  <2>1. current \notin Openers /\ d = <<current>> \o e
    BY <1>3 DEF Eaten, Openers, Closers
  <2>2. nest = <<current>> \o (e \o f)
    BY <1>1, <1>3, <2>1, ThreeOwed
  <2>3. e \o f \in Seq(Closers) /\ nest \in Seq(Closers)
    BY ConcatProperties
  <2>4. nest # <<>> /\ Head(nest) = current /\ Tail(nest) = e \o f
    BY <1>3, <2>2, <2>3, HeadAndTail
  <2>5. QED
    BY <1>3, <2>1, <2>4 DEF Nested
<1>4. CASE current \notin Openers \cup Closers
  BY <1>4 DEF Eaten, Nested
<1>5. QED
  BY <1>2, <1>3, <1>4

(* A step keeps what is owed as it is or as the token changes it. *)
LEMMA StepBrackets ==
  ASSUME NEW eat \in BOOLEAN, NEW s \in Seq(Ordinary), NEW r \in Seq(Items),
         NEW d \in Seq(Closers),
         \/ HasErr(s)
         \/ \E e \in Seq(Closers) : Sums(s, e) /\ IF eat THEN Eaten(current, d, e) ELSE e = d,
         wrong \/ HasErr(r) \/ \E f \in Seq(Closers) : Sums(r, f) /\ nest = d \o f,
         todo' = s \o r,
         wrong => wrong',
         IF eat THEN nest' = Nested ELSE nest' = nest
  PROVE  Brackets'
<1>1. s \in Seq(Items)
  BY DEF Items, Others
<1>2. CASE wrong \/ HasErr(s) \/ HasErr(r)
  BY <1>1, <1>2, ErrIn DEF Brackets
<1>3. ASSUME ~wrong', NEW e \in Seq(Closers), NEW f \in Seq(Closers),
             Sums(s, e), IF eat THEN Eaten(current, d, e) ELSE e = d, Sums(r, f), nest = d \o f
      PROVE  Sums(todo', nest')
  <2>1. nest' = e \o f
    <3>1. CASE eat
      BY <1>3, <3>1, EatenNests
    <3>2. CASE ~eat
      BY <1>3, <3>2
    <3>3. QED
      BY <3>1, <3>2
  <2>2. \A i \in 1 .. Len(s) : Owes(s[i]) \in Seq(Closers)
    BY OwesTyped, ElementOfSeq
  <2>3. Sums(s \o r, e \o f)
    BY <1>1, <1>3, <2>2, SumsConcat
  <2>4. QED
    BY <2>1, <2>3
<1>4. QED
  BY <1>2, <1>3 DEF Brackets

(* What is left when the first item is done. *)
LEMMA TailBrackets ==
  ASSUME Brackets, todo \in Seq(Items), todo # <<>>, Head(todo) # Err
  PROVE  \/ wrong \/ HasErr(Tail(todo))
         \/ \E f \in Seq(Closers) : Sums(Tail(todo), f) /\ nest = Owes(Head(todo)) \o f
BY ErrAfter, SumsTail DEF Brackets

-----------------------------------------------------------------------------
(* Steps. *)

(* The items of a name. *)
LEMMA ItemForms ==
  ASSUME NEW it \in Items
  PROVE  /\ it[1] = "consume" => \E t \in Expected : it = Expect(t)
         /\ it[1] = "parsePrecedence" => \E p \in Precedences : it = Parse(p)
         /\ it[1] = "infix" => \E p \in Precedences : it = Infix(p)
         /\ it[1] = "skipNewLines" => it = Skip
         /\ it[1] = "parseError" => it = Err
         /\ it[1] = "exprName" => it = Item("exprName")
         /\ it \notin Ordinary => it[1] \in {"discard", "exprName"}
<1>1. /\ \A n : <<n>>[1] = n
      /\ \A n, a : <<n, a>>[1] = n
  OBVIOUS
<1>2. CASE it \in Ordinary
  <2>1. ASSUME NEW n \in Plain, it = Item(n)
        PROVE  it[1] = n /\ n \notin {"consume", "parsePrecedence", "infix", "exprName"}
    BY <1>1, <2>1 DEF Plain, Item
  <2>2. ASSUME it \notin {Item(n) : n \in Plain}
        PROVE  /\ it[1] \notin {"skipNewLines", "parseError", "exprName"}
               /\ it[1] = "consume" => \E t \in Expected : it = Expect(t)
               /\ it[1] = "parsePrecedence" => \E p \in Precedences : it = Parse(p)
               /\ it[1] = "infix" => \E p \in Precedences : it = Infix(p)
    <3> DEFINE Pairs == {"consumeStartBlock", "compileBlockBody", "statements", "compileIfStatement",
                         "ifRest", "arguments", "compileFunction", "parameters", "firstParameter",
                         "moreParameters"}
    <3>1. \/ \E t \in Expected : it = Expect(t)
          \/ \E p \in Precedences : it = Parse(p)
          \/ \E p \in Precedences : it = Infix(p)
          \/ \E n \in Pairs : \E a : it = <<n, a>>
      BY <1>2, <2>2 DEF Ordinary, StartBlock, Block, Statements, If, Arguments, Function
    <3>2. /\ \A t : Expect(t)[1] = "consume"
          /\ \A p : Parse(p)[1] = "parsePrecedence" /\ Infix(p)[1] = "infix"
          /\ \A n \in Pairs : n \notin {"skipNewLines", "parseError", "exprName", "consume",
                                        "parsePrecedence", "infix"}
      BY <1>1 DEF Expect, Parse, Infix
    <3> HIDE DEF Pairs
    <3>3. QED
      BY <1>1, <3>1, <3>2
  <2>3. QED
    BY <1>2, <2>1, <2>2 DEF Skip, Err
<1>3. CASE it \notin Ordinary
  BY <1>1, <1>3 DEF Items, Others, Item
<1>4. QED
  BY <1>2, <1>3

(* An item of a name the compilation does not begin with. *)
LEMMA TheItem ==
  ASSUME Shape, NEW n, Is(n), n # "lexToken"
  PROVE  /\ at = "compiling" /\ todo \notin Starts /\ todo # <<>> /\ Head(todo)[1] = n
         /\ todo \in Seq(Items) /\ Head(todo) \in Items /\ Tail(todo) \in Seq(Others)
<1>1. at = "compiling" /\ todo # <<>> /\ Head(todo)[1] = n
  BY DEF Is
<1>2. \A s \in Starts : Head(s)[1] = "lexToken"
  BY DEF Starts, Start, Item
<1>3. QED
  BY <1>1, <1>2, TheFirst

(* Nothing but ordinary items are left to be done. *)
LEMMA OthersShape ==
  ASSUME todo' \in Seq(Others)
  PROVE  Shape' /\ todo' \notin Starts
<1>1. \A s \in Seq(Others) : /\ s \in Seq(Items) /\ (s # <<>> => Tail(s) \in Seq(Others))
                             /\ s # <<>> => Head(s) \in Others
  BY DEF Items
<1>2. QED
  BY <1>1, NotStarts, ItemNames DEF Shape

(* The steps that lex a token: only the shape and the brackets remain to be shown. *)
LEMMA LexStep ==
  ASSUME IInv, at = "compiling", todo \notin Starts, Lex, l_value' \in BOOLEAN, forwards' = forwards,
         Shape', todo' \notin Starts, Brackets'
  PROVE  IInv'
<1>1. UNCHANGED reader
  BY DEF Lex
<1>2. QED
  BY <1>1, LexedTypes, LexedTold, LexedAsked, CompilingResults DEF IInv

(* The steps that do not. *)
LEMMA StayStep ==
  ASSUME IInv, at = "compiling", todo \notin Starts, Stay, l_value' = l_value,
         forwards' \in BOOLEAN, Shape', todo' \notin Starts, Brackets',
         todo \in Fresh => todo' \in Fresh
  PROVE  IInv'
<1>1. UNCHANGED <<tokens, errors, reader>>
  BY DEF Stay
<1>2. Types'
  BY <1>1 DEF IInv, Types, tokens, errors, reader
<1>3. Told'
  BY <1>1 DEF IInv, Told, tokens, errors, Starts
<1>4. Asked'
  BY <1>1 DEF IInv, Asked, tokens, errors, reader
<1>5. Results'
  BY <1>1, CompilingResults DEF IInv
<1>6. QED
  BY <1>2, <1>3, <1>4, <1>5 DEF IInv

(* An error found stays found. *)
LEMMA LexedWrong ==
  ASSUME Lex
  PROVE  (wrong => wrong') /\ nest' = Nested
BY DEF Lex

(* consume() *)
LEMMA ConsumeStep ==
  ASSUME IInv, Consume
  PROVE  IInv'
<1>1. Shape /\ Brackets /\ Is("consume") /\ Lex /\ Types
  BY DEF IInv, Consume
<1>2. /\ at = "compiling" /\ todo \notin Starts /\ todo # <<>> /\ Head(todo)[1] = "consume"
      /\ todo \in Seq(Items) /\ Head(todo) \in Items /\ Tail(todo) \in Seq(Others)
  BY <1>1, TheItem
<1>3. PICK t \in Expected : Head(todo) = Expect(t)
  BY <1>2, ItemForms
<1>4. Head(todo)[2] = t /\ Head(todo) # Err /\ Tail(todo) \in Seq(Items)
  BY <1>2, <1>3 DEF Expect, Err, Item, Items
<1>5. wrong => wrong'
  BY <1>1, LexedWrong
<1>6. CASE current = t
  <2>1. todo' = <<>> \o Tail(todo) /\ <<>> \o Tail(todo) = Tail(todo)
    BY <1>2, <1>4, <1>6, ConcatNone DEF Consume, Replace
  <2>2. Shape' /\ todo' \notin Starts
    BY <1>2, <2>1, OthersShape
  <2>3. Owes(Expect(t)) \in Seq(Closers) /\ Eaten(current, Owes(Expect(t)), <<>>)
    <3>1. CASE t \in Closers
      <4>1. Owes(Expect(t)) = <<t>> /\ <<t>> \in Seq(Closers) /\ <<t>> = <<t>> \o <<>>
        BY <3>1, OwingItems, NoneAfter DEF One
      <4>2. t \notin Openers
        BY <3>1 DEF Openers, Closers
      <4>3. QED
        BY <1>6, <3>1, <4>1, <4>2 DEF Eaten
    <3>2. CASE t \notin Closers
      <4>1. Owes(Expect(t)) = <<>>
        BY <3>2, QuietItems DEF One
      <4>2. t \notin Openers
        BY DEF Expected, Openers
      <4>3. QED
        BY <1>6, <3>2, <4>1, <4>2 DEF Eaten
    <3>3. QED
      BY <3>1, <3>2
  <2>4. Brackets'
    <3>1. <<>> \in Seq(Ordinary) /\ <<>> \in Seq(Closers)
      OBVIOUS
    <3>2. wrong \/ HasErr(Tail(todo))
          \/ \E f \in Seq(Closers) : Sums(Tail(todo), f) /\ nest = Owes(Expect(t)) \o f
      BY <1>1, <1>2, <1>3, <1>4, TailBrackets
    <3>3. nest' = Nested
      BY <1>1, LexedWrong
    <3>4. QED
      BY <1>4, <1>5, <2>1, <2>3, <3>1, <3>2, <3>3, SumsNone, StepBrackets
  <2>5. l_value' \in BOOLEAN /\ forwards' = forwards
    BY <1>1 DEF Consume, Types
  <2>6. QED
    BY <1>1, <1>2, <2>2, <2>4, <2>5, LexStep
<1>7. CASE current # t
  <2>1. todo' = <<Err, <<"discard", t>>>> \o Tail(todo)
    BY <1>4, <1>7 DEF Consume, Replace
  <2>2. <<"discard", t>> \in Others /\ Err \in Others
    BY QuietItems DEF Others, One
  <2>3. <<Err, <<"discard", t>>>> \in Seq(Others) /\ <<Err, <<"discard", t>>>> \in Seq(Items)
        /\ HasErr(<<Err, <<"discard", t>>>>)
    BY <2>2 DEF HasErr, Items
  <2>4. todo' \in Seq(Others)
    BY <1>2, <2>1, <2>3, ConcatProperties
  <2>5. Shape' /\ todo' \notin Starts
    BY <2>4, OthersShape
  <2>6. Brackets'
    BY <1>4, <2>1, <2>3, ErrIn DEF Brackets
  <2>7. l_value' \in BOOLEAN /\ forwards' = forwards
    BY <1>1 DEF Consume, Types
  <2>8. QED
    BY <1>1, <1>2, <2>5, <2>6, <2>7, LexStep
<1>8. QED
  BY <1>6, <1>7

(* The beginning of a compilation. *)
LEMMA StartsTail ==
  ASSUME todo \in Starts
  PROVE  /\ todo # <<>> /\ Head(todo) = Item("lexToken") /\ Tail(todo) \in Fresh
         /\ Tail(todo) \in Starts <=> todo = Start
         /\ Tail(todo) \in Starts \/ Tail(todo) \in Seq(Others)
         /\ Tail(todo) # Start
<1>1. /\ Start = <<Item("lexToken"), Item("lexToken"), Skip, Item("moduleName"), Item("script")>>
      /\ Tail(Start) = <<Item("lexToken"), Skip, Item("moduleName"), Item("script")>>
      /\ Tail(Tail(Start)) = <<Skip, Item("moduleName"), Item("script")>>
  <2>1. \A a, b, c, d, e : Tail(<<a, b, c, d, e>>) = <<b, c, d, e>> /\ Tail(<<b, c, d, e>>) = <<c, d, e>>
    OBVIOUS
  <2>2. QED
    BY <2>1 DEF Start
<1>2. <<Skip, Item("moduleName"), Item("script")>> \in Seq(Others)
  BY QuietItems, QuietOnes DEF One, Others
<1>3. Tail(Tail(Start)) \notin Starts
  <2>1. Tail(Tail(Start)) \in Seq(Items)
    BY <1>1, <1>2 DEF Items
  <2>2. QED
    BY <2>1, NotStarts
<1>4. Start # Tail(Start) /\ Head(Start) = Item("lexToken") /\ Head(Tail(Start)) = Item("lexToken")
      /\ Start # <<>> /\ Tail(Start) # <<>>
  <2>1. Len(<<Item("lexToken"), Item("lexToken"), Skip, Item("moduleName"), Item("script")>>) = 5
    OBVIOUS
  <2>2. Len(<<Item("lexToken"), Skip, Item("moduleName"), Item("script")>>) = 4
    OBVIOUS
  <2>3. QED
    BY <1>1, <2>1, <2>2
<1>5. QED
  BY <1>1, <1>2, <1>3, <1>4 DEF Starts, Fresh

(* A compilation begins with nothing owed. *)
LEMMA StartSums == Sums(Start, <<>>)
<1>1. Sums(<<Skip, Item("moduleName"), Item("script")>>, <<>>)
  BY Good3, QuietItems, QuietOnes DEF Good
<1> DEFINE o == <<<<>>, <<>>, <<>>, <<>>, <<>>, <<>>>>
<1>2. o \in Seq(Seq(Closers)) /\ Len(o) = 6 /\ \A i \in 1 .. 6 : o[i] = <<>>
  OBVIOUS
<1>3. Len(Start) = 5 /\ \A i \in 1 .. 5 : Start[i] \in {Item("lexToken"), Skip, Item("moduleName"), Item("script")}
  BY DEF Start
<1>4. /\ Owes(Item("lexToken")) = <<>> /\ Owes(Skip) = <<>>
      /\ Owes(Item("moduleName")) = <<>> /\ Owes(Item("script")) = <<>>
  <2>1. Owed("lexToken", "lexToken") = <<>>
    BY DEF Owed
  <2>2. QED
    BY <2>1, OwesItem, QuietItems, QuietOnes DEF One, Item
<1>5. \A i \in 1 .. 5 : i \in 1 .. 6 /\ i + 1 \in 1 .. 6
  OBVIOUS
<1>6. <<>> \o <<>> = <<>>
  OBVIOUS
<1> HIDE DEF o
<1>7. \A i \in 1 .. 5 : o[i] = Owes(Start[i]) \o o[i + 1]
  BY <1>2, <1>3, <1>4, <1>5, <1>6
<1>8. Len(o) = Len(Start) + 1 /\ o[1] = <<>> /\ o[Len(Start) + 1] = <<>>
  BY <1>2, <1>3
<1>9. Owing(o, Start, <<>>)
  BY <1>2, <1>3, <1>7, <1>8 DEF Owing
<1>10. QED
  BY <1>9 DEF Sums

(* What is done first before the first token. *)
LEMMA FreshHeads ==
  ASSUME todo \in Fresh
  PROVE  /\ todo # <<>> /\ Head(todo)[1] \in {"lexToken", "skipNewLines", "moduleName", "script",
              "compileTopLevelStatement", "compileStatement", "parsePrecedence"}
         /\ Head(todo)[1] = "skipNewLines" => Tail(todo) \in Fresh
<1>1. \A a, b, c, d : /\ Head(<<a, b, c, d>>) = a /\ Head(<<a, b, c>>) = a /\ Head(<<a, b>>) = a
                      /\ Head(<<a>>) = a /\ Tail(<<a, b, c>>) = <<b, c>>
                      /\ <<a, b, c, d>> # <<>> /\ <<a, b, c>> # <<>> /\ <<a, b>> # <<>> /\ <<a>> # <<>>
  OBVIOUS
<1>2. /\ Skip[1] = "skipNewLines" /\ Expression[1] = "parsePrecedence"
      /\ \A n : Item(n)[1] = n
  BY DEF Skip, Item, Expression
<1>3. CASE todo \in Starts
  BY <1>2, <1>3, StartsTail
<1>4. CASE todo = <<Skip, Item("moduleName"), Item("script")>>
  BY <1>1, <1>2, <1>4 DEF Fresh
<1>5. CASE todo \in {<<Item("moduleName"), Item("script")>>, <<Item("script")>>}
  BY <1>1, <1>2, <1>5
<1>6. CASE todo \in {<<Item("compileTopLevelStatement"), Skip, Item("script")>>,
                    <<Item("compileStatement"), Skip, Item("script")>>}
  BY <1>1, <1>2, <1>6
<1>7. CASE todo = <<Expression, EndStatement, Skip, Item("script")>>
  BY <1>1, <1>2, <1>7
<1>8. QED
  BY <1>3, <1>4, <1>5, <1>6, <1>7 DEF Fresh

(* parseError() *)
LEMMA ParseErrorStep ==
  ASSUME IInv, ParseError
  PROVE  IInv'
<1>1. Shape /\ Is("parseError") /\ Types /\ Told /\ Asked /\ Results
  BY DEF IInv, ParseError
<1>2. /\ at = "compiling" /\ todo \notin Starts /\ todo # <<>> /\ Head(todo)[1] = "parseError"
      /\ Tail(todo) \in Seq(Others)
  BY <1>1, TheItem
<1>3. todo' = Tail(todo)
  BY <1>2, ConcatNone DEF ParseError, Replace
<1>4. Shape' /\ todo' \notin Starts
  BY <1>2, <1>3, OthersShape
<1>5. /\ wrong' = TRUE /\ UNCHANGED <<tokens, need_more_lines, l_value, forwards, reader>>
      /\ UNCHANGED <<previous, current, next>> /\ UNCHANGED <<repl_mode, at, result>>
  BY DEF ParseError, tokens, reader
<1>6. todo \notin Fresh
  BY <1>2, FreshHeads
<1>7. has_errors' = TRUE /\ printed' \in BOOLEAN /\ Asked'
  <2>1. CASE previous
    <3>1. has_errors /\ UNCHANGED <<has_errors, printed, first>>
      BY <1>1, <1>6, <2>1 DEF ParseError, Told
    <3>2. QED
      BY <1>1, <1>5, <3>1 DEF Types, Asked
  <2>2. CASE ~previous
    <3>1. Report(need_more_lines) /\ has_errors' = TRUE /\ printed' \in BOOLEAN
      BY <1>1, <2>2, Reported DEF ParseError, Types
    <3>2. QED
      BY <1>1, <1>5, <3>1 DEF Asked, Report
  <2>3. QED
    BY <2>1, <2>2
<1>8. Types'
  BY <1>1, <1>5, <1>7 DEF Types
<1>9. Brackets'
  BY <1>5 DEF Brackets
<1>10. Told'
  <2>1. next' # "unlexed"
    BY <1>1, <1>2, <1>5 DEF Told, Starts
  <2>2. QED
    BY <1>4, <1>7, <2>1 DEF Told, Starts
<1>11. Results'
  BY <1>1, <1>2, <1>5, CompilingResults
<1>12. QED
  BY <1>4, <1>7, <1>8, <1>9, <1>10, <1>11 DEF IInv

(* matchLine() *)
LEMMA SkipNewLinesStep ==
  ASSUME IInv, SkipNewLines
  PROVE  IInv'
<1>1. Shape /\ Is("skipNewLines") /\ Types /\ Told /\ Asked /\ Results /\ Brackets
  BY DEF IInv, SkipNewLines
<1>2. /\ at = "compiling" /\ todo \notin Starts /\ todo # <<>> /\ Head(todo)[1] = "skipNewLines"
      /\ todo \in Seq(Items) /\ Head(todo) \in Items /\ Tail(todo) \in Seq(Others)
  BY <1>1, TheItem
<1>3. CASE current = "line"
  <2>1. Lex /\ UNCHANGED <<todo, l_value, forwards>>
    BY <1>3 DEF SkipNewLines
  <2>2. Shape'
    <3>1. UNCHANGED at
      BY <2>1 DEF Lex, reader
    <3>2. Is("exprName")' <=> Is("exprName")
      BY <2>1, <3>1 DEF Is
    <3>3. QED
      BY <1>1, <1>2, <2>1, <3>2 DEF IInv, Shape
  <2>3. Brackets'
    <3>1. wrong' \/ nest' = nest
      <4>1. current \notin Openers /\ current \notin Closers
        BY <1>3 DEF Openers, Closers
      <4>2. QED
        BY <2>1, <4>1, LexedWrong DEF Nested
    <3>2. wrong => wrong'
      BY <2>1, LexedWrong
    <3>3. QED
      BY <1>1, <2>1, <3>1, <3>2 DEF Brackets
  <2>4. QED
    BY <1>1, <1>2, <2>1, <2>2, <2>3, LexStep DEF Types
<1>4. CASE current # "line"
  <2>1. /\ need_more_lines' = (need_more_lines \/ (repl_mode /\ ~has_errors /\ current = Eof))
        /\ todo' = <<>> \o Tail(todo)
        /\ UNCHANGED <<tokens, has_errors, wrong, printed, first, reader, nest, l_value, forwards>>
    BY <1>4 DEF SkipNewLines, Replace
  <2>2. todo' = Tail(todo) /\ UNCHANGED <<previous, current, next, repl_mode, at, result>>
    BY <1>2, <2>1, ConcatNone DEF tokens, reader
  <2>3. Shape' /\ todo' \notin Starts
    BY <1>2, <2>2, OthersShape
  <2>4. Types'
    BY <1>1, <2>1, <2>2 DEF Types
  <2>5. Brackets'
    <3>1. Head(todo) # Err /\ Owes(Head(todo)) = <<>>
      <4>1. Head(todo) = Skip
        BY <1>2, ItemForms
      <4>2. QED
        BY <1>2, <4>1, QuietItems DEF One, Err, Item
    <3>2. \/ wrong \/ HasErr(Tail(todo))
          \/ \E f \in Seq(Closers) : Sums(Tail(todo), f) /\ nest = <<>> \o f
      BY <1>1, <1>2, <3>1, TailBrackets
    <3>3. \/ wrong \/ HasErr(Tail(todo)) \/ Sums(Tail(todo), nest)
      BY <3>2, ConcatNone
    <3>4. QED
      BY <2>1, <2>2, <3>3 DEF Brackets
  <2>6. Told'
    <3>1. todo \in Fresh => todo' \in Fresh
      BY <1>2, <2>2, FreshHeads
    <3>2. next # "unlexed"
      BY <1>1, <1>2 DEF Told, Starts
    <3>3. QED
      BY <1>1, <1>2, <2>1, <2>2, <2>3, <3>1, <3>2 DEF Told, Starts
  <2>7. Asked'
    BY <1>1, <2>1, <2>2 DEF Asked
  <2>8. Results'
    BY <1>1, <1>2, <2>1, CompilingResults
  <2>9. QED
    BY <2>3, <2>4, <2>5, <2>6, <2>7, <2>8 DEF IInv
<1>5. QED
  BY <1>3, <1>4

(* A name owes nothing. *)
LEMMA ExprNameOwes ==
  Owes(Item("exprName")) = <<>> /\ <<>> \in Seq(Closers)
<1>1. Owed("exprName", "exprName") = <<>>
  BY DEF Owed
<1>2. QED
  BY <1>1, OwesItem DEF Item

(* What is lexed in place of the first item, if that becomes s. *)
LEMMA MatchStep ==
  ASSUME IInv, at = "compiling", todo \notin Starts, todo # <<>>, Lex, forwards' = forwards,
         l_value' \in BOOLEAN, NEW s, todo' = s \o Tail(todo),
         Head(todo) \in Ordinary \cup {Item("exprName")}, Head(todo) # Err,
         Pays(Match(s), Owes(Head(todo)))
  PROVE  IInv'
<1>1. /\ Shape /\ Brackets
      /\ todo \in Seq(Items) /\ Head(todo) \in Items /\ Tail(todo) \in Seq(Others)
  BY TheFirst DEF IInv
<1>2. /\ s \in Seq(Ordinary)
      /\ HasErr(s) \/ \E e \in Seq(Closers) : Sums(s, e) /\ Eaten(current, Owes(Head(todo)), e)
  BY DEF Pays, Match
<1>3. Owes(Head(todo)) \in Seq(Closers)
  BY OwesTyped, ExprNameOwes
<1>4. todo' \in Seq(Others)
  <2>1. s \in Seq(Others)
    BY <1>2 DEF Others
  <2>2. QED
    BY <1>1, <2>1, ConcatProperties
<1>5. Tail(todo) \in Seq(Items)
  BY <1>1 DEF Items
<1>6. \/ wrong \/ HasErr(Tail(todo))
      \/ \E f \in Seq(Closers) : Sums(Tail(todo), f) /\ nest = Owes(Head(todo)) \o f
  BY <1>1, TailBrackets
<1>7. Brackets'
  <2>1. (wrong => wrong') /\ nest' = Nested
    BY LexedWrong
  <2>2. QED
    BY <1>2, <1>3, <1>5, <1>6, <2>1, StepBrackets
<1>8. Shape' /\ todo' \notin Starts
  BY <1>4, OthersShape
<1>9. QED
  BY <1>7, <1>8, LexStep

(* The first item becomes s, and no token is lexed. *)
LEMMA BecomeStep ==
  ASSUME IInv, at = "compiling", todo \notin Starts, todo # <<>>, Stay, forwards' \in BOOLEAN,
         l_value' = l_value, NEW s, todo' = s \o Tail(todo),
         Head(todo) \in Ordinary \cup {Item("exprName")}, Head(todo) # Err,
         Pays(Become(s), Owes(Head(todo))),
         todo \in Fresh => todo' \in Fresh
  PROVE  IInv'
<1>1. /\ Shape /\ Brackets
      /\ todo \in Seq(Items) /\ Head(todo) \in Items /\ Tail(todo) \in Seq(Others)
  BY TheFirst DEF IInv
<1>2. /\ s \in Seq(Ordinary)
      /\ HasErr(s) \/ \E e \in Seq(Closers) : Sums(s, e) /\ e = Owes(Head(todo))
  BY DEF Pays, Become
<1>3. Owes(Head(todo)) \in Seq(Closers)
  BY OwesTyped, ExprNameOwes
<1>4. todo' \in Seq(Others)
  <2>1. s \in Seq(Others)
    BY <1>2 DEF Others
  <2>2. QED
    BY <1>1, <2>1, ConcatProperties
<1>5. Tail(todo) \in Seq(Items)
  BY <1>1 DEF Items
<1>6. \/ wrong \/ HasErr(Tail(todo))
      \/ \E f \in Seq(Closers) : Sums(Tail(todo), f) /\ nest = Owes(Head(todo)) \o f
  BY <1>1, TailBrackets
<1>7. Brackets'
  <2>1. wrong' = wrong /\ nest' = nest
    BY DEF Stay, errors
  <2>2. QED
    BY <1>2, <1>3, <1>5, <1>6, <2>1, StepBrackets
<1>8. Shape' /\ todo' \notin Starts
  BY <1>4, OthersShape
<1>9. QED
  BY <1>7, <1>8, StayStep

(* Items that owe nothing, after others. *)
LEMMA PaysThen ==
  ASSUME NEW s, NEW t, NEW d, Pays(Match(s), d), Good(t, <<>>)
  PROVE  Pays(Match(s \o t), d)
<1>1. /\ s \in Seq(Ordinary)
      /\ HasErr(s) \/ \E e \in Seq(Closers) : Sums(s, e) /\ Eaten(current, d, e)
  BY DEF Pays, Match
<1>2. t \in Seq(Ordinary) /\ s \o t \in Seq(Ordinary)
  BY <1>1, ConcatProperties DEF Good
<1>3. HasErr(s \o t) \/ \E e \in Seq(Closers) : Sums(s \o t, e) /\ Eaten(current, d, e)
  <2>1. CASE HasErr(s)
    <3>1. s \in Seq(Items) /\ t \in Seq(Items)
      BY <1>1, <1>2 DEF Items, Others
    <3>2. QED
      BY <2>1, <3>1, ErrIn
  <2>2. ASSUME NEW e \in Seq(Closers), Sums(s, e), Eaten(current, d, e)
        PROVE  Sums(s \o t, e)
    <3>1. Good(s \o t, e \o <<>>)
      BY <1>1, <2>2, GoodConcat DEF Good
    <3>2. QED
      BY <3>1, ConcatNone DEF Good
  <2>3. QED
    BY <1>1, <2>1, <2>2
<1>4. \A p \in Match(s \o t) : p.eat = TRUE /\ p.to = s \o t
  BY DEF Match
<1>5. QED
  BY <1>2, <1>3, <1>4 DEF Pays

(* The prefix of an expression that is a name. *)
LEMMA NameStep ==
  ASSUME IInv, at = "compiling", todo \notin Starts, todo # <<>>, NEW p \in Precedences,
         Head(todo) = Parse(p), Lex, forwards' = forwards, l_value' = (p <= Lowest), current = "name",
         todo' = <<Item("exprName"), Infix(p)>> \o Tail(todo)
  PROVE  IInv'
<1>1. /\ Shape /\ Brackets
      /\ todo \in Seq(Items) /\ Tail(todo) \in Seq(Others)
  BY TheFirst DEF IInv
<1>2. Infix(p) \in Others /\ Others \cup {Item("exprName")} = Items
  BY DEF Others, Ordinary, Items
<1>3. /\ todo' \in Seq(Items) /\ Tail(todo') \in Seq(Others) /\ todo'[2] = Infix(p)
  BY <1>1, <1>2, TwoBefore
<1>4. Shape' /\ todo' \notin Starts
  BY <1>3, NotStarts DEF Shape
<1>5. Brackets'
  <2>1. wrong' \/ nest' = nest
    <3>1. current \notin Openers /\ current \notin Closers
      BY DEF Openers, Closers
    <3>2. QED
      BY <3>1, LexedWrong DEF Nested
  <2>2. wrong => wrong'
    BY LexedWrong
  <2>3. Head(todo) # Err /\ Owes(Head(todo)) = <<>>
    BY QuietItems DEF One, Err, Item, Parse
  <2>4. \/ wrong \/ HasErr(Tail(todo)) \/ Sums(Tail(todo), nest)
    <3>1. \/ wrong \/ HasErr(Tail(todo))
          \/ \E f \in Seq(Closers) : Sums(Tail(todo), f) /\ nest = <<>> \o f
      BY <1>1, <2>3, TailBrackets
    <3>2. QED
      BY <3>1, ConcatNone
  <2> DEFINE s == <<Item("exprName"), Infix(p)>>
  <2>5. /\ s \in Seq(Items) /\ Len(s) = 2 /\ s[1] = Item("exprName") /\ s[2] = Infix(p)
        /\ Tail(todo) \in Seq(Items)
    BY <1>1, <1>2
  <2>6. HasErr(Tail(todo)) => HasErr(todo')
    BY <2>5, ErrIn
  <2>7. ASSUME Sums(Tail(todo), nest)
        PROVE  Sums(todo', nest)
    <3>1. Owes(s[1]) = <<>> /\ Owes(s[2]) = <<>> /\ <<>> \in Seq(Closers)
      BY <2>5, ExprNameOwes, QuietItems DEF One
    <3> HIDE DEF s
    <3>2. s # <<>> /\ 1 .. Len(s) - 1 = {1} /\ 1 .. Len(s) = {1, 2}
      <4>1. Len(<<>>) # 2 /\ 1 .. 2 - 1 = {1} /\ 1 .. 2 = {1, 2}
        OBVIOUS
      <4>2. QED
        BY <2>5, <4>1
    <3>3. Sums(s, <<>>)
      BY <2>5, <3>1, <3>2, SumsLast
    <3>4. Sums(s \o Tail(todo), <<>> \o nest)
      BY <2>5, <2>7, <3>1, <3>2, <3>3, SumsConcat
    <3>5. nest \in Seq(Closers)
      BY <2>5, <2>7, SumsTyped
    <3>6. QED
      BY <3>4, <3>5, ConcatNone DEF s
  <2>8. QED
    BY <2>1, <2>2, <2>4, <2>6, <2>7 DEF Brackets
<1>6. l_value' \in BOOLEAN
  BY DEF Lowest, Precedences
<1>7. QED
  BY <1>4, <1>5, <1>6, LexStep

(* parsePrecedence() *)
LEMMA ParsePrecedenceStep ==
  ASSUME IInv, ParsePrecedence
  PROVE  IInv'
<1>1. Shape /\ Is("parsePrecedence") /\ Lex /\ forwards' = forwards /\ Types
  BY DEF IInv, ParsePrecedence
<1>2. /\ at = "compiling" /\ todo \notin Starts /\ todo # <<>> /\ Head(todo)[1] = "parsePrecedence"
      /\ Head(todo) \in Items
  BY <1>1, TheItem
<1>3. PICK p \in Precedences : Head(todo) = Parse(p)
  BY <1>2, ItemForms
<1>4. /\ Head(todo)[2] = p /\ Head(todo) \in Ordinary /\ Head(todo) # Err
      /\ Owes(Head(todo)) = <<>>
  <2>1. One(Parse(p), <<>>)
    BY QuietItems
  <2>2. Parse(p)[2] = p /\ Parse(p)[1] = "parsePrecedence" /\ Err[1] = "parseError"
    BY DEF Parse, Err, Item
  <2>3. QED
    BY <1>3, <2>1, <2>2 DEF One
<1>5. CASE Prefix(current) = <<Err>>
  <2>1. todo' = <<Err>> \o Tail(todo) /\ l_value' = l_value
    BY <1>5 DEF ParsePrecedence, Replace
  <2>2. Pays(Match(<<Err>>), <<>>)
    BY ErrPays
  <2>3. QED
    BY <1>1, <1>2, <1>4, <2>1, <2>2, MatchStep DEF Types
<1>6. CASE Prefix(current) # <<Err>>
  <2>1. /\ todo' = (Prefix(current) \o <<Infix(p)>>) \o Tail(todo)
        /\ l_value' = (p <= Lowest)
    BY <1>4, <1>6 DEF ParsePrecedence, Replace, LValue
  <2>2. CASE current = "name"
    <3>1. Prefix(current) \o <<Infix(p)>> = <<Item("exprName"), Infix(p)>>
      BY <2>2, OneAndOne DEF Prefix
    <3>2. QED
      BY <1>1, <1>2, <1>3, <2>1, <2>2, <3>1, NameStep
  <2>3. CASE current # "name"
    <3>1. Good(<<Infix(p)>>, <<>>)
      BY Good1, QuietItems
    <3>2. Pays(Match(Prefix(current) \o <<Infix(p)>>), <<>>)
      BY <2>3, <3>1, PrefixPays, PaysThen
    <3>3. l_value' \in BOOLEAN
      BY <2>1
    <3>4. QED
      BY <1>1, <1>2, <1>4, <2>1, <3>2, <3>3, MatchStep
  <2>4. QED
    BY <2>2, <2>3
<1>7. QED
  BY <1>5, <1>6

(* The loop of parsePrecedence() *)
LEMMA InfixLoopStep ==
  ASSUME IInv, InfixLoop
  PROVE  IInv'
<1>1. Shape /\ Is("infix") /\ Types /\ Brackets /\ UNCHANGED <<l_value, forwards>>
  BY DEF IInv, InfixLoop
<1>2. /\ at = "compiling" /\ todo \notin Starts /\ todo # <<>> /\ Head(todo)[1] = "infix"
      /\ todo \in Seq(Items) /\ Head(todo) \in Items /\ Tail(todo) \in Seq(Others)
  BY <1>1, TheItem
<1>3. PICK p \in Precedences : Head(todo) = Infix(p)
  BY <1>2, ItemForms
<1>4. /\ Head(todo)[2] = p /\ Head(todo) \in Ordinary /\ Head(todo) # Err
      /\ Owes(Head(todo)) = <<>>
  <2>1. One(Infix(p), <<>>)
    BY QuietItems
  <2>2. Infix(p)[2] = p /\ Infix(p)[1] = "infix" /\ Err[1] = "parseError"
    BY DEF Infix, Err, Item
  <2>3. QED
    BY <1>3, <2>1, <2>2 DEF One
<1>5. ASSUME Precedence(current) >= p, Lex, todo' = InfixRest(current) \o todo
      PROVE  IInv'
  <2>1. Precedence(current) # 0
    BY <1>5, PrecedenceTyped DEF Precedences
  <2>2. Pays(Match(InfixRest(current)), <<>>)
    BY <2>1, InfixPays
  <2>3. /\ InfixRest(current) \in Seq(Ordinary)
        /\ \/ HasErr(InfixRest(current))
           \/ \E e \in Seq(Closers) : Sums(InfixRest(current), e) /\ Eaten(current, <<>>, e)
    BY <2>2 DEF Pays, Match
  <2>4. todo \in Seq(Others)
    <3>1. Others \subseteq Items /\ Head(todo) \in Others
      BY <1>4 DEF Items, Others
    <3>2. QED
      BY <1>2, <3>1, SeqByHead
  <2>5. todo' \in Seq(Others)
    <3>1. InfixRest(current) \in Seq(Others)
      BY <2>3 DEF Others
    <3>2. QED
      BY <1>5, <2>4, <3>1, ConcatProperties
  <2>6. wrong \/ HasErr(todo) \/ \E f \in Seq(Closers) : Sums(todo, f) /\ nest = <<>> \o f
    <3>1. Sums(todo, nest) => nest \in Seq(Closers)
      BY <1>2, SumsTyped
    <3>2. Sums(todo, nest) => nest = <<>> \o nest
      BY <3>1, ConcatNone
    <3>3. QED
      BY <1>1, <3>1, <3>2 DEF Brackets
  <2>7. Brackets'
    <3>1. (wrong => wrong') /\ nest' = Nested
      BY <1>5, LexedWrong
    <3>2. <<>> \in Seq(Closers)
      OBVIOUS
    <3>3. QED
      BY <1>2, <1>5, <2>3, <2>6, <3>1, <3>2, StepBrackets
  <2>8. QED
    BY <1>1, <1>2, <1>5, <2>5, <2>7, OthersShape, LexStep DEF Types
<1>6. ASSUME Stay, todo' = <<>> \o Tail(todo)
      PROVE  IInv'
  <2>1. todo \notin Fresh
    BY <1>2, FreshHeads
  <2>2. Pays(Become(<<>>), <<>>)
    BY ChecksPay
  <2>3. QED
    BY <1>1, <1>2, <1>4, <1>6, <2>1, <2>2, BecomeStep DEF Types
<1>7. QED
  BY <1>4, <1>5, <1>6 DEF InfixLoop, Replace

(* The call of a null pointer *)
LEMMA CallNullStep ==
  ASSUME IInv, CallNull
  PROVE  IInv'
<1>1. /\ Types /\ Shape /\ Brackets /\ Told /\ Asked /\ Results /\ Is("infix")
      /\ at' = "returned" /\ result' = "crashed"
      /\ UNCHANGED <<previous, current, next, todo, has_errors, need_more_lines, wrong, printed,
                     first, l_value, forwards, repl_mode, nest>>
  BY DEF IInv, CallNull, tokens, errors
<1>2. Types' /\ Shape' /\ Brackets'
  BY <1>1 DEF Types, Shape, Brackets
<1>3. Told' /\ Asked'
  BY <1>1 DEF Told, Asked
<1>4. Results'
  BY <1>1 DEF Results, BracketsAreClosed, OnlyTheEndAsksForMore, LinesAreKeptForMore
<1>5. QED
  BY <1>2, <1>3, <1>4 DEF IInv

(* exprName() of a name not yet defined *)
LEMMA UseForwardStep ==
  ASSUME IInv, UseForward
  PROVE  IInv'
<1>1. /\ Shape /\ Is("exprName") /\ Stay /\ l_value' = l_value /\ forwards' = TRUE
      /\ todo' = <<Check>> \o Tail(todo)
  BY DEF IInv, UseForward, Replace
<1>2. /\ at = "compiling" /\ todo \notin Starts /\ todo # <<>> /\ Head(todo)[1] = "exprName"
      /\ Head(todo) \in Items
  BY <1>1, TheItem
<1>3. Head(todo) = Item("exprName") /\ Head(todo) # Err /\ todo \notin Fresh
  BY <1>2, ItemForms, FreshHeads DEF Err, Item
<1>4. Pays(Become(<<Check>>), Owes(Head(todo)))
  BY <1>3, ExprNameOwes, QuietItems, Good1, BecomePays
<1>5. QED
  BY <1>1, <1>2, <1>3, <1>4, BecomeStep

(* The two calls of lexToken() that begin a compilation *)
LEMMA FirstLexStep ==
  ASSUME IInv, at = "compiling", todo \in Starts, Lex, UNCHANGED <<l_value, forwards>>,
         todo' = Tail(todo)
  PROVE  IInv'
<1>1. Types /\ Told /\ Asked /\ Results /\ Brackets /\ current = Error
  BY DEF IInv, Told
<1>2. /\ todo # <<>> /\ Head(todo) = Item("lexToken") /\ todo' \in Fresh
      /\ todo' \in Starts <=> todo = Start
      /\ todo' \in Starts \/ todo' \in Seq(Others)
  BY StartsTail
<1>3. Types' /\ Asked'
  BY <1>1, LexedTypes, LexedAsked DEF Types
<1>4. Results'
  BY <1>1, CompilingResults DEF Lex
<1>5. Shape'
  <2>1. CASE todo' \in Starts
    <3>1. \A s \in Starts : Head(s)[1] # "exprName"
      BY DEF Starts, Start, Item
    <3>2. QED
      BY <2>1, <3>1 DEF Shape
  <2>2. CASE todo' \in Seq(Others)
    BY <2>2, OthersShape
  <2>3. QED
    BY <1>2, <2>1, <2>2
<1>6. Told'
  <2>1. next' # "unlexed" /\ current' \in TypesOf(next)
    BY <1>1, LexedTokens, TokenAssumption
  <2>2. todo = Start <=> next = "unlexed"
    BY <1>1 DEF Told
  <2>3. todo' # Start
    BY StartsTail
  <2>4. todo' \in Starts => current' = Error
    BY <1>2, <2>1, <2>2 DEF TypesOf
  <2>5. current' = Error => has_errors' \/ todo' \in Starts
    <3>1. next \in {"error", "unlexed"} \/ current' # Error
      BY <1>1, <2>1, TokenAssumption DEF TypesOf, Types, Kinds
    <3>2. QED
      BY <1>1, <1>2, <2>2, <3>1, LexedErrors DEF Told
  <2>6. QED
    BY <1>1, <1>2, <2>1, <2>3, <2>4, <2>5, LexedErrors DEF Told
<1>7. Brackets'
  <2>1. wrong' \/ nest' = nest
    <3>1. current \notin Openers /\ current \notin Closers
      BY <1>1, SymbolsAssumption, TokenAssumption
    <3>2. QED
      BY <3>1, LexedWrong DEF Nested
  <2>2. wrong => wrong'
    BY LexedWrong
  <2>3. todo \in Seq(Items \cup {Item("lexToken")})
    <3>1. {Skip, Item("moduleName"), Item("script")} \subseteq Items
      BY QuietItems, QuietOnes DEF One, Items, Others
    <3>2. QED
      BY <3>1 DEF Starts, Start
  <2>4. Head(todo) # Err /\ Owes(Head(todo)) = <<>>
    <3>1. Owed("lexToken", "lexToken") = <<>>
      BY DEF Owed
    <3>2. Owes(Item("lexToken")) = <<>> /\ Item("lexToken")[1] = "lexToken" /\ Err[1] = "parseError"
      BY <3>1, OwesItem DEF Item, Err
    <3>3. QED
      BY <1>2, <3>2
  <2>5. HasErr(todo) => HasErr(todo')
    BY <1>2, <2>3, <2>4, ErrAfter
  <2>6. ASSUME Sums(todo, nest)
        PROVE  Sums(todo', nest)
    <3>1. PICK f \in Seq(Closers) : Sums(todo', f) /\ nest = <<>> \o f
      BY <1>2, <2>3, <2>4, <2>6, SumsTail
    <3>2. QED
      BY <3>1, ConcatNone
  <2>7. QED
    BY <1>1, <2>1, <2>2, <2>5, <2>6 DEF Brackets
<1>8. QED
  BY <1>3, <1>4, <1>5, <1>6, <1>7 DEF IInv

(* The statement a text begins with, before its first token. *)
LEMMA FreshStep ==
  ASSUME todo \in Fresh, todo \notin Starts,
         NEW p \in Production(Head(todo)[1], Head(todo)[Len(Head(todo))]), p.eat = FALSE
  PROVE  p.to \o Tail(todo) \in Fresh
<1>1. \A a, b, c, d : /\ Head(<<a, b, c, d>>) = a /\ Head(<<a, b, c>>) = a /\ Head(<<a, b>>) = a
                      /\ Head(<<a>>) = a /\ Tail(<<a, b, c>>) = <<b, c>> /\ Tail(<<a, b>>) = <<b>>
                      /\ Tail(<<a>>) = <<>>
  OBVIOUS
<1>2. /\ \A s : \A q \in Match(s) : q.eat = TRUE
      /\ \A s : \A q \in Become(s) : q.to = s
  BY DEF Match, Become
<1>3. Skip[1] = "skipNewLines" /\ Expression[1] = "parsePrecedence" /\ \A n : Item(n)[1] = n
  BY DEF Skip, Item, Expression
<1>4. CASE Head(todo)[1] \in {"skipNewLines", "parsePrecedence"}
  BY <1>4, PlainProductions, OtherProductions
<1>5. CASE todo = <<Item("moduleName"), Item("script")>>
  <2>1. Head(todo)[1] = "moduleName" /\ Tail(todo) = <<Item("script")>>
    BY <1>1, <1>3, <1>5
  <2>2. p \in ModuleName
    BY <2>1, PlainProductions
  <2>3. p.to = <<>>
    BY <1>2, <2>2 DEF ModuleName
  <2>4. <<>> \o <<Item("script")>> = <<Item("script")>>
    OBVIOUS
  <2>5. QED
    BY <2>1, <2>3, <2>4 DEF Fresh
<1>6. CASE todo = <<Item("script")>>
  <2>1. Head(todo)[1] = "script" /\ Tail(todo) = <<>>
    BY <1>1, <1>3, <1>6
  <2>2. p \in Script
    BY <2>1, PlainProductions
  <2>3. p.to = <<Item("compileTopLevelStatement"), Skip, Item("script")>>
    BY <1>2, <2>2 DEF Script
  <2>4. \A a, b, c : <<a, b, c>> \o <<>> = <<a, b, c>>
    OBVIOUS
  <2>5. QED
    BY <2>1, <2>3, <2>4 DEF Fresh
<1>7. CASE todo = <<Item("compileTopLevelStatement"), Skip, Item("script")>>
  <2>1. Head(todo)[1] = "compileTopLevelStatement" /\ Tail(todo) = <<Skip, Item("script")>>
    BY <1>1, <1>3, <1>7
  <2>2. p \in TopLevelStatement
    BY <2>1, PlainProductions
  <2>3. p.to = <<Item("compileStatement")>>
    BY <1>2, <2>2 DEF TopLevelStatement
  <2>4. QED
    BY <2>1, <2>3, OneAndTwo DEF Fresh
<1>8. CASE todo = <<Item("compileStatement"), Skip, Item("script")>>
  <2>1. Head(todo)[1] = "compileStatement" /\ Tail(todo) = <<Skip, Item("script")>>
    BY <1>1, <1>3, <1>8
  <2>2. p \in CompileStatement
    BY <2>1, PlainProductions
  <2>3. p.to = <<Expression, EndStatement>>
    BY <1>2, <2>2 DEF CompileStatement
  <2>4. <<Expression, EndStatement>> \o <<Skip, Item("script")>>
          = <<Expression, EndStatement, Skip, Item("script")>>
    BY TwoAndTwo
  <2>5. QED
    BY <2>1, <2>3, <2>4 DEF Fresh
<1>9. CASE todo \in {<<Skip, Item("moduleName"), Item("script")>>,
                    <<Expression, EndStatement, Skip, Item("script")>>}
  BY <1>1, <1>3, <1>4, <1>9
<1>10. QED
  BY <1>5, <1>6, <1>7, <1>8, <1>9 DEF Fresh

(* One of the outcomes. *)
LEMMA PayOne ==
  ASSUME NEW P, NEW p \in P, NEW d, Pays(P, d)
  PROVE  /\ p.eat \in BOOLEAN
         /\ p.eat => Pays(Match(p.to), d)
         /\ ~p.eat => Pays(Become(p.to), d)
<1>1. /\ \A q \in Match(p.to) : q.eat = TRUE /\ q.to = p.to
      /\ \A q \in Become(p.to) : q.eat = FALSE /\ q.to = p.to
  BY DEF Match, Become
<1>2. QED
  BY <1>1 DEF Pays

(* What consume() discards. *)
LEMMA DiscardStep ==
  ASSUME IInv, at = "compiling", todo \notin Starts, todo # <<>>, Head(todo)[1] = "discard",
         Lex \/ Stay, UNCHANGED <<l_value, forwards>>, todo' = Tail(todo)
  PROVE  IInv'
<1>1. /\ Shape /\ Brackets /\ Types
      /\ todo \in Seq(Items) /\ Head(todo) \in Items /\ Tail(todo) \in Seq(Others)
  BY TheFirst DEF IInv
<1>2. Head(todo) # Err /\ todo \notin Fresh
  BY FreshHeads DEF Err, Item
<1>3. PICK t \in Expected : Head(todo) = <<"discard", t>>
  <2>1. Head(todo) \notin Ordinary /\ Head(todo) # Item("exprName")
    BY ItemNames DEF Item
  <2>2. QED
    BY <1>1, <2>1 DEF Items, Others
<1>4. Owes(Head(todo)) = <<"unmatched">>
  <2>1. Owed("discard", t) = <<"unmatched">>
    BY DEF Owed
  <2>2. QED
    BY <1>3, <2>1, OwesItem
<1>5. ~Sums(todo, nest)
  <2>1. SUFFICES ASSUME Sums(todo, nest) PROVE FALSE
    OBVIOUS
  <2>2. PICK f \in Seq(Closers) : nest = <<"unmatched">> \o f
    BY <1>1, <1>4, <2>1, SumsTail
  <2>3. nest \in Seq(Closers)
    BY <1>1, <2>1, SumsTyped
  <2>4. nest # <<>> /\ Head(nest) = "unmatched"
    <3>1. "unmatched" \in Closers \cup {"unmatched"} /\ f \in Seq(Closers \cup {"unmatched"})
      OBVIOUS
    <3>2. QED
      BY <2>2, <3>1, HeadAndTail
  <2>5. Head(nest) \in Closers
    BY <2>3, <2>4
  <2>6. QED
    BY <2>4, <2>5 DEF Closers
<1>6. wrong \/ HasErr(Tail(todo))
  BY <1>1, <1>2, <1>5, ErrAfter DEF Brackets
<1>7. wrong => wrong'
  BY LexedWrong DEF Stay, errors
<1>8. Brackets'
  BY <1>6, <1>7 DEF Brackets
<1>9. Shape' /\ todo' \notin Starts
  BY <1>1, OthersShape
<1>10. l_value' \in BOOLEAN /\ forwards' \in BOOLEAN
  BY <1>1 DEF Types
<1>11. QED
  BY <1>2, <1>8, <1>9, <1>10, LexStep, StayStep

(* The constructs *)
LEMMA ProduceStep ==
  ASSUME IInv, Produce
  PROVE  IInv'
<1>1. /\ Shape /\ Types /\ at = "compiling" /\ todo # <<>> /\ UNCHANGED <<l_value, forwards>>
  BY DEF IInv, Produce
<1> DEFINE it == Head(todo)
<1>2. PICK p \in Production(it[1], it[Len(it)]) :
           /\ IF p.eat THEN Lex ELSE Stay
           /\ todo' = p.to \o Tail(todo)
  BY DEF Produce, Replace
<1>3. l_value' \in BOOLEAN /\ forwards' \in BOOLEAN
  BY <1>1 DEF Types
<1>4. CASE todo \in Starts
  <2>1. it[1] = "lexToken"
    BY <1>4, StartsTail DEF Item
  <2>2. p.eat = TRUE /\ p.to = <<>>
    <3>1. p \in Match(<<>>)
      BY <2>1, OtherProductions
    <3>2. QED
      BY <3>1 DEF Match
  <2>3. <<>> \o Tail(todo) = Tail(todo)
    <3>1. Starts \subseteq Seq({Skip, Item("lexToken"), Item("moduleName"), Item("script")})
      BY DEF Starts, Start
    <3>2. Tail(todo) \in Seq({Skip, Item("lexToken"), Item("moduleName"), Item("script")})
      BY <1>1, <1>4, <3>1, TailOf
    <3>3. QED
      BY <3>2, ConcatNone
  <2>4. QED
    BY <1>1, <1>2, <1>4, <2>2, <2>3, FirstLexStep
<1>5. CASE todo \notin Starts
  <2>1. it \in Items /\ Tail(todo) \in Seq(Others)
    BY <1>1, <1>5, TheFirst
  <2>2. CASE it[1] = "discard"
    <3>1. p.to = <<>> /\ (Lex \/ Stay)
      <4>1. p \in Match(<<>>) \/ p \in Become(<<>>)
        BY <2>2, OtherProductions
      <4>2. QED
        BY <1>2, <4>1 DEF Match, Become
    <3>2. todo' = Tail(todo)
      BY <1>2, <2>1, <3>1, ConcatNone
    <3>3. QED
      BY <1>1, <1>5, <2>2, <3>1, <3>2, DiscardStep
  <2>3. CASE it[1] # "discard"
    <3>1. it \in Ordinary \cup {Item("exprName")}
      BY <2>1, <2>3, ItemForms
    <3>2. Pays(Production(it[1], it[Len(it)]), Owes(it))
      <4>1. CASE it = Item("exprName")
        <5>1. it[1] = "exprName"
          BY <4>1 DEF Item
        <5>2. Production(it[1], it[Len(it)]) = ExprName
          BY <5>1, PlainProductions
        <5>3. QED
          BY <4>1, <5>2, ExprNamePays, ExprNameOwes
      <4>2. QED
        BY <3>1, <4>1, ProductionPays
    <3>3. it # Err
      <4>1. \A a : Production("parseError", a) = {}
        BY PlainProductions
      <4>2. Err[1] = "parseError"
        BY DEF Err, Item
      <4>3. QED
        BY <4>1, <4>2
    <3>4. /\ p.eat \in BOOLEAN
          /\ p.eat => Pays(Match(p.to), Owes(it))
          /\ ~p.eat => Pays(Become(p.to), Owes(it))
      BY <3>2, PayOne
    <3>5. CASE p.eat
      BY <1>1, <1>2, <1>3, <1>5, <3>1, <3>3, <3>4, <3>5, MatchStep
    <3>6. CASE ~p.eat
      <4>1. todo \in Fresh => todo' \in Fresh
        BY <1>2, <1>5, <3>4, <3>6, FreshStep
      <4>2. QED
        BY <1>1, <1>2, <1>3, <1>5, <3>1, <3>3, <3>4, <3>6, <4>1, BecomeStep
    <3>7. QED
      BY <3>5, <3>6
  <2>4. QED
    BY <2>2, <2>3
<1>6. QED
  BY <1>4, <1>5

(* The end of compile(): names used before their definition *)
LEMMA ResolveForwardsStep ==
  ASSUME IInv, ResolveForwards
  PROVE  IInv'
<1>1. /\ Types /\ Shape /\ Brackets /\ Told /\ Asked /\ Results
      /\ at = "compiling" /\ todo = <<>> /\ forwards' = FALSE
      /\ UNCHANGED <<previous, current, next, todo, l_value, repl_mode, at, result, nest>>
      /\ UNCHANGED reader
  BY DEF IInv, ResolveForwards, tokens, reader
<1>2. Shape'
  BY <1>1 DEF Shape
<1>3. Results'
  BY <1>1, CompilingResults
<1>4. CASE UNCHANGED errors
  <2>1. UNCHANGED <<has_errors, need_more_lines, wrong, printed, first>>
    BY <1>4 DEF errors
  <2>2. Types' /\ Brackets' /\ Told' /\ Asked'
    <3>1. Types'
      BY <1>1, <2>1 DEF Types
    <3>2. Brackets'
      BY <1>1, <2>1 DEF Brackets
    <3>3. Told'
      BY <1>1, <2>1 DEF Told
    <3>4. Asked'
      BY <1>1, <2>1 DEF Asked
    <3>5. QED
      BY <3>1, <3>2, <3>3, <3>4
  <2>3. QED
    BY <1>2, <1>3, <2>2 DEF IInv
<1>5. ASSUME need_more_lines' = FALSE, wrong' = TRUE, Report(FALSE)
      PROVE  IInv'
  <2>1. has_errors' = TRUE /\ printed' \in BOOLEAN
    BY <1>1, <1>5, Reported
  <2>2. Types'
    BY <1>1, <1>5, <2>1 DEF Types
  <2>3. Brackets'
    BY <1>5 DEF Brackets
  <2>4. Told'
    BY <1>1, <2>1 DEF Told
  <2>5. Asked'
    BY <1>1, <1>5, <2>1 DEF Asked
  <2>6. QED
    BY <1>2, <1>3, <2>2, <2>3, <2>4, <2>5 DEF IInv
<1>6. QED
  BY <1>4, <1>5 DEF ResolveForwards

(* The end of compile(): its result *)
LEMMA EndCompileStep ==
  ASSUME IInv, EndCompile
  PROVE  IInv'
<1>1. /\ Types /\ Shape /\ Brackets /\ Told /\ Asked /\ Results
      /\ at = "compiling" /\ todo = <<>>
      /\ result' = Result /\ at' = (IF repl_mode THEN "prompt" ELSE "returned")
      /\ more' = (repl_mode /\ result' = "unexpected_eof") /\ lines' = more'
      /\ UNCHANGED <<previous, current, next, todo, has_errors, need_more_lines, wrong, printed,
                     first, l_value, forwards, repl_mode, nest>>
  BY DEF IInv, EndCompile, tokens, errors
<1>2. Types'
  BY <1>1 DEF Types, Result
<1>3. Shape'
  BY <1>1 DEF Shape
<1>4. Brackets' /\ Told' /\ Asked'
  <2>1. Brackets'
    BY <1>1 DEF Brackets
  <2>2. Told'
    BY <1>1 DEF Told
  <2>3. Asked'
    BY <1>1 DEF Asked
  <2>4. QED
    BY <2>1, <2>2, <2>3
<1>5. BracketsAreClosed'
  <2>1. SUFFICES ASSUME result' = "success" PROVE nest' = <<>>
    BY DEF BracketsAreClosed
  <2>2. ~has_errors
    BY <1>1, <2>1 DEF Result
  <2>3. ~wrong /\ ~HasErr(todo)
    BY <1>1, <2>2 DEF Told, HasErr
  <2>4. Sums(<<>>, nest)
    BY <1>1, <2>3 DEF Brackets
  <2>5. QED
    BY <1>1, <2>4, NoneSums
<1>6. OnlyTheEndAsksForMore'
  BY <1>1 DEF OnlyTheEndAsksForMore, Result, Asked
<1>7. LinesAreKeptForMore'
  BY <1>1 DEF LinesAreKeptForMore
<1>8. Results'
  BY <1>1, <1>5, <1>6, <1>7 DEF Results
<1>9. QED
  BY <1>2, <1>3, <1>4, <1>8 DEF IInv

(* repl(): the next line *)
LEMMA ReadLineStep ==
  ASSUME IInv, ReadLine
  PROVE  IInv'
<1>1. /\ Types /\ at' = "compiling" /\ result' = "none"
      /\ todo' = Start /\ previous' = TRUE /\ current' = Error /\ next' = "unlexed"
      /\ has_errors' = FALSE /\ need_more_lines' = FALSE /\ wrong' = FALSE /\ printed' = FALSE
      /\ first' = "none" /\ nest' = <<>>
      /\ UNCHANGED <<l_value, forwards, repl_mode>>
  BY DEF IInv, ReadLine
<1>2. Start \in Starts /\ Head(Start)[1] = "lexToken"
  BY DEF Starts, Start, Item
<1>3. Types'
  BY <1>1 DEF Types, Kinds
<1>4. Shape'
  BY <1>1, <1>2 DEF Shape
<1>5. Brackets'
  BY <1>1, StartSums DEF Brackets
<1>6. Told'
  BY <1>1, <1>2 DEF Told, Fresh
<1>7. Asked'
  BY <1>1, TokenAssumption DEF Asked
<1>8. Results'
  BY <1>1 DEF Results, BracketsAreClosed, OnlyTheEndAsksForMore, LinesAreKeptForMore
<1>9. QED
  BY <1>3, <1>4, <1>5, <1>6, <1>7, <1>8 DEF IInv

-----------------------------------------------------------------------------
(* The invariant holds at first, and every step keeps it. *)
LEMMA InitIInv == ParserInit => IInv
<1> SUFFICES ASSUME ParserInit PROVE IInv
  OBVIOUS
<1>1. /\ todo = Start /\ previous = TRUE /\ current = Error /\ next = "unlexed"
      /\ has_errors = FALSE /\ need_more_lines = FALSE /\ l_value = FALSE /\ forwards = FALSE
      /\ wrong = FALSE /\ printed = FALSE /\ first = "none" /\ nest = <<>>
      /\ repl_mode \in BOOLEAN /\ at = (IF repl_mode THEN "prompt" ELSE "compiling")
      /\ result = "none" /\ lines = FALSE /\ more = FALSE
  BY DEF ParserInit, Init
<1>2. Start \in Starts /\ Head(Start)[1] = "lexToken"
  BY DEF Starts, Start, Item
<1>3. Types
  BY <1>1 DEF Types, Kinds
<1>4. Shape
  BY <1>1, <1>2 DEF Shape
<1>5. Brackets
  BY <1>1, StartSums DEF Brackets
<1>6. Told
  BY <1>1, <1>2 DEF Told, Fresh
<1>7. Asked
  BY <1>1, TokenAssumption DEF Asked
<1>8. Results
  BY <1>1 DEF Results, BracketsAreClosed, OnlyTheEndAsksForMore, LinesAreKeptForMore
<1>9. QED
  BY <1>3, <1>4, <1>5, <1>6, <1>7, <1>8 DEF IInv

LEMMA NextIInv == IInv /\ [ParserNext]_vars => IInv'
<1> SUFFICES ASSUME IInv, [ParserNext]_vars PROVE IInv'
  OBVIOUS
<1>1. CASE ParserNext
  BY <1>1, ConsumeStep, ParseErrorStep, SkipNewLinesStep, ParsePrecedenceStep, InfixLoopStep,
     CallNullStep, ProduceStep, UseForwardStep, ResolveForwardsStep, EndCompileStep, ReadLineStep
     DEF ParserNext, CompileStep
<1>2. CASE UNCHANGED vars
  <2>1. UNCHANGED <<previous, current, next, todo, has_errors, need_more_lines, wrong, printed,
                    first, l_value, forwards, repl_mode, at, result, lines, more, nest>>
    BY <1>2 DEF vars, tokens, errors, reader
  <2>2. Types' /\ Shape' /\ Brackets'
    BY <2>1 DEF IInv, Types, Shape, Brackets
  <2>3. Told' /\ Asked'
    BY <2>1 DEF IInv, Told, Asked
  <2>4. Results'
    BY <2>1 DEF IInv, Results, BracketsAreClosed, OnlyTheEndAsksForMore, LinesAreKeptForMore
  <2>5. QED
    BY <2>2, <2>3, <2>4 DEF IInv
<1>3. QED
  BY <1>1, <1>2

LEMMA AlwaysIInv == ParserSpec => []IInv
<1>1. QED
  BY InitIInv, NextIInv, PTL DEF ParserSpec

(* The types of the state, whatever the text. *)
LEMMA IInvTypes == IInv => TypeOK
<1> SUFFICES ASSUME IInv PROVE TypeOK
  OBVIOUS
<1>1. \A i \in 1 .. Len(todo) : Len(todo[i]) \in {1, 2}
  <2>1. CASE todo \in Starts
    <3>1. Starts \subseteq Seq({Skip, Item("lexToken"), Item("moduleName"), Item("script")})
      BY DEF Starts, Start
    <3>2. \A it \in {Skip, Item("lexToken"), Item("moduleName"), Item("script")} : Len(it) = 1
      BY DEF Skip, Item
    <3>3. QED
      BY <2>1, <3>1, <3>2, ElementOfSeq
  <2>2. CASE todo \in Seq(Items)
    BY <2>2, ItemNames, ElementOfSeq
  <2>3. QED
    BY <2>1, <2>2 DEF IInv, Shape
<1>2. QED
  BY <1>1 DEF IInv, Types, Asked, TypeOK

(* Every error is reported, and a text that compiles is well bracketed: for   *)
(* any text, of any tokens and any length, and of any lines in the REPL (the  *)
(* functions of pk_compiler.c, from compile() to exprCall()).                 *)
THEOREM TextsAreRight == ParserSpec => []WhatCompilesIsRight
<1>1. IInv => WhatCompilesIsRight
  BY DEF IInv, Told, Results, WhatCompilesIsRight, NoErrorIsSwallowed
<1>2. QED
  BY <1>1, AlwaysIInv, PTL

(* The REPL asks for more lines only if the text was right until its end,    *)
(* prints no error of it, and keeps its lines then, and then only            *)
(* (matchLine(), reportError(), repl()).                                     *)
THEOREM AskedRightly == ParserSpec => []MoreIsAskedRightly
<1>1. IInv => MoreIsAskedRightly
  BY IInvTypes DEF IInv, Results, MoreIsAskedRightly
<1>2. QED
  BY <1>1, AlwaysIInv, PTL
=============================================================================
