----------------------------- MODULE LexerProofs -----------------------------
(***************************************************************************)
(* Proofs about Lexer, for texts of any characters and any length.         *)
(***************************************************************************)
EXTENDS Lexer, TLAPS, FiniteSetTheorems, SequenceTheorems, WellFoundedInduction

RightSymbol(t) ==
  LET Slice(to) == SubSeq(text, t.from, to - 1)
  IN  /\ t.type \in Symbols =>
           /\ t.type = Slice(t.to)
           /\ \A to \in t.to + 1 .. Len(text) + 1 : Slice(to) \notin Symbols
      /\ t.type \in Keywords \cup {Name} =>
           /\ \A k \in t.from .. t.to - 1 : text[k] \in Letter \cup Digit
           /\ Char(t.to) \notin Letter \cup Digit
           /\ Slice(t.to) \in Keywords <=> t.type # Name

RightString(t) ==
  t.type = String =>
    LET quotes == {k \in t.from + 1 .. Len(text) : Closes(t, k)}
        escaped == {k \in t.from + 2 .. t.to - 1 : /\ Slashes(t.from + 1, k) % 2 = 1
                                                   /\ text[k] \notin Escape}
    IN  /\ \A k \in quotes : t.to <= k + 1
        /\ (t.to - 1 \notin quotes) => (quotes = {} /\ t.to = Len(text) + 1)
        /\ t.faulty <=> (t.to - 1 \notin quotes \/ escaped # {})

RightNumber(t) ==
  t.type = Number /\ ~t.faulty /\ Char(t.from + 1) \notin {"b", "x"} =>
    /\ IsDecimal(t.from, t.to)
    /\ \A j \in t.to + 1 .. Len(text) + 1 : ~IsDecimal(t.from, j)

RightLine(t) ==
  t.line = 1 + Newlines(1, IF t.type = String THEN t.to ELSE t.from)

LEMMA RightDefs ==
  /\ LongestSymbol <=> \A t \in Tokens : RightSymbol(t)
  /\ StringsEndAtTheirQuote <=> \A t \in Tokens : RightString(t)
  /\ NumbersAreLongest <=> \A t \in Tokens : RightNumber(t)
  /\ LinesCounted <=> \A t \in Tokens : RightLine(t)
<1>1. LongestSymbol <=> \A t \in Tokens : RightSymbol(t)
  BY DEF LongestSymbol, RightSymbol
<1>2. StringsEndAtTheirQuote <=> \A t \in Tokens : RightString(t)
  BY Zenon DEF StringsEndAtTheirQuote, RightString
<1>3. NumbersAreLongest <=> \A t \in Tokens : RightNumber(t)
  BY DEF NumbersAreLongest, RightNumber
<1>4. LinesCounted <=> \A t \in Tokens : RightLine(t)
  BY DEF LinesCounted, RightLine
<1>5. QED
  BY <1>1, <1>2, <1>3, <1>4

LEMMA SameText ==
  ASSUME text' = text, NEW t
  PROVE  /\ RightSymbol(t)' <=> RightSymbol(t)
         /\ RightString(t)' <=> RightString(t)
         /\ RightNumber(t)' <=> RightNumber(t)
         /\ RightLine(t)' <=> RightLine(t)
<1>1. RightSymbol(t)' <=> RightSymbol(t)
  BY DEF RightSymbol, Char
<1>s. \A i, k : Slashes(i, k)' = Slashes(i, k)
  BY DEF Slashes
<1>2. RightString(t)' <=> RightString(t)
  BY <1>s DEF RightString, Closes
<1>3. RightNumber(t)' <=> RightNumber(t)
  BY DEF RightNumber, IsDecimal, Digits, Fraction, Exponent, Char
<1>4. RightLine(t)' <=> RightLine(t)
  BY DEF RightLine, Newlines, Char
<1>5. QED
  BY <1>1, <1>2, <1>3, <1>4

-----------------------------------------------------------------------------
(* Numbers and intervals. *)

(* A set of natural numbers that is not empty has a least one. *)
LEMMA LeastNat ==
  ASSUME NEW S \in SUBSET Nat, NEW m \in S
  PROVE  \E n \in S : \A k \in S : n <= k
<1>1. IsWellFoundedOn(OpToRel(<, Nat), Nat)
  BY NatLessThanWellFounded
<1>2. PICK n \in S : \A k \in S : ~(<<k, n>> \in OpToRel(<, Nat))
  BY <1>1, WFMin, Zenon
<1>3. ASSUME NEW k \in S
      PROVE  n <= k
  <2>1. ~(<<k, n>> \in OpToRel(<, Nat))
    BY <1>2, Zenon
  <2>2. k \in Nat /\ n \in Nat
    OBVIOUS
  <2>3. QED
    BY <2>1, <2>2 DEF OpToRel
<1>4. QED
  BY <1>3

(* What holds of a number if it holds of those above holds of an interval. *)
LEMMA Downward ==
  ASSUME NEW n \in Nat, NEW S,
         \A j \in 1 .. n : (\A k \in j + 1 .. n : k \in S) => j \in S
  PROVE  \A j \in 1 .. n : j \in S
<1>1. SUFFICES ASSUME NEW i \in 1 .. n, i \notin S
               PROVE  FALSE
  OBVIOUS
<1> DEFINE T == {n - j : j \in {k \in 1 .. n : k \notin S}}
<1>2. T \in SUBSET Nat /\ n - i \in T
  BY <1>1
<1>3. PICK d \in T : \A e \in T : d <= e
  BY <1>2, LeastNat
<1>4. PICK j \in 1 .. n : j \notin S /\ d = n - j
  BY <1>3
<1>5. ASSUME NEW k \in j + 1 .. n
      PROVE  k \in S
  <2>1. n - k < d
    BY <1>4
  <2>2. n - k \notin T
    <3>1. n - k \in Int /\ d \in Int
      BY <1>2
    <3>2. \A e \in T : d <= e
      BY <1>3
    <3> HIDE DEF T
    <3>3. QED
      BY <2>1, <3>1, <3>2
  <2>3. k \in 1 .. n
    BY <1>4
  <2>4. QED
    BY <2>2, <2>3
<1>6. QED
  BY <1>4, <1>5

-----------------------------------------------------------------------------
(* Characters. *)

LEMMA Characters ==
  ASSUME text \in Texts
  PROVE  /\ text \in Seq(STRING) /\ Len(text) \in Nat
         /\ \A i \in 1 .. Len(text) : text[i] \in STRING /\ text[i] # NUL /\ Char(i) = text[i]
         /\ \A i \in Int : i > Len(text) => Char(i) = NUL
<1>1. text \in Seq(STRING \ {NUL})
  BY CharactersAssumption
<1>2. QED
  BY <1>1 DEF Char

(* A loop over the characters of a set stops at the first that is not of it. *)
LEMMA EndOfFound ==
  ASSUME text \in Texts, NEW i \in 1 .. Len(text) + 1, NEW set, NUL \notin set
  PROVE  /\ EndOf(i, set) \in i .. Len(text) + 1
         /\ Char(EndOf(i, set)) \notin set
         /\ \A k \in i .. EndOf(i, set) - 1 : Char(k) \in set
<1> DEFINE S == {j \in i .. Len(text) + 1 : Char(j) \notin set}
<1>1. Len(text) \in Nat /\ S \in SUBSET Nat /\ Len(text) + 1 \in S
  BY Characters
<1>2. PICK j \in S : \A k \in S : j <= k
  BY <1>1, LeastNat
<1>3. /\ j \in i .. Len(text) + 1
      /\ Char(j) \notin set /\ \A k \in i .. j - 1 : Char(k) \in set
  BY <1>1, <1>2
<1>4. QED
  BY <1>3 DEF EndOf

(* One that begins with a character of the set does stop behind it. *)
LEMMA EndOfMoves ==
  ASSUME text \in Texts, NEW i \in 1 .. Len(text) + 1, NEW set, NUL \notin set, Char(i) \in set
  PROVE  EndOf(i, set) \in i + 1 .. Len(text) + 1
BY EndOfFound, Characters

-----------------------------------------------------------------------------
(* Blanks and comments. *)

CommentEnd(j) ==
  LET ends == {k \in j .. Len(text) + 1 : Char(k) \in {"\n", NUL}}
  IN  CHOOSE k \in ends : \A l \in ends : k <= l

LEMMA CommentEnds ==
  ASSUME text \in Texts, NEW j \in 1 .. Len(text) + 1, Char(j) = "#"
  PROVE  /\ CommentEnd(j) \in j + 1 .. Len(text) + 1
         /\ \A k \in j .. CommentEnd(j) - 1 : Char(k) # "\n"
<1> DEFINE S == {k \in j .. Len(text) + 1 : Char(k) \in {"\n", NUL}}
<1>1. Len(text) \in Nat /\ S \in SUBSET Nat /\ Len(text) + 1 \in S
  BY Characters
<1>2. \E k \in S : \A l \in S : k <= l
  BY <1>1, LeastNat
<1>3. CommentEnd(j) \in S /\ \A l \in S : CommentEnd(j) <= l
  BY <1>2 DEF CommentEnd
<1>4. CommentEnd(j) # j
  BY <1>3 DEF NUL
<1>5. QED
  BY <1>1, <1>3, <1>4

SkipFrom(f, j) ==
  CASE Char(j) \in Blank -> f[EndOf(j, Blank)]
    [] Char(j) = "#"     -> f[CommentEnd(j)]
    [] OTHER             -> j

Skipping == CHOOSE f : f = [j \in 1 .. Len(text) + 1 |-> SkipFrom(f, j)]

LEMMA TokenStartIs == \A i : TokenStart(i) = Skipping[i]
BY Zenon DEF TokenStart, Skipping, SkipFrom, CommentEnd

LEMMA SkippingIs ==
  ASSUME text \in Texts
  PROVE  Skipping = [j \in 1 .. Len(text) + 1 |-> SkipFrom(Skipping, j)]
<1> DEFINE n == Len(text) + 1
           Part(i) == \E f : f = [j \in i .. n |-> SkipFrom(f, j)]
           S == {i \in 1 .. n : Part(i)}
<1>1. n \in Nat /\ n >= 1
  BY Characters
<1>2. ASSUME NEW j \in 1 .. n, NEW f, NEW g, \A k \in j + 1 .. n : f[k] = g[k]
      PROVE  SkipFrom(f, j) = SkipFrom(g, j)
  <2>1. NUL \notin Blank
    BY DEF NUL, Blank
  <2>2. CASE Char(j) \in Blank
    <3>1. EndOf(j, Blank) \in j + 1 .. n
      BY <2>1, <2>2, EndOfMoves
    <3>2. f[EndOf(j, Blank)] = g[EndOf(j, Blank)]
      BY <1>2, <3>1
    <3>3. QED
      BY <2>2, <3>2 DEF SkipFrom
  <2>3. CASE Char(j) \notin Blank /\ Char(j) = "#"
    <3>1. CommentEnd(j) \in j + 1 .. n
      BY <2>3, CommentEnds
    <3>2. QED
      BY <1>2, <2>3, <3>1 DEF SkipFrom
  <2>4. CASE Char(j) \notin Blank /\ Char(j) # "#"
    BY <2>4 DEF SkipFrom
  <2>5. QED
    BY <2>2, <2>3, <2>4
<1>3. ASSUME NEW i \in 1 .. n, \A k \in i + 1 .. n : k \in S
      PROVE  i \in S
  <2>1. PICK f : f = [j \in i + 1 .. n |-> SkipFrom(f, j)]
    <3>1. CASE i = n
      <4> WITNESS [j \in i + 1 .. n |-> 0]
      <4> QED
        BY <1>1, <3>1
    <3>2. CASE i # n
      <4>1. i + 1 \in S
        BY <1>1, <1>3, <3>2
      <4>2. QED
        BY <4>1
    <3>3. QED
      BY <3>1, <3>2
  <2> DEFINE g == [j \in i .. n |-> IF j = i THEN SkipFrom(f, i) ELSE f[j]]
  <2>2. ASSUME NEW j \in i .. n
        PROVE  g[j] = SkipFrom(g, j)
    <3>1. \A k \in j + 1 .. n : g[k] = f[k]
      BY <1>1
    <3>2. SkipFrom(g, j) = SkipFrom(f, j)
      BY <1>1, <1>2, <3>1
    <3>3. CASE j = i
      BY <3>2, <3>3
    <3>4. CASE j # i
      <4>1. j \in i + 1 .. n
        BY <3>4
      <4>2. f[j] = SkipFrom(f, j)
        BY <2>1, <4>1
      <4>3. QED
        BY <3>2, <3>4, <4>2
    <3>5. QED
      BY <3>3, <3>4
  <2>3. g = [j \in i .. n |-> SkipFrom(g, j)]
    BY <2>2
  <2> HIDE DEF g
  <2>4. QED
    BY <2>3
<1>4. 1 \in S
  <2> HIDE DEF S
  <2>1. \A j \in 1 .. n : j \in S
    BY <1>1, <1>3, Downward
  <2>2. QED
    BY <1>1, <2>1
<1>5. \E f : f = [j \in 1 .. n |-> SkipFrom(f, j)]
  BY <1>4
<1>6. QED
  BY <1>5 DEF Skipping

(* What lies before a token is blank or in a comment, and the token begins   *)
(* behind it.                                                                *)
LEMMA TokenStartFound ==
  ASSUME text \in Texts, NEW i \in 1 .. Len(text) + 1
  PROVE  /\ TokenStart(i) \in i .. Len(text) + 1
         /\ Char(TokenStart(i)) \notin Blank \cup {"#"}
         /\ Ignored(i, TokenStart(i))
<1> DEFINE n == Len(text) + 1
           Found(j) == /\ Skipping[j] \in j .. n
                       /\ Char(Skipping[j]) \notin Blank \cup {"#"}
                       /\ Ignored(j, Skipping[j])
           S == {j \in 1 .. n : Found(j)}
<1>1. n \in Nat /\ n >= 1 /\ \A k \in 1 .. Len(text) : Char(k) = text[k]
  BY Characters
<1>2. ASSUME NEW j \in 1 .. n, \A k \in j + 1 .. n : k \in S
      PROVE  Found(j)
  <2>0. Skipping[j] = SkipFrom(Skipping, j)
    BY SkippingIs
  <2>1. CASE Char(j) \in Blank
    <3>0. SkipFrom(Skipping, j) = Skipping[EndOf(j, Blank)]
      BY <2>1 DEF SkipFrom, Blank
    <3> DEFINE e == EndOf(j, Blank)
    <3>1. NUL \notin Blank
      BY DEF NUL, Blank
    <3>2. e \in j + 1 .. n /\ \A k \in j .. e - 1 : Char(k) \in Blank
      BY <2>1, <3>1, EndOfMoves, EndOfFound
    <3>3. Skipping[j] = Skipping[e]
      BY <2>0, <3>0
    <3> HIDE DEF e
    <3>4. Found(e)
      BY <1>2, <3>2
    <3>5. Ignored(j, Skipping[e])
      BY <1>1, <3>2, <3>4 DEF Ignored
    <3>6. QED
      BY <1>1, <3>2, <3>3, <3>4, <3>5
  <2>2. CASE Char(j) \notin Blank /\ Char(j) = "#"
    <3> DEFINE e == CommentEnd(j)
    <3>2. e \in j + 1 .. n /\ \A k \in j .. e - 1 : Char(k) # "\n"
      BY <2>2, CommentEnds
    <3>3. Skipping[j] = Skipping[e]
      BY <2>0, <2>2 DEF SkipFrom
    <3> HIDE DEF e
    <3>4. Found(e)
      BY <1>2, <3>2
    <3>5. Ignored(j, Skipping[e])
      BY <1>1, <2>2, <3>2, <3>4 DEF Ignored
    <3>6. QED
      BY <1>1, <3>2, <3>3, <3>4, <3>5
  <2>3. CASE Char(j) \notin Blank /\ Char(j) # "#"
    <3>1. Skipping[j] = j
      BY <2>0, <2>3 DEF SkipFrom
    <3>2. QED
      BY <1>1, <2>3, <3>1 DEF Ignored
  <2>4. QED
    BY <2>1, <2>2, <2>3
<1>3. Found(i)
  <2>1. \A j \in 1 .. n : (\A k \in j + 1 .. n : k \in S) => j \in S
    BY <1>2
  <2> HIDE DEF S
  <2>2. \A j \in 1 .. n : j \in S
    BY <1>1, <2>1, Downward
  <2>3. QED
    BY <2>2 DEF S
<1>4. QED
  BY <1>3, TokenStartIs

-----------------------------------------------------------------------------
(* Strings. *)

(* The backslashes right before a character. *)
Run(s, k, m) == /\ m \in 0 .. k - s
                /\ \A l \in k - m .. k - 1 : text[l] = "\\"
                /\ k - m = s \/ text[k - m - 1] # "\\"

LEMMA RunsAreUnique ==
  ASSUME NEW s \in Nat, NEW k \in Nat, NEW m, NEW h, Run(s, k, m), Run(s, k, h)
  PROVE  m = h
<1>1. ASSUME NEW a, NEW b, Run(s, k, a), Run(s, k, b), a < b
      PROVE  FALSE
  <2>1. a \in 0 .. k - s /\ b \in 0 .. k - s
    BY <1>1 DEF Run
  <2>2. k - a - 1 \in k - b .. k - 1
    BY <1>1, <2>1
  <2>3. text[k - a - 1] = "\\"
    BY <1>1, <2>2 DEF Run
  <2>4. k - a # s
    BY <1>1, <2>1
  <2>5. QED
    BY <1>1, <2>3, <2>4 DEF Run
<1>2. m \in Int /\ h \in Int
  BY DEF Run
<1>3. QED
  BY <1>1, <1>2

LEMMA SlashesIs ==
  ASSUME NEW s \in Nat, NEW k \in Nat, NEW m, Run(s, k, m)
  PROVE  Slashes(s, k) = m
<1>1. Run(s, k, m)
  OBVIOUS
<1>2. \A h : Run(s, k, h) => h = m
  BY RunsAreUnique
<1>3. Slashes(s, k) = CHOOSE h : Run(s, k, h)
  BY Zenon DEF Slashes, Run
<1>4. QED
  BY <1>1, <1>2, <1>3

LEMMA NextRun ==
  ASSUME NEW s \in Nat, NEW k \in Nat, s <= k, NEW m, Run(s, k, m)
  PROVE  Run(s, k + 1, IF text[k] = "\\" THEN m + 1 ELSE 0)
<1>1. m \in 0 .. k - s
  BY DEF Run
<1>2. CASE text[k] = "\\"
  <2>1. \A l \in k + 1 - (m + 1) .. k + 1 - 1 : text[l] = "\\"
    BY <1>1, <1>2 DEF Run
  <2>2. k + 1 - (m + 1) = k - m
    BY <1>1
  <2>3. QED
    BY <1>1, <1>2, <2>1, <2>2 DEF Run
<1>3. CASE text[k] # "\\"
  BY <1>1, <1>3 DEF Run
<1>4. QED
  BY <1>2, <1>3

LEMMA RunsExist ==
  ASSUME NEW s \in Nat, NEW k \in Nat, s <= k
  PROVE  \E m : Run(s, k, m)
<1> DEFINE Bad == {h \in Nat : s <= h /\ ~ \E m : Run(s, h, m)}
<1>1. SUFFICES ASSUME k \in Bad
               PROVE  FALSE
  OBVIOUS
<1>2. PICK h \in Bad : \A g \in Bad : h <= g
  <2>1. Bad \in SUBSET Nat
    OBVIOUS
  <2> HIDE DEF Bad
  <2>2. QED
    BY <1>1, <2>1, LeastNat
<1>3. h # s
  <2>1. Run(s, s, 0)
    BY DEF Run
  <2>2. QED
    BY <2>1
<1>4. h - 1 \in Nat /\ s <= h - 1 /\ h - 1 \notin Bad
  BY <1>2, <1>3
<1>5. PICK m : Run(s, h - 1, m)
  BY <1>4
<1>6. \E g : Run(s, h - 1 + 1, g)
  BY <1>4, <1>5, NextRun
<1>7. h - 1 + 1 = h
  OBVIOUS
<1>8. QED
  BY <1>6, <1>7

(* Whether the character at k is not escaped, in a string from s on. *)
Clean(s, k) == Slashes(s, k) % 2 = 0

LEMMA CleanNext ==
  ASSUME NEW s \in Nat
  PROVE  /\ Clean(s, s)
         /\ \A k \in Nat : s <= k =>
              /\ Slashes(s, k) \in Nat
              /\ Clean(s, k + 1) <=> text[k] # "\\" \/ ~Clean(s, k)
<1>1. Clean(s, s)
  <2>1. Run(s, s, 0)
    BY DEF Run
  <2>2. Slashes(s, s) = 0
    BY <2>1, SlashesIs
  <2>3. QED
    BY <2>2 DEF Clean
<1>2. ASSUME NEW k \in Nat, s <= k
      PROVE  /\ Slashes(s, k) \in Nat
             /\ Clean(s, k + 1) <=> text[k] # "\\" \/ ~Clean(s, k)
  <2>1. PICK m : Run(s, k, m)
    BY <1>2, RunsExist
  <2>2. Slashes(s, k) = m /\ m \in Nat
    BY <2>1, SlashesIs DEF Run
  <2>3. Slashes(s, k + 1) = IF text[k] = "\\" THEN m + 1 ELSE 0
    BY <1>2, <2>1, NextRun, SlashesIs
  <2>4. QED
    BY <2>2, <2>3 DEF Clean
<1>3. QED
  BY <1>1, <1>2

EatFrom(quote, f, j) ==
  CASE j = Len(text) + 2 -> [to |-> j, faulty |-> TRUE]
    [] Char(j) = quote   -> [to |-> j + 1, faulty |-> FALSE]
    [] Char(j) = NUL     -> [to |-> j, faulty |-> TRUE]
    [] Char(j) = "\\" /\ Char(j) # quote ->
         [f[j + 2] EXCEPT !.faulty = @ \/ Char(j + 1) \notin Escape]
    [] OTHER -> f[j + 1]

Eating(quote) == CHOOSE f : f = [j \in 1 .. Len(text) + 2 |-> EatFrom(quote, f, j)]

LEMMA StringEndIs == \A i, quote : StringEnd(i, quote) = Eating(quote)[i]
BY Zenon DEF StringEnd, Eating, EatFrom

Quote == {"\"", "'"}
Position == 1 .. Len(text) + 2

LEMMA EatFromIsLocal ==
  ASSUME text \in Texts, NEW quote \in Quote, NEW j \in Position, NEW f, NEW g,
         \A k \in j + 1 .. Len(text) + 2 : f[k] = g[k]
  PROVE  EatFrom(quote, f, j) = EatFrom(quote, g, j)
<1>0. Len(text) \in Nat /\ \A i \in Int : i > Len(text) => Char(i) = NUL
  BY Characters
<1>1. CASE j = Len(text) + 2 \/ Char(j) = quote \/ Char(j) = NUL
  <2>1. quote # NUL /\ quote # "\\"
    BY DEF Quote, NUL
  <2>2. j = Len(text) + 2 => Char(j) = NUL
    BY <1>0
  <2>3. QED
    BY <1>1, <2>1, <2>2 DEF EatFrom, NUL
<1>2. CASE ~(j = Len(text) + 2 \/ Char(j) = quote \/ Char(j) = NUL)
  <2>1. j \in 1 .. Len(text)
    BY <1>0, <1>2 DEF Position
  <2>2. f[j + 1] = g[j + 1] /\ f[j + 2] = g[j + 2]
    BY <1>0, <2>1
  <2>3. QED
    BY <1>2, <2>2 DEF EatFrom
<1>3. QED
  BY <1>1, <1>2

LEMMA EatingIs ==
  ASSUME text \in Texts, NEW quote \in Quote
  PROVE  Eating(quote) = [j \in Position |-> EatFrom(quote, Eating(quote), j)]
<1> DEFINE n == Len(text) + 2
           S == {i \in 1 .. n : \E f : f = [j \in i .. n |-> EatFrom(quote, f, j)]}
<1>1. n \in Nat /\ n >= 1
  BY Characters
<1>2. ASSUME NEW j \in 1 .. n, NEW f, NEW g, \A k \in j + 1 .. n : f[k] = g[k]
      PROVE  EatFrom(quote, f, j) = EatFrom(quote, g, j)
  BY <1>2, EatFromIsLocal DEF Position
<1>3. ASSUME NEW i \in 1 .. n, \A k \in i + 1 .. n : k \in S
      PROVE  i \in S
  <2>1. PICK f : f = [j \in i + 1 .. n |-> EatFrom(quote, f, j)]
    <3>1. CASE i = n
      <4> WITNESS [j \in i + 1 .. n |-> 0]
      <4> QED
        BY <1>1, <3>1
    <3>2. CASE i # n
      <4>1. i + 1 \in S
        BY <1>1, <1>3, <3>2
      <4>2. QED
        BY <4>1
    <3>3. QED
      BY <3>1, <3>2
  <2> DEFINE g == [j \in i .. n |-> IF j = i THEN EatFrom(quote, f, i) ELSE f[j]]
  <2>2. ASSUME NEW j \in i .. n
        PROVE  g[j] = EatFrom(quote, g, j)
    <3>1. \A k \in j + 1 .. n : g[k] = f[k]
      BY <1>1
    <3>2. EatFrom(quote, g, j) = EatFrom(quote, f, j)
      BY <1>1, <1>2, <3>1
    <3>3. CASE j = i
      BY <3>2, <3>3
    <3>4. CASE j # i
      <4>1. j \in i + 1 .. n
        BY <3>4
      <4>2. f[j] = EatFrom(quote, f, j)
        BY <2>1, <4>1
      <4>3. QED
        BY <3>2, <3>4, <4>2
    <3>5. QED
      BY <3>3, <3>4
  <2>3. g = [j \in i .. n |-> EatFrom(quote, g, j)]
    BY <2>2
  <2> HIDE DEF g
  <2>4. QED
    BY <2>3
<1>4. 1 \in S
  <2> HIDE DEF S
  <2>1. \A j \in 1 .. n : j \in S
    BY <1>1, <1>3, Downward
  <2>2. QED
    BY <1>1, <2>1
<1>5. \E f : f = [j \in 1 .. n |-> EatFrom(quote, f, j)]
  BY <1>4
<1>6. QED
  BY <1>5 DEF Eating, Position

(* Where the quote is that ends a string from s on, for a reader at j. *)
Closer(s, quote, k) == text[k] = quote /\ Clean(s, k)
Ended(s, quote, j, to) == to - 1 \in j .. Len(text) /\ Closer(s, quote, to - 1)
BadEscape(s, j, to) == \E k \in j .. to - 1 : ~Clean(s, k) /\ text[k] \notin Escape

ReadsString(s, quote, j, r) ==
  /\ \A k \in j .. Len(text) : Closer(s, quote, k) => r.to <= k + 1
  /\ \/ Ended(s, quote, j, r.to)
     \/ r.to = Len(text) + 1 /\ \A k \in j .. Len(text) : ~Closer(s, quote, k)
  /\ r.faulty <=> ~Ended(s, quote, j, r.to) \/ BadEscape(s, j, r.to)

(* eatString() goes on to the first quote that is not escaped. *)
LEMMA EatingFound ==
  ASSUME text \in Texts, NEW quote \in Quote, NEW s \in 1 .. Len(text) + 1, NEW i \in Position
  PROVE  /\ Eating(quote)[i] \in [to : i .. Len(text) + 2, faulty : BOOLEAN]
         /\ s <= i /\ Clean(s, i) /\ Eating(quote)[i].to <= Len(text) + 1 =>
              ReadsString(s, quote, i, Eating(quote)[i])
<1> DEFINE n == Len(text) + 2
           r(j) == Eating(quote)[j]
           Found(j) ==
             /\ r(j) \in [to : j .. n, faulty : BOOLEAN]
             /\ s <= j /\ Clean(s, j) /\ r(j).to <= n - 1 => ReadsString(s, quote, j, r(j))
           S == {j \in 1 .. n : Found(j)}
<1>1. /\ n \in Nat /\ n >= 2 /\ Len(text) = n - 2 /\ s \in Nat
      /\ \A k \in 1 .. n - 2 : Char(k) = text[k] /\ text[k] # NUL
      /\ \A k \in Int : k > n - 2 => Char(k) = NUL
  BY Characters
<1>q. quote # NUL /\ quote # "\\"
  BY DEF Quote, NUL
<1>2. ASSUME NEW j \in 1 .. n, \A k \in j + 1 .. n : k \in S
      PROVE  Found(j)
  <2>0. r(j) = EatFrom(quote, Eating(quote), j)
    BY EatingIs DEF Position
  <2>1. CASE j = n
    <3>1. r(j) = [to |-> j, faulty |-> TRUE]
      BY <1>1, <1>q, <2>0, <2>1 DEF EatFrom, NUL
    <3>2. QED
      BY <1>1, <2>1, <3>1
  <2>2. CASE j # n /\ Char(j) = quote
    <3>1. r(j) = [to |-> j + 1, faulty |-> FALSE]
      BY <1>q, <2>0, <2>2 DEF EatFrom
    <3>2. j <= n - 2 /\ text[j] = quote
      BY <1>1, <1>q, <2>2
    <3>3. ASSUME s <= j, Clean(s, j)
          PROVE  ReadsString(s, quote, j, r(j))
      <4>1. Ended(s, quote, j, j + 1)
        BY <1>1, <3>2, <3>3 DEF Ended, Closer
      <4>2. ~BadEscape(s, j, j + 1)
        BY <1>1, <3>3 DEF BadEscape
      <4>3. QED
        BY <1>1, <3>1, <4>1, <4>2 DEF ReadsString
    <3>4. QED
      BY <1>1, <3>1, <3>2, <3>3
  <2>3. CASE j # n /\ Char(j) = NUL
    <3>1. r(j) = [to |-> j, faulty |-> TRUE]
      BY <1>q, <2>0, <2>3 DEF EatFrom, NUL
    <3>2. j = n - 1
      BY <1>1, <2>3
    <3>3. ReadsString(s, quote, j, r(j))
      BY <1>1, <3>1, <3>2 DEF ReadsString, Ended
    <3>4. QED
      BY <1>1, <3>1, <3>2, <3>3
  <2>4. CASE j # n /\ Char(j) = "\\"
    <3>1. j <= n - 2 /\ text[j] = "\\"
      BY <1>1, <2>4 DEF NUL
    <3>2. r(j) = [r(j + 2) EXCEPT !.faulty = @ \/ Char(j + 1) \notin Escape]
      BY <1>q, <2>0, <2>4 DEF EatFrom, NUL
    <3>3. Found(j + 2)
      BY <1>1, <1>2, <3>1
    <3>4. /\ r(j).to = r(j + 2).to
          /\ r(j).faulty <=> r(j + 2).faulty \/ Char(j + 1) \notin Escape
          /\ r(j) \in [to : j + 2 .. n, faulty : BOOLEAN]
      BY <3>2, <3>3
    <3>5. ASSUME s <= j, Clean(s, j), r(j).to <= n - 1
          PROVE  ReadsString(s, quote, j, r(j))
      <4>1. ~Clean(s, j + 1) /\ Clean(s, j + 2)
        <5>1. s \in Nat /\ j \in Nat /\ j + 1 \in Nat /\ s <= j + 1
          BY <1>1, <3>5
        <5>2. Clean(s, j + 1) <=> text[j] # "\\" \/ ~Clean(s, j)
          BY <3>5, <5>1, CleanNext
        <5>3. ~Clean(s, j + 1)
          BY <3>1, <3>5, <5>2
        <5>4. Clean(s, j + 1 + 1)
          BY <5>1, <5>3, CleanNext
        <5>5. j + 1 + 1 = j + 2
          BY <5>1
        <5>6. QED
          BY <5>3, <5>4, <5>5
      <4>2. j + 1 <= n - 2 /\ Char(j + 1) = text[j + 1]
        BY <1>1, <3>1, <3>4, <3>5
      <4>3. ReadsString(s, quote, j + 2, r(j + 2))
        BY <3>3, <3>4, <3>5, <4>1
      <4>4. ~Closer(s, quote, j) /\ ~Closer(s, quote, j + 1)
        BY <1>q, <3>1, <4>1 DEF Closer
      <4>5. \A k \in j .. n - 2 : Closer(s, quote, k) => k \in j + 2 .. n - 2
        BY <1>1, <4>4
      <4>6. Ended(s, quote, j, r(j).to) <=> Ended(s, quote, j + 2, r(j + 2).to)
        BY <1>1, <3>4, <4>5 DEF Ended
      <4>7. BadEscape(s, j, r(j).to) <=>
              BadEscape(s, j + 2, r(j + 2).to) \/ text[j + 1] \notin Escape
        <5>1. \A k \in j .. r(j).to - 1 : k = j \/ k = j + 1 \/ k \in j + 2 .. r(j).to - 1
          BY <3>4
        <5>2. j + 1 \in j .. r(j).to - 1
          BY <3>4
        <5>3. QED
          BY <3>4, <3>5, <4>1, <5>1, <5>2 DEF BadEscape
      <4>8. QED
        BY <1>1, <3>4, <4>2, <4>3, <4>5, <4>6, <4>7 DEF ReadsString
    <3>6. QED
      BY <3>4, <3>5
  <2>5. CASE j # n /\ Char(j) # quote /\ Char(j) # NUL /\ Char(j) # "\\"
    <3>1. j <= n - 2 /\ text[j] # "\\" /\ text[j] # quote
      BY <1>1, <2>5
    <3>2. r(j) = r(j + 1)
      BY <2>0, <2>5 DEF EatFrom
    <3>3. Found(j + 1)
      BY <1>1, <1>2, <3>1
    <3>4. r(j) \in [to : j + 1 .. n, faulty : BOOLEAN]
      BY <3>2, <3>3
    <3>5. ASSUME s <= j, Clean(s, j), r(j).to <= n - 1
          PROVE  ReadsString(s, quote, j, r(j))
      <4>1. Clean(s, j + 1)
        <5>1. s \in Nat /\ j \in Nat
          BY <1>1
        <5>2. Clean(s, j + 1) <=> text[j] # "\\" \/ ~Clean(s, j)
          BY <3>5, <5>1, CleanNext
        <5>3. QED
          BY <3>1, <5>2
      <4>2. ReadsString(s, quote, j + 1, r(j))
        BY <3>2, <3>3, <3>5, <4>1
      <4>3. \A k \in j .. n - 2 : Closer(s, quote, k) => k \in j + 1 .. n - 2
        BY <1>1, <3>1 DEF Closer
      <4>4. Ended(s, quote, j, r(j).to) <=> Ended(s, quote, j + 1, r(j).to)
        BY <1>1, <3>4, <4>3 DEF Ended
      <4>5. BadEscape(s, j, r(j).to) <=> BadEscape(s, j + 1, r(j).to)
        BY <3>4, <3>5 DEF BadEscape
      <4>6. QED
        BY <1>1, <3>4, <4>2, <4>3, <4>4, <4>5 DEF ReadsString
    <3>6. QED
      BY <3>4, <3>5
  <2>6. QED
    BY <2>1, <2>2, <2>3, <2>4, <2>5
<1>3. Found(i)
  <2>1. \A j \in 1 .. n : (\A k \in j + 1 .. n : k \in S) => j \in S
    BY <1>2
  <2> HIDE DEF S
  <2>2. \A j \in 1 .. n : j \in S
    BY <1>1, <2>1, Downward
  <2>3. QED
    BY <2>2 DEF S, Position
<1>4. QED
  BY <1>1, <1>3

-----------------------------------------------------------------------------
(* Numbers. *)

NoNewline(i, j) == \A k \in i .. j - 1 : Char(k) # "\n"

LEMMA NoNewlineJoins ==
  ASSUME NEW i \in Int, NEW j \in Int, NEW k \in Int, NoNewline(i, j), NoNewline(j, k)
  PROVE  NoNewline(i, k)
BY DEF NoNewline

LEMMA EndOfIsOneLine ==
  ASSUME text \in Texts, NEW i \in 1 .. Len(text) + 1, NEW set, NUL \notin set, "\n" \notin set
  PROVE  NoNewline(i, EndOf(i, set))
BY EndOfFound DEF NoNewline

LEMMA DigitSets ==
  /\ NUL \notin Digit /\ NUL \notin BinChar /\ NUL \notin HexChar
  /\ "\n" \notin Digit /\ "\n" \notin BinChar /\ "\n" \notin HexChar
  /\ NUL \notin Letter \cup Digit /\ "\n" \notin Letter \cup Digit
  /\ {".", "e", "E", "+", "-", "b", "x"} \cap Digit = {}
BY DEF NUL, Digit, BinChar, HexChar, Letter

LEMMA BasedEndFound ==
  ASSUME text \in Texts, NEW i \in 1 .. Len(text) + 1, NEW start \in 1 .. i,
         NEW set, NUL \notin set, "\n" \notin set, NEW max \in Nat, i <= start + max + 1
  PROVE  /\ BasedEnd(start, i, set, max) \in [to : i .. Len(text) + 1, faulty : BOOLEAN]
         /\ NoNewline(i, BasedEnd(start, i, set, max).to)
<1> DEFINE end == EndOf(i, set)
<1>1. end \in i .. Len(text) + 1 /\ NoNewline(i, end) /\ Len(text) \in Nat
  BY EndOfFound, EndOfIsOneLine, Characters
<1> HIDE DEF end
<1>2. BasedEnd(start, i, set, max) = IF end - start > max
                                     THEN [to |-> start + max + 1, faulty |-> TRUE]
                                     ELSE [to |-> end, faulty |-> end = i]
  BY DEF BasedEnd, end
<1>3. CASE end - start > max
  BY <1>1, <1>2, <1>3 DEF NoNewline
<1>4. CASE ~(end - start > max)
  BY <1>1, <1>2, <1>4
<1>5. QED
  BY <1>3, <1>4

LEMMA FractionEndFound ==
  ASSUME text \in Texts, NEW i \in 1 .. Len(text) + 1
  PROVE  /\ FractionEnd(i) \in i .. Len(text) + 1
         /\ NoNewline(i, FractionEnd(i))
         /\ FractionEnd(i) # i => /\ Char(i) = "." /\ Char(i + 1) \in Digit
                                  /\ FractionEnd(i) = EndOf(i + 1, Digit)
         /\ Char(i) = "." /\ Char(i + 1) \in Digit =>
              i + 1 \in 1 .. Len(text) + 1 /\ FractionEnd(i) = EndOf(i + 1, Digit)
<1>1. CASE Char(i) = "." /\ Char(i + 1) \in Digit
  <2>1. i + 1 \in 1 .. Len(text) + 1
    BY <1>1, Characters, DigitSets
  <2>2. FractionEnd(i) = EndOf(i + 1, Digit)
    BY <1>1 DEF FractionEnd
  <2>3. EndOf(i + 1, Digit) \in i + 1 .. Len(text) + 1 /\ NoNewline(i + 1, EndOf(i + 1, Digit))
    BY <2>1, EndOfFound, EndOfIsOneLine, DigitSets
  <2>4. NoNewline(i, i + 1)
    BY <1>1 DEF NoNewline
  <2>5. NoNewline(i, EndOf(i + 1, Digit))
    BY <2>1, <2>3, <2>4, NoNewlineJoins
  <2>6. QED
    BY <1>1, <2>1, <2>2, <2>3, <2>5, Characters
<1>2. CASE ~(Char(i) = "." /\ Char(i + 1) \in Digit)
  BY <1>2, Characters DEF FractionEnd, NoNewline
<1>3. QED
  BY <1>1, <1>2

Sign(i) == IF Char(i + 1) \in {"+", "-"} THEN i + 2 ELSE i + 1

LEMMA ExponentEndFound ==
  ASSUME text \in Texts, NEW i \in 1 .. Len(text) + 1
  PROVE  /\ ExponentEnd(i) \in [to : i .. Len(text) + 1, faulty : BOOLEAN]
         /\ NoNewline(i, ExponentEnd(i).to)
         /\ Char(i) \notin {"e", "E"} => ExponentEnd(i).to = i /\ ~ExponentEnd(i).faulty
         /\ Char(i) \in {"e", "E"} =>
              /\ Sign(i) \in i + 1 .. Len(text) + 1
              /\ ExponentEnd(i).to = EndOf(Sign(i), Digit)
              /\ ExponentEnd(i).faulty <=> Char(Sign(i)) \notin Digit
<1>1. CASE Char(i) \notin {"e", "E"}
  BY <1>1, Characters DEF ExponentEnd, NoNewline
<1>2. CASE Char(i) \in {"e", "E"}
  <2>1. Sign(i) \in i + 1 .. Len(text) + 1
    BY <1>2, Characters DEF Sign, NUL
  <2>2. ExponentEnd(i) = [to |-> EndOf(Sign(i), Digit), faulty |-> Char(Sign(i)) \notin Digit]
    BY <1>2 DEF ExponentEnd, Sign
  <2>3. /\ EndOf(Sign(i), Digit) \in Sign(i) .. Len(text) + 1
        /\ NoNewline(Sign(i), EndOf(Sign(i), Digit))
    BY <2>1, EndOfFound, EndOfIsOneLine, DigitSets, Characters
  <2>4. NoNewline(i, Sign(i))
    BY <1>2 DEF NoNewline, Sign
  <2>5. NoNewline(i, EndOf(Sign(i), Digit))
    BY <2>1, <2>3, <2>4, NoNewlineJoins, Characters
  <2>6. /\ ExponentEnd(i).to = EndOf(Sign(i), Digit)
        /\ ExponentEnd(i).faulty = (Char(Sign(i)) \notin Digit)
    BY <2>2
  <2>7. ExponentEnd(i) \in [to : i .. Len(text) + 1, faulty : BOOLEAN]
    <3>1. EndOf(Sign(i), Digit) \in i .. Len(text) + 1
      BY <2>1, <2>3
    <3> HIDE DEF Sign
    <3>2. QED
      BY <2>2, <3>1
  <2>8. QED
    BY <1>2, <2>1, <2>5, <2>6, <2>7
<1>3. QED
  BY <1>1, <1>2

(* eatNumber() stays in its line. *)
LEMMA NumberEndFound ==
  ASSUME text \in Texts, NEW start \in 1 .. Len(text) + 1, NEW i \in start + 1 .. start + 2,
         i <= Len(text) + 1, NoNewline(start, i), Char(start) = "0" => i = start + 1
  PROVE  /\ NumberEnd(start, i) \in [to : i .. Len(text) + 1, faulty : BOOLEAN]
         /\ NoNewline(start, NumberEnd(start, i).to)
<1>0. Len(text) \in Nat /\ i \in 1 .. Len(text) + 1 /\ start \in Nat
  BY Characters
<1>1. CASE Char(start) = "0" /\ Char(i) \in {"b", "x"}
  <2>1. i + 1 \in 1 .. Len(text) + 1
    BY <1>0, <1>1, Characters DEF NUL
  <2>2. \E set \in {BinChar, HexChar}, max \in {BinMax, HexMax} :
          NumberEnd(start, i) = BasedEnd(start, i + 1, set, max)
    <3>1. CASE Char(i) = "b"
      <4>1. NumberEnd(start, i) = BasedEnd(start, i + 1, BinChar, BinMax)
        BY <1>1, <3>1 DEF NumberEnd
      <4>2. QED
        BY <4>1
    <3>2. CASE Char(i) = "x"
      <4>1. NumberEnd(start, i) = BasedEnd(start, i + 1, HexChar, HexMax)
        BY <1>1, <3>2 DEF NumberEnd
      <4>2. QED
        BY <4>1
    <3>3. QED
      BY <1>1, <3>1, <3>2
  <2>3. PICK set \in {BinChar, HexChar}, max \in {BinMax, HexMax} :
          NumberEnd(start, i) = BasedEnd(start, i + 1, set, max)
    BY <2>2
  <2>4. max \in Nat /\ i + 1 <= start + max + 1 /\ start \in 1 .. i + 1
    BY <1>0, LexerAssumption
  <2>5. NUL \notin set /\ "\n" \notin set
    BY DigitSets
  <2>6. /\ NumberEnd(start, i) \in [to : i + 1 .. Len(text) + 1, faulty : BOOLEAN]
        /\ NoNewline(i + 1, NumberEnd(start, i).to)
    <3>1. /\ BasedEnd(start, i + 1, set, max) \in [to : i + 1 .. Len(text) + 1, faulty : BOOLEAN]
          /\ NoNewline(i + 1, BasedEnd(start, i + 1, set, max).to)
      BY <2>1, <2>4, <2>5, BasedEndFound
    <3>2. QED
      BY <2>3, <3>1
  <2>7. NoNewline(i, i + 1)
    BY <1>1 DEF NoNewline
  <2>8. NoNewline(start, NumberEnd(start, i).to)
    BY <1>0, <2>6, <2>7, NoNewlineJoins
  <2>9. QED
    BY <1>0, <2>6, <2>8
<1>2. CASE ~(Char(start) = "0" /\ Char(i) \in {"b", "x"})
  <2> DEFINE p == EndOf(i, Digit)
             q == FractionEnd(p)
  <2>1. NumberEnd(start, i) = ExponentEnd(q)
    BY <1>2 DEF NumberEnd
  <2>2. p \in i .. Len(text) + 1 /\ NoNewline(i, p)
    BY <1>0, EndOfFound, EndOfIsOneLine, DigitSets
  <2> HIDE DEF p
  <2>3. q \in p .. Len(text) + 1 /\ NoNewline(p, q)
    BY <1>0, <2>2, FractionEndFound
  <2> HIDE DEF q
  <2>4. /\ NumberEnd(start, i) \in [to : q .. Len(text) + 1, faulty : BOOLEAN]
        /\ NoNewline(q, NumberEnd(start, i).to)
    BY <1>0, <2>1, <2>2, <2>3, ExponentEndFound
  <2>5. NoNewline(start, q)
    BY <1>0, <2>2, <2>3, NoNewlineJoins
  <2>6. NoNewline(start, NumberEnd(start, i).to)
    BY <1>0, <2>2, <2>3, <2>4, <2>5, NoNewlineJoins
  <2>7. QED
    BY <1>0, <2>2, <2>3, <2>4, <2>6
<1>3. QED
  BY <1>1, <1>2

(* A run of digits that ends at p is no longer than one that could not.      *)
LEMMA DigitsEnd ==
  ASSUME text \in Texts, NEW i \in 1 .. Len(text) + 1, NEW j \in i .. Len(text) + 1,
         \A k \in i .. j - 1 : text[k] \in Digit
  PROVE  /\ j <= EndOf(i, Digit)
         /\ j < EndOf(i, Digit) => Char(j) \in Digit
<1>1. /\ Len(text) \in Nat /\ \A k \in 1 .. Len(text) : Char(k) = text[k]
      /\ EndOf(i, Digit) \in i .. Len(text) + 1
      /\ Char(EndOf(i, Digit)) \notin Digit
      /\ \A k \in i .. EndOf(i, Digit) - 1 : Char(k) \in Digit
  BY Characters, EndOfFound, DigitSets
<1>2. QED
  BY <1>1

(* eatNumber() goes on as far as what it ate is a decimal literal. *)
LEMMA DecimalsAreLongest ==
  ASSUME text \in Texts, NEW start \in 1 .. Len(text) + 1, NEW i \in 1 .. Len(text) + 1,
         \/ Char(start) \in Digit /\ i = start + 1
         \/ Char(start) = "." /\ Char(start + 1) \in Digit /\ i = start + 2,
         ~(Char(start) = "0" /\ Char(i) \in {"b", "x"}),
         ~NumberEnd(start, i).faulty
  PROVE  /\ IsDecimal(start, NumberEnd(start, i).to)
         /\ \A j \in NumberEnd(start, i).to + 1 .. Len(text) + 1 : ~IsDecimal(start, j)
<1> DEFINE n == Len(text) + 1
           p == EndOf(i, Digit)
           q == FractionEnd(p)
           e == ExponentEnd(q).to
<1>0. /\ n \in Nat /\ \A k \in 1 .. n - 1 : Char(k) = text[k]
      /\ \A k \in Int : k >= n => Char(k) = NUL
      /\ start \in Nat /\ i \in start + 1 .. start + 2
  BY Characters
<1>1. NumberEnd(start, i) = ExponentEnd(q)
  BY DEF NumberEnd
<1>2. p \in i .. n /\ Char(p) \notin Digit /\ \A k \in i .. p - 1 : Char(k) \in Digit
  BY EndOfFound, DigitSets
<1>3. /\ q \in p .. n
      /\ q # p => Char(p) = "." /\ Char(p + 1) \in Digit /\ q = EndOf(p + 1, Digit)
      /\ Char(p) = "." /\ Char(p + 1) \in Digit => p + 1 \in 1 .. n /\ q = EndOf(p + 1, Digit)
  <2> HIDE DEF p
  <2>1. QED
    BY <1>0, <1>2, FractionEndFound
<1>4. /\ e \in q .. n
      /\ Char(q) \notin {"e", "E"} => e = q
      /\ Char(q) \in {"e", "E"} => /\ Sign(q) \in q + 1 .. n
                                   /\ e = EndOf(Sign(q), Digit)
                                   /\ Char(Sign(q)) \in Digit
  <2>1. ~ExponentEnd(q).faulty
    BY <1>1
  <2>2. q \in 1 .. n
    BY <1>0, <1>2, <1>3
  <2> HIDE DEF q
  <2>3. QED
    BY <2>1, <2>2, ExponentEndFound
<1> HIDE DEF p, q, e
<1>5. ASSUME NEW j \in 1 .. n, NEW k \in Int, NEW s, s = EndOf(j, Digit), k \in j + 1 .. s
      PROVE  Digits(j, k)
  <2>1. s \in j .. n /\ \A l \in j .. s - 1 : Char(l) \in Digit
    BY <1>5, EndOfFound, DigitSets
  <2>2. QED
    BY <1>0, <1>5, <2>1 DEF Digits
<1>6. IsDecimal(start, e)
  <2>1. Digits(start, p) \/ (Char(start) = "." /\ Digits(start + 1, p))
    <3>1. CASE Char(start) \in Digit /\ i = start + 1
      BY <1>0, <1>2, <3>1, DigitSets DEF Digits
    <3>2. CASE Char(start) = "." /\ Char(start + 1) \in Digit /\ i = start + 2
      BY <1>0, <1>2, <3>2, DigitSets DEF Digits
    <3>3. QED
      BY <3>1, <3>2
  <2>2. Fraction(p, q)
    <3>1. CASE q = p
      BY <3>1 DEF Fraction
    <3>2. CASE q # p
      <4>1. q = EndOf(p + 1, Digit) /\ Char(p) = "." /\ Char(p + 1) \in Digit /\ p + 1 \in 1 .. n
        BY <1>3, <3>2
      <4>2. q \in p + 2 .. n
        <5>1. EndOf(p + 1, Digit) \in (p + 1) + 1 .. n
          BY <4>1, EndOfMoves, DigitSets
        <5>2. p \in Int /\ n \in Int
          BY <1>0, <1>2
        <5>3. QED
          BY <4>1, <5>1, <5>2
      <4>3. Digits(p + 1, q)
        <5>1. p \in Int /\ q \in (p + 1) + 1 .. q
          BY <1>0, <1>2, <4>2
        <5>2. QED
          BY <1>5, <4>1, <5>1
      <4>4. QED
        BY <4>1, <4>3 DEF Fraction
    <3>3. QED
      BY <3>1, <3>2
  <2>3. Exponent(q, e)
    <3>1. CASE Char(q) \notin {"e", "E"}
      BY <1>4, <3>1 DEF Exponent
    <3>2. CASE Char(q) \in {"e", "E"}
      <4>1. Sign(q) \in 1 .. n /\ e = EndOf(Sign(q), Digit) /\ Char(Sign(q)) \in Digit
        BY <1>0, <1>2, <1>3, <1>4, <3>2
      <4>2. e \in Sign(q) + 1 .. n
        BY <4>1, EndOfMoves, DigitSets
      <4>3. Digits(Sign(q), e)
        BY <1>5, <4>1, <4>2
      <4>4. Sign(q) \in {q + 1, q + 2} /\ (Sign(q) = q + 2 => Char(q + 1) \in {"+", "-"})
        BY <1>0, <1>2, <1>3 DEF Sign
      <4>5. QED
        BY <3>2, <4>3, <4>4 DEF Exponent
    <3>3. QED
      BY <3>1, <3>2
  <2>4. p \in start .. e /\ q \in start .. e /\ p <= q
    BY <1>0, <1>2, <1>3, <1>4
  <2>5. QED
    BY <2>1, <2>2, <2>3, <2>4 DEF IsDecimal
<1>7. ASSUME NEW j \in e + 1 .. n, IsDecimal(start, j)
      PROVE  FALSE
  <2>1. PICK a \in start .. j, b \in start .. j :
          /\ a <= b
          /\ Digits(start, a) \/ (Char(start) = "." /\ Digits(start + 1, a))
          /\ Fraction(a, b)
          /\ Exponent(b, j)
    BY <1>7 DEF IsDecimal
  <2>0. /\ a \in start .. n /\ b \in a .. n /\ j \in b .. n
        /\ p \in Int /\ q \in Int /\ e \in Int /\ p <= q /\ q <= e /\ e < j
    BY <1>0, <1>2, <1>3, <1>4, <2>1
  <2>2. a <= p /\ (a < p => Char(a) \in Digit)
    <3>1. CASE Char(start) \in Digit /\ i = start + 1
      <4>1. Digits(start, a)
        BY <2>1, <3>1, DigitSets
      <4>2. a \in i .. n /\ \A k \in i .. a - 1 : text[k] \in Digit
        BY <1>0, <2>0, <3>1, <4>1 DEF Digits
      <4>3. QED
        BY <4>2, DigitsEnd DEF p
    <3>2. CASE Char(start) = "." /\ Char(start + 1) \in Digit /\ i = start + 2
      <4>1. Digits(start + 1, a)
        <5>1. start < n
          BY <1>0, <3>2 DEF NUL
        <5>2. text[start] \notin Digit
          BY <1>0, <3>2, <5>1, DigitSets
        <5>3. ~Digits(start, a)
          BY <1>0, <5>2 DEF Digits
        <5>4. QED
          BY <2>1, <5>3
      <4>2. a \in i .. n /\ \A k \in i .. a - 1 : text[k] \in Digit
        BY <1>0, <2>0, <3>2, <4>1 DEF Digits
      <4>3. QED
        BY <4>2, DigitsEnd DEF p
    <3>3. QED
      BY <3>1, <3>2
  <2>3. a = p
    <3>1. SUFFICES ASSUME a < p
                   PROVE  FALSE
      BY <2>0, <2>2
    <3>2. Char(a) \in Digit
      BY <2>2, <3>1
    <3>3. a = b
      BY <2>1, <3>2, DigitSets DEF Fraction
    <3>4. b = j
      BY <2>1, <3>2, <3>3, DigitSets DEF Exponent
    <3>5. QED
      BY <2>0, <3>1, <3>3, <3>4
  <2>4. b <= q /\ (b < q => b = p \/ Char(b) \in Digit)
    <3>1. CASE b = p
      BY <2>0, <3>1
    <3>2. CASE b # p
      <4>1. Char(p) = "." /\ Digits(p + 1, b)
        BY <2>1, <2>3, <3>2 DEF Fraction
      <4>2. p + 1 \in 1 .. n /\ b \in p + 2 .. n /\ text[p + 1] \in Digit
        BY <1>0, <1>2, <2>0, <4>1 DEF Digits
      <4>3. q = EndOf(p + 1, Digit)
        <5>1. p + 1 \in 1 .. n - 1
          BY <2>0, <4>2
        <5>2. Char(p + 1) \in Digit
          BY <1>0, <4>2, <5>1
        <5>3. QED
          BY <1>3, <4>1, <5>2
      <4>4. \A k \in p + 1 .. b - 1 : text[k] \in Digit
        BY <4>1 DEF Digits
      <4>5. QED
        BY <2>0, <4>2, <4>3, <4>4, DigitsEnd
    <3>3. QED
      BY <3>1, <3>2
  <2>5. b = q
    <3>1. SUFFICES ASSUME b < q
                   PROVE  FALSE
      BY <2>0, <2>4
    <3>2. Char(b) \in Digit \/ Char(b) = "."
      BY <1>3, <2>0, <2>4, <3>1
    <3>3. b = j
      BY <2>1, <3>2, DigitSets DEF Exponent
    <3>4. QED
      BY <2>0, <3>1, <3>3
  <2>6. PICK k \in {q + 1, q + 2} : /\ Char(q) \in {"e", "E"} /\ Digits(k, j)
                                    /\ k = q + 2 => Char(q + 1) \in {"+", "-"}
    BY <2>0, <2>1, <2>5 DEF Exponent
  <2>7. Sign(q) = k
    <3>1. CASE k = q + 2
      BY <2>6, <3>1 DEF Sign
    <3>2. CASE k = q + 1
      <4>1. q + 1 \in 1 .. n - 1 /\ text[q + 1] \in Digit
        BY <1>0, <1>2, <2>0, <2>6, <3>2 DEF Digits
      <4>2. Char(q + 1) \in Digit
        BY <1>0, <4>1
      <4>3. QED
        BY <3>2, <4>2, DigitSets DEF Sign
    <3>3. QED
      BY <3>1, <3>2
  <2>8. e = EndOf(k, Digit) /\ k \in 1 .. n
    BY <1>0, <1>2, <1>3, <1>4, <2>6, <2>7
  <2>9. j \in k .. n /\ \A l \in k .. j - 1 : text[l] \in Digit
    BY <2>0, <2>6, <2>8 DEF Digits
  <2>10. j <= e
    BY <2>8, <2>9, DigitsEnd
  <2>11. QED
    BY <2>0, <2>10
<1>8. QED
  BY <1>1, <1>6, <1>7 DEF e

-----------------------------------------------------------------------------
(* Symbols, keywords and names. *)

(* What is cut out of the text. *)
LEMMA Slices ==
  ASSUME text \in Texts, NEW i \in 1 .. Len(text) + 1, NEW j \in i .. Len(text) + 1
  PROVE  /\ SubSeq(text, i, j - 1) \in Seq(STRING)
         /\ Len(SubSeq(text, i, j - 1)) = j - i
         /\ \A k \in 1 .. j - i : SubSeq(text, i, j - 1)[k] = Char(i + k - 1)
<1>1. /\ text \in Seq(STRING) /\ Len(text) \in Nat
      /\ \A k \in 1 .. Len(text) : Char(k) = text[k]
  BY Characters
<1>2. \A k \in i .. j - 1 : k \in 1 .. Len(text)
  BY <1>1
<1>3. QED
  BY <1>1, <1>2

LEMMA SecondIs ==
  /\ \A c \in WithEqual : Second(c) = {"="}
  /\ Second(">") = {">", "="} /\ Second("<") = {"<", "="}
  /\ Second("-") = {"=", ">"} /\ Second(".") = {"."}
  /\ \A c \in Single : Second(c) = {}
BY DEF Second, WithEqual, Single

LEMMA Tuples ==
  /\ \A c : Len(<<c>>) = 1 /\ <<c>>[1] = c
  /\ \A c, d : Len(<<c, d>>) = 2 /\ <<c, d>>[1] = c /\ <<c, d>>[2] = d
  /\ \A c, d, e : /\ Len(<<c, d, e>>) = 3
                  /\ <<c, d, e>>[1] = c /\ <<c, d, e>>[2] = d /\ <<c, d, e>>[3] = e
OBVIOUS

LEMMA ShortSequences ==
  ASSUME NEW w \in Seq(STRING)
  PROVE  /\ Len(w) = 1 => w = <<w[1]>>
         /\ Len(w) = 2 => w = <<w[1], w[2]>>
         /\ Len(w) = 3 => w = <<w[1], w[2], w[3]>>
OBVIOUS

(* The table of symbols is what matchChar() finds, character by character.   *)
LEMMA SymbolWords ==
  ASSUME NEW w \in Symbols
  PROVE  /\ Len(w) \in 1 .. 3 /\ w[1] \in Symbol
         /\ Len(w) >= 2 => w[2] \in Second(w[1])
         /\ Len(w) = 3 => w[1] \in {">", "<"} /\ w[2] = w[1] /\ w[3] = "="
<1>1. CASE \E s \in {".", ",", ":", ";", "(", ")", "[", "]", "{", "}", "%", "~", "&",
                     "|", "^", "+", "-", "*", "/", "=", ">", "<", "!"} : w = <<s>>
  <2>1. \A s \in {".", ",", ":", ";", "(", ")", "[", "]", "{", "}", "%", "~", "&",
                  "|", "^", "+", "-", "*", "/", "=", ">", "<", "!"} : s \in Symbol
    BY Zenon DEF Symbol, Single, WithEqual
  <2>2. \E s \in Symbol : w = <<s>>
    BY <1>1, <2>1, Zenon
  <2>3. Len(w) = 1 /\ w[1] \in Symbol
    BY <2>2, Tuples
  <2>4. QED
    BY <2>3
<1>2. CASE \E s \in {"=", "!", ">", "<", "+", "-", "*", "/", "%", "&", "|", "^"} : w = <<s, "=">>
  <2>1. PICK s \in {"=", "!", ">", "<", "+", "-", "*", "/", "%", "&", "|", "^"} : w = <<s, "=">>
    BY <1>2
  <2>2. "=" \in Second(s) /\ s \in Symbol
    BY SecondIs DEF Symbol, WithEqual
  <2>3. Len(w) = 2 /\ w[1] = s /\ w[2] = "="
    BY <2>1, <2>2, Tuples
  <2>4. QED
    BY <2>2, <2>3
<1>3. CASE w \in {<<".", ".">>, <<"-", ">">>, <<">", ">">>, <<"<", "<">>}
  <2>1. PICK c, d : w = <<c, d>> /\ d \in Second(c) /\ c \in Symbol
    <3>1. \A c \in {".", "-", ">", "<"} : c \in Symbol
      BY DEF Symbol
    <3>2. QED
      BY <1>3, <3>1, SecondIs
  <2>2. Len(w) = 2 /\ w[1] = c /\ w[2] = d
    BY <2>1, Tuples
  <2>3. QED
    BY <2>1, <2>2
<1>4. CASE w \in {<<">", ">", "=">>, <<"<", "<", "=">>}
  <2>1. PICK c \in {">", "<"} : w = <<c, c, "=">> /\ c \in Second(c) /\ c \in Symbol
    BY <1>4, SecondIs DEF Symbol
  <2>3. Len(w) = 3 /\ w[1] = c /\ w[2] = c /\ w[3] = "="
    BY <2>1, Tuples
  <2>4. QED
    BY <2>1, <2>3
<1>5. QED
  BY <1>1, <1>2, <1>3, <1>4 DEF Symbols

LEMMA WordSymbols ==
  ASSUME NEW c \in Symbol
  PROVE  /\ <<c>> \in Symbols
         /\ \A d \in Second(c) : <<c, d>> \in Symbols
         /\ c \in {">", "<"} => <<c, c, "=">> \in Symbols
<1>1. <<c>> \in Symbols
  BY DEF Symbol, Single, WithEqual, Symbols
<1>2. ASSUME NEW d \in Second(c)
      PROVE  <<c, d>> \in Symbols
  <2>1. CASE c \in Single
    BY <2>1, <1>2, SecondIs
  <2>2. CASE c \in WithEqual
    BY <2>2, <1>2, SecondIs DEF WithEqual, Symbols
  <2>3. CASE c \in {">", "<", "-", "."}
    BY <2>3, <1>2, SecondIs DEF Symbols
  <2>4. QED
    BY <2>1, <2>2, <2>3 DEF Symbol
<1>3. c \in {">", "<"} => <<c, c, "=">> \in Symbols
  BY DEF Symbols
<1>4. QED
  BY <1>1, <1>2, <1>3

(* The types of tokens that are not symbols or keywords. *)
Special == {Eof, Error, Name, String, Number, Line}

LEMMA SymbolsAreNoLetters == \A c \in Symbol : c \notin Letter
<1>1. \A c \in Single : c \notin Letter
  BY ZenonT(30) DEF Single, Letter
<1>2. \A c \in WithEqual : c \notin Letter
  BY ZenonT(30) DEF WithEqual, Letter
<1>3. \A c \in {">", "<", "-", "."} : c \notin Letter
  BY ZenonT(30) DEF Letter
<1>4. QED
  BY <1>1, <1>2, <1>3, Zenon DEF Symbol

LEMMA TypesDiffer ==
  /\ Special \cap (Symbols \cup Keywords) = {}
  /\ Symbols \cap Keywords = {}
  /\ Eof # Error /\ Eof # Name /\ Eof # String /\ Eof # Number /\ Eof # Line
  /\ Error # Name /\ Error # String /\ Error # Number /\ Error # Line
  /\ Name # String /\ Name # Number /\ Name # Line
  /\ String # Number /\ String # Line /\ Number # Line
<1>1. ASSUME NEW w \in Special
      PROVE  w[1] \in {"eof", "error", "name", "string", "number", "\n"}
  BY DEF Special, Eof, Error, Name, String, Number, Line
<1>2. ASSUME NEW w \in Keywords
      PROVE  w[1] \in Letter
  <2>1. w \in Seq(Letter) /\ w # <<>>
    BY CharactersAssumption
  <2>2. QED
    BY <2>1
<1>3. \A w \in Symbols : w[1] \in Symbol
  BY SymbolWords
<1>4. {"eof", "error", "name", "string", "number", "\n"} \cap (Letter \cup Symbol) = {}
  <2>1. \A c \in {"eof", "error", "name", "string", "number", "\n"} : c \notin Letter
    BY Zenon DEF Letter
  <2>2. \A c \in {"eof", "error", "name", "string", "number", "\n"} : c \notin Symbol
    BY Zenon DEF Symbol, Single, WithEqual
  <2>3. QED
    BY <2>1, <2>2
<1>5. Symbol \cap Letter = {}
  BY SymbolsAreNoLetters
<1>6. /\ Eof # Error /\ Eof # Name /\ Eof # String /\ Eof # Number /\ Eof # Line
      /\ Error # Name /\ Error # String /\ Error # Number /\ Error # Line
      /\ Name # String /\ Name # Number /\ Name # Line
      /\ String # Number /\ String # Line /\ Number # Line
  BY DEF Eof, Error, Name, String, Number, Line
<1>7. QED
  BY <1>1, <1>2, <1>3, <1>4, <1>5, <1>6

-----------------------------------------------------------------------------
(* The token that begins at a character. *)

LEMMA CharClasses ==
  /\ NUL \notin Digit /\ NUL \notin Symbol /\ NUL \notin Letter
  /\ "\n" \notin Digit /\ "\n" \notin Symbol /\ "\n" \notin Letter
  /\ \A c \in Quote : c \notin Digit /\ c \notin Symbol /\ c \notin Letter /\ c # NUL /\ c # "\n"
  /\ \A c \in Digit : c \notin Symbol /\ c \notin Letter
  /\ \A c \in Symbol : c \notin Letter
  /\ "." \in Symbol /\ NUL # "\n"
<1>1. NUL \notin Digit /\ NUL \notin Symbol /\ NUL \notin Letter
  BY Zenon DEF NUL, Digit, Symbol, Single, WithEqual, Letter
<1>2. "\n" \notin Digit /\ "\n" \notin Symbol /\ "\n" \notin Letter
  BY Zenon DEF Digit, Symbol, Single, WithEqual, Letter
<1>3. \A c \in Quote : c \notin Digit /\ c \notin Symbol /\ c \notin Letter /\ c # NUL /\ c # "\n"
  BY ZenonT(30) DEF Quote, NUL, Digit, Symbol, Single, WithEqual, Letter
<1>4. \A c \in Digit : c \notin Symbol
  BY Zenon DEF Digit, Symbol, Single, WithEqual
<1>5. \A c \in Digit : c \notin Letter
  BY ZenonT(30) DEF Digit, Letter
<1>6. \A c \in Symbol : c \notin Letter
  BY SymbolsAreNoLetters
<1>7. "." \in Symbol
  BY Zenon DEF Symbol
<1>8. NUL # "\n"
  BY DEF NUL
<1>9. QED
  BY <1>1, <1>2, <1>3, <1>4, <1>5, <1>6, <1>7, <1>8

BeginsNumber(i) == Char(i) \in Digit \/ (Char(i) = "." /\ Char(i + 1) \in Digit)
AfterFirst(i) == IF Char(i) \in Digit THEN i + 1 ELSE i + 2

LEMMA TokenAtIs ==
  ASSUME NEW i
  PROVE  /\ Char(i) = NUL => TokenAt(i) = Plain(Eof, i)
         /\ Char(i) = "\n" => TokenAt(i) = Plain(Line, i + 1)
         /\ Char(i) \in Quote => TokenAt(i) = Lexed(String, StringEnd(i + 1, Char(i)))
         /\ BeginsNumber(i) => TokenAt(i) = Lexed(Number, NumberEnd(i, AfterFirst(i)))
         /\ Char(i) \in Symbol /\ ~BeginsNumber(i) =>
              TokenAt(i) = Plain(SubSeq(text, i, SymbolEnd(i) - 1), SymbolEnd(i))
         /\ Char(i) \in Letter =>
              TokenAt(i) = LET j == EndOf(i, Letter \cup Digit) IN Plain(NameType(i, j), j)
         /\ \/ Char(i) \in {NUL, "\n"} \cup Quote \cup Symbol \cup Letter \/ BeginsNumber(i)
            \/ TokenAt(i) = Invalid(i)
<1>1. Char(i) = NUL => TokenAt(i) = Plain(Eof, i)
  BY CharClasses DEF TokenAt, Quote
<1>2. Char(i) = "\n" => TokenAt(i) = Plain(Line, i + 1)
  BY CharClasses DEF TokenAt, Quote
<1>3. Char(i) \in Quote => TokenAt(i) = Lexed(String, StringEnd(i + 1, Char(i)))
  BY CharClasses DEF TokenAt, Quote
<1>4. ASSUME Char(i) \in Digit
      PROVE  TokenAt(i) = Lexed(Number, NumberEnd(i, i + 1))
  BY <1>4, CharClasses DEF TokenAt, Quote
<1>5. ASSUME Char(i) = "." /\ Char(i + 1) \in Digit
      PROVE  TokenAt(i) = Lexed(Number, NumberEnd(i, i + 2)) /\ Char(i) \notin Digit
  BY <1>5, CharClasses DEF TokenAt, Quote
<1>6. Char(i) \in Symbol /\ ~BeginsNumber(i) =>
        TokenAt(i) = Plain(SubSeq(text, i, SymbolEnd(i) - 1), SymbolEnd(i))
  BY CharClasses DEF TokenAt, Quote, BeginsNumber
<1>7. Char(i) \in Letter =>
        TokenAt(i) = LET j == EndOf(i, Letter \cup Digit) IN Plain(NameType(i, j), j)
  BY CharClasses DEF TokenAt, Quote
<1>8. \/ Char(i) \in {NUL, "\n"} \cup Quote \cup Symbol \cup Letter \/ BeginsNumber(i)
      \/ TokenAt(i) = Invalid(i)
  BY DEF TokenAt, Quote, BeginsNumber
<1>9. BeginsNumber(i) => TokenAt(i) = Lexed(Number, NumberEnd(i, AfterFirst(i)))
  BY <1>4, <1>5 DEF BeginsNumber, AfterFirst
<1>10. QED
  BY <1>1, <1>2, <1>3, <1>6, <1>7, <1>8, <1>9

(* A token of the text: within it, with a type that the errors reported fit, *)
(* on one line unless it is a string, and right.                             *)
Cut(i, token) ==
  /\ token.to \in i .. Len(text) + 1
  /\ token.faulty \in BOOLEAN
  /\ token.type \in Special \cup Symbols \cup Keywords
  /\ token.type = Error => token.faulty
  /\ token.faulty => token.type \in {Error, String, Number}
  /\ token.type \notin {String, Line} => NoNewline(i, token.to)
  /\ token.type = Line => token.to = i + 1 /\ Char(i) = "\n"
  /\ \A line : /\ RightSymbol(SetNextToken(i, token, line))
               /\ RightString(SetNextToken(i, token, line))
               /\ RightNumber(SetNextToken(i, token, line))

LEMMA SetFields ==
  ASSUME NEW i, NEW token, NEW line
  PROVE  /\ SetNextToken(i, token, line).type = token.type
         /\ SetNextToken(i, token, line).from = i
         /\ SetNextToken(i, token, line).to = token.to
         /\ SetNextToken(i, token, line).faulty = token.faulty
BY DEF SetNextToken

(* There is nothing to say of the characters of the other tokens. *)
LEMMA OtherTokens ==
  ASSUME NEW i, NEW token, NEW line, NEW t, t = SetNextToken(i, token, line)
  PROVE  /\ token.type \in Special \ {Name} => RightSymbol(t)
         /\ token.type # String => RightString(t)
         /\ token.type # Number => RightNumber(t)
<1>1. t.type = token.type
  BY SetFields
<1>2. token.type \in Special \ {Name} => RightSymbol(t)
  BY <1>1, TypesDiffer DEF RightSymbol
<1>3. token.type # String => RightString(t)
  BY <1>1 DEF RightString
<1>4. token.type # Number => RightNumber(t)
  BY <1>1 DEF RightNumber
<1>5. QED
  BY <1>2, <1>3, <1>4

LEMMA CutIntro ==
  ASSUME NEW i, NEW token, token.to \in i .. Len(text) + 1,
         token.faulty = FALSE \/ (token.faulty = TRUE /\ token.type \in {Error, String, Number}),
         token.type \in Special \cup Symbols \cup Keywords,
         token.type = Error => token.faulty = TRUE,
         token.type \notin {String, Line} => NoNewline(i, token.to),
         token.type = Line => token.to = i + 1 /\ Char(i) = "\n",
         \A line : /\ RightSymbol(SetNextToken(i, token, line))
                  /\ RightString(SetNextToken(i, token, line))
                  /\ RightNumber(SetNextToken(i, token, line))
  PROVE  Cut(i, token)
BY DEF Cut

LEMMA CutPlain ==
  ASSUME text \in Texts, NEW i \in 1 .. Len(text) + 1, NEW token, token = TokenAt(i),
         \/ Char(i) \in {NUL, "\n"}
         \/ /\ Char(i) \notin {NUL, "\n"} \cup Quote \cup Symbol \cup Letter
            /\ ~BeginsNumber(i)
  PROVE  Cut(i, token)
<1>0. /\ Len(text) \in Nat /\ i \in Int
      /\ \A k \in Int : k > Len(text) => Char(k) = NUL
  BY Characters
<1>1. token \in {Plain(Eof, i), Plain(Line, i + 1), Invalid(i)}
  BY TokenAtIs
<1>2. token.type \in {Eof, Line, Error}
  BY <1>1 DEF Plain, Invalid
<1>3. \A line : /\ RightSymbol(SetNextToken(i, token, line))
                /\ RightString(SetNextToken(i, token, line))
                /\ RightNumber(SetNextToken(i, token, line))
  BY <1>2, OtherTokens, TypesDiffer DEF Special
<1>4. CASE Char(i) = NUL
  <2>1. token = [type |-> Eof, to |-> i, faulty |-> FALSE]
    BY <1>4, TokenAtIs DEF Plain
  <2>2. NoNewline(i, i)
    BY <1>0 DEF NoNewline
  <2>3. token.type = Eof /\ token.to = i /\ token.faulty = FALSE
    BY <2>1
  <2>4. token.to \in i .. Len(text) + 1 /\ NoNewline(i, token.to)
    BY <1>0, <2>2, <2>3
  <2>5. QED
    BY <1>3, <2>3, <2>4, TypesDiffer, CutIntro DEF Special
<1>5. CASE Char(i) = "\n"
  <2>1. token = [type |-> Line, to |-> i + 1, faulty |-> FALSE] /\ i <= Len(text)
    BY <1>0, <1>5, TokenAtIs DEF Plain, NUL
  <2>2. token.type = Line /\ token.to = i + 1 /\ token.faulty = FALSE
    BY <2>1
  <2>3. i + 1 \in i .. Len(text) + 1
    BY <1>0, <2>1
  <2>4. QED
    BY <1>3, <1>5, <2>2, <2>3, TypesDiffer, CutIntro DEF Special
<1>6. CASE Char(i) \notin {NUL, "\n"}
  <2>1. token = [type |-> Error, to |-> i + 1, faulty |-> TRUE] /\ i <= Len(text)
    BY <1>0, <1>6, TokenAtIs DEF Invalid
  <2>2. NoNewline(i, i + 1)
    BY <1>6 DEF NoNewline
  <2>3. token.type = Error /\ token.to = i + 1 /\ token.faulty = TRUE
    BY <2>1
  <2>4. i + 1 \in i .. Len(text) + 1
    BY <1>0, <2>1
  <2>5. QED
    BY <1>3, <2>2, <2>3, <2>4, TypesDiffer, CutIntro DEF Special
<1>7. QED
  BY <1>4, <1>5, <1>6

LEMMA CutString ==
  ASSUME text \in Texts, NEW i \in 1 .. Len(text) + 1, NEW token, token = TokenAt(i),
         Char(i) \in Quote, token.to <= Len(text) + 1
  PROVE  Cut(i, token)
<1> DEFINE quote == Char(i)
           s == i + 1
           r == Eating(quote)[s]
<1>0. /\ Len(text) \in Nat /\ i \in 1 .. Len(text) /\ quote = text[i]
      /\ s \in 1 .. Len(text) + 1 /\ s \in Position
  BY Characters, CharClasses DEF Position
<1>1. token = [type |-> String, to |-> r.to, faulty |-> r.faulty]
  BY TokenAtIs, StringEndIs DEF Lexed
<1>2. r \in [to : s .. Len(text) + 2, faulty : BOOLEAN]
  BY <1>0, EatingFound
<1>3. ReadsString(s, quote, s, r)
  <2>1. Clean(s, s)
    BY <1>0, CleanNext
  <2>2. r.to <= Len(text) + 1
    BY <1>1
  <2>3. s <= s
    BY <1>0
  <2>4. QED
    BY <1>0, <2>1, <2>2, <2>3, EatingFound
<1> HIDE DEF r
<1>4. ASSUME NEW line
      PROVE  RightString(SetNextToken(i, token, line))
  <2> DEFINE t == SetNextToken(i, token, line)
             quotes == {k \in t.from + 1 .. Len(text) : Closes(t, k)}
             escaped == {k \in t.from + 2 .. t.to - 1 : /\ Slashes(t.from + 1, k) % 2 = 1
                                                        /\ text[k] \notin Escape}
  <2>1. t.from = i /\ t.to = r.to /\ t.faulty = r.faulty
    BY <1>1, SetFields
  <2> HIDE DEF t
  <2>2. \A k \in s .. Len(text) : Closes(t, k) <=> Closer(s, quote, k)
    BY <1>0, <2>1 DEF Closes, Closer, Clean
  <2>3. quotes = {k \in s .. Len(text) : Closer(s, quote, k)}
    BY <2>1, <2>2
  <2>4. escaped # {} <=> BadEscape(s, s, r.to)
    <3>1. \A k \in s .. r.to - 1 : (Slashes(s, k) % 2 = 1 <=> ~Clean(s, k))
      <4>1. SUFFICES ASSUME NEW k \in s .. r.to - 1
                     PROVE  Slashes(s, k) % 2 = 1 <=> Slashes(s, k) % 2 # 0
        BY DEF Clean
      <4>2. k \in Nat /\ s <= k /\ s \in Nat
        BY <1>0, <1>2
      <4>3. Slashes(s, k) \in Nat
        BY <4>2, CleanNext
      <4>4. QED
        BY <4>3
    <3>2. Clean(s, s)
      BY <1>0, CleanNext
    <3>3. escaped = {k \in s + 1 .. r.to - 1 : Slashes(s, k) % 2 = 1 /\ text[k] \notin Escape}
      BY <1>0, <2>1
    <3>4. escaped = {k \in s .. r.to - 1 : ~Clean(s, k) /\ text[k] \notin Escape}
      BY <1>0, <1>2, <3>1, <3>2, <3>3
    <3> HIDE DEF escaped
    <3>5. QED
      BY <3>4 DEF BadEscape
  <2>5. t.to - 1 \in quotes <=> Ended(s, quote, s, r.to)
    BY <2>1, <2>3 DEF Ended
  <2>6. \A k \in quotes : t.to <= k + 1
    BY <1>3, <2>1, <2>3 DEF ReadsString
  <2>7. t.to - 1 \notin quotes => quotes = {} /\ t.to = Len(text) + 1
    BY <1>3, <2>1, <2>3, <2>5 DEF ReadsString
  <2>8. t.faulty <=> t.to - 1 \notin quotes \/ escaped # {}
    BY <1>3, <2>1, <2>4, <2>5 DEF ReadsString
  <2>9. QED
    BY <2>6, <2>7, <2>8, Zenon DEF RightString, t
<1>5. ASSUME NEW line
      PROVE  RightSymbol(SetNextToken(i, token, line)) /\ RightNumber(SetNextToken(i, token, line))
  BY <1>1, OtherTokens, TypesDiffer DEF Special
<1>6. QED
  BY <1>0, <1>1, <1>2, <1>4, <1>5, TypesDiffer DEF Cut, Special

LEMMA CutNumber ==
  ASSUME text \in Texts, NEW i \in 1 .. Len(text) + 1, NEW token, token = TokenAt(i),
         BeginsNumber(i)
  PROVE  Cut(i, token)
<1> DEFINE j == AfterFirst(i)
           r == NumberEnd(i, j)
<1>0. /\ Len(text) \in Nat /\ i \in Nat
      /\ \A k \in Int : k > Len(text) => Char(k) = NUL
  BY Characters
<1>1. /\ j \in i + 1 .. i + 2 /\ j <= Len(text) + 1
      /\ NoNewline(i, j)
      /\ Char(i) = "0" => j = i + 1
      /\ \/ Char(i) \in Digit /\ j = i + 1
         \/ Char(i) = "." /\ Char(i + 1) \in Digit /\ j = i + 2
  <2>1. CASE Char(i) \in Digit
    <3>1. j = i + 1 /\ i <= Len(text)
      BY <1>0, <2>1, DigitSets DEF AfterFirst
    <3>2. NoNewline(i, i + 1)
      BY <1>0, <2>1, DigitSets DEF NoNewline
    <3>3. QED
      BY <1>0, <2>1, <3>1, <3>2
  <2>2. CASE Char(i) \notin Digit
    <3>1. Char(i) = "." /\ Char(i + 1) \in Digit /\ j = i + 2
      BY <2>2 DEF BeginsNumber, AfterFirst
    <3>2. i + 1 <= Len(text)
      BY <1>0, <3>1, DigitSets
    <3>3. Char(i) # "\n" /\ Char(i + 1) # "\n" /\ Char(i) # "0"
      BY <3>1, DigitSets
    <3>4. NoNewline(i, i + 2)
      BY <1>0, <3>3 DEF NoNewline
    <3> HIDE DEF j
    <3>5. QED
      BY <1>0, <3>1, <3>2, <3>3, <3>4
  <2>3. QED
    BY <2>1, <2>2
<1>2. token = [type |-> Number, to |-> r.to, faulty |-> r.faulty]
  BY TokenAtIs DEF Lexed
<1> HIDE DEF j
<1>3. /\ r \in [to : j .. Len(text) + 1, faulty : BOOLEAN]
      /\ NoNewline(i, r.to)
  BY <1>1, NumberEndFound
<1>4. ASSUME Char(i + 1) \notin {"b", "x"}, ~r.faulty
      PROVE  /\ IsDecimal(i, r.to)
             /\ \A k \in r.to + 1 .. Len(text) + 1 : ~IsDecimal(i, k)
  <2>1. ~(Char(i) = "0" /\ Char(j) \in {"b", "x"})
    BY <1>1, <1>4
  <2>2. j \in 1 .. Len(text) + 1
    BY <1>0, <1>1
  <2>3. QED
    BY <1>1, <1>4, <2>1, <2>2, DecimalsAreLongest
<1> HIDE DEF r
<1>5. token.type = Number /\ token.to = r.to /\ token.faulty = r.faulty
  BY <1>2
<1>6. ASSUME NEW line
      PROVE  /\ RightSymbol(SetNextToken(i, token, line))
             /\ RightString(SetNextToken(i, token, line))
             /\ RightNumber(SetNextToken(i, token, line))
  <2>1. RightSymbol(SetNextToken(i, token, line)) /\ RightString(SetNextToken(i, token, line))
    BY <1>5, OtherTokens, TypesDiffer DEF Special
  <2>2. RightNumber(SetNextToken(i, token, line))
    BY <1>4, <1>5, SetFields DEF RightNumber
  <2>3. QED
    BY <2>1, <2>2
<1>7. token.to \in i .. Len(text) + 1 /\ token.faulty \in BOOLEAN /\ NoNewline(i, token.to)
  BY <1>0, <1>1, <1>3, <1>5
<1>8. QED
  BY <1>5, <1>6, <1>7, TypesDiffer DEF Cut, Special

LEMMA CutName ==
  ASSUME text \in Texts, NEW i \in 1 .. Len(text) + 1, NEW token, token = TokenAt(i),
         Char(i) \in Letter
  PROVE  Cut(i, token)
<1> DEFINE j == EndOf(i, Letter \cup Digit)
<1>0. /\ Len(text) \in Nat /\ i \in Nat
      /\ \A k \in 1 .. Len(text) : Char(k) = text[k]
  BY Characters
<1>1. /\ j \in i .. Len(text) + 1
      /\ Char(j) \notin Letter \cup Digit
      /\ \A k \in i .. j - 1 : Char(k) \in Letter \cup Digit
      /\ NoNewline(i, j)
  BY EndOfFound, EndOfIsOneLine, DigitSets
<1>2. token = [type |-> NameType(i, j), to |-> j, faulty |-> FALSE]
  BY TokenAtIs DEF Plain
<1> HIDE DEF j
<1>3. token.type = NameType(i, j) /\ token.to = j /\ token.faulty = FALSE
  BY <1>2
<1>4. /\ token.type \in Keywords \cup {Name}
      /\ SubSeq(text, i, j - 1) \in Keywords <=> token.type # Name
  BY <1>3, TypesDiffer DEF NameType, Special
<1>5. ASSUME NEW line
      PROVE  /\ RightSymbol(SetNextToken(i, token, line))
             /\ RightString(SetNextToken(i, token, line))
             /\ RightNumber(SetNextToken(i, token, line))
  <2> DEFINE t == SetNextToken(i, token, line)
  <2>1. t.type = token.type /\ t.from = i /\ t.to = j
    BY <1>3, SetFields
  <2>2. token.type # String /\ token.type # Number /\ token.type \notin Symbols
    BY <1>4, TypesDiffer DEF Special
  <2>3. RightString(t) /\ RightNumber(t)
    BY <2>2, OtherTokens
  <2> HIDE DEF t
  <2>4. \A k \in t.from .. t.to - 1 : text[k] \in Letter \cup Digit
    BY <1>0, <1>1, <2>1
  <2>5. Char(t.to) \notin Letter \cup Digit
    BY <1>1, <2>1
  <2>6. SubSeq(text, t.from, t.to - 1) \in Keywords <=> t.type # Name
    BY <1>4, <2>1
  <2>7. RightSymbol(t)
    BY <2>1, <2>2, <2>4, <2>5, <2>6 DEF RightSymbol
  <2>8. QED
    BY <2>3, <2>7 DEF t
<1>6. token.type \notin {String, Line, Error}
  BY <1>4, TypesDiffer DEF Special
<1>7. QED
  BY <1>1, <1>3, <1>4, <1>5, <1>6, CutIntro DEF Special

LEMMA SecondChars ==
  ASSUME NEW c \in Symbol
  PROVE  NUL \notin Second(c) /\ "\n" \notin Second(c)
<1>1. NUL \notin {"=", ">", "<", "."} /\ "\n" \notin {"=", ">", "<", "."}
  BY DEF NUL
<1>2. CASE c \in Single
  BY <1>2, SecondIs
<1>3. CASE c \in WithEqual
  BY <1>1, <1>3, SecondIs
<1>4. CASE c \in {">", "<", "-", "."}
  BY <1>1, <1>4, SecondIs
<1>5. QED
  BY <1>2, <1>3, <1>4, Zenon DEF Symbol

(* What the nested matchChar() eat is the longest symbol of the table. *)
LEMMA SymbolEndFound ==
  ASSUME text \in Texts, NEW i \in 1 .. Len(text) + 1, Char(i) \in Symbol
  PROVE  /\ SymbolEnd(i) \in i + 1 .. Len(text) + 1
         /\ NoNewline(i, SymbolEnd(i))
         /\ SubSeq(text, i, SymbolEnd(i) - 1) \in Symbols
         /\ \A to \in SymbolEnd(i) + 1 .. Len(text) + 1 : SubSeq(text, i, to - 1) \notin Symbols
<1> DEFINE c == Char(i)
           d == Char(i + 1)
           e == Char(i + 2)
           Slice(to) == SubSeq(text, i, to - 1)
<1>0. /\ Len(text) \in Nat /\ i \in Nat
      /\ \A k \in Int : k > Len(text) => Char(k) = NUL
  BY Characters
<1>1. i <= Len(text) /\ c # "\n" /\ NUL # "\n" /\ NUL # "="
  BY <1>0, CharClasses DEF NUL
<1>2. /\ NUL \notin Second(c) /\ "\n" \notin Second(c)
      /\ c \in {">", "<"} => c \in Second(c) /\ "=" \in Second(c)
  BY SecondChars, SecondIs
<1>3. ASSUME NEW to \in i + 1 .. Len(text) + 1
      PROVE  /\ Slice(to) \in Seq(STRING) /\ Len(Slice(to)) = to - i
             /\ Slice(to)[1] = c
             /\ to >= i + 2 => Slice(to)[2] = d
             /\ to >= i + 3 => Slice(to)[3] = e
  <2>1. to \in i .. Len(text) + 1
    BY <1>0
  <2>2. /\ Slice(to) \in Seq(STRING) /\ Len(Slice(to)) = to - i
        /\ \A k \in 1 .. to - i : Slice(to)[k] = Char(i + k - 1)
    BY <2>1, Slices
  <2> HIDE DEF Slice
  <2>3. /\ i + 1 - 1 = i /\ i + 2 - 1 = i + 1 /\ i + 3 - 1 = i + 2
        /\ 1 \in 1 .. to - i
        /\ to >= i + 2 => 2 \in 1 .. to - i
        /\ to >= i + 3 => 3 \in 1 .. to - i
    BY <1>0
  <2>4. Slice(to)[1] = c
    BY <2>2, <2>3
  <2>5. to >= i + 2 => Slice(to)[2] = d
    BY <2>2, <2>3
  <2>6. to >= i + 3 => Slice(to)[3] = e
    BY <2>2, <2>3
  <2>7. QED
    BY <2>2, <2>4, <2>5, <2>6
<1> HIDE DEF Slice
<1>s. /\ i + 1 \in i + 1 .. Len(text) + 1 => Len(Slice(i + 1)) = 1
      /\ i + 2 \in i + 1 .. Len(text) + 1 => Len(Slice(i + 2)) = 2
      /\ i + 3 \in i + 1 .. Len(text) + 1 => Len(Slice(i + 3)) = 3
  <2>1. \A to \in i + 1 .. Len(text) + 1 :
          /\ to = i + 1 => Len(Slice(to)) = 1
          /\ to = i + 2 => Len(Slice(to)) = 2
          /\ to = i + 3 => Len(Slice(to)) = 3
    <3>1. SUFFICES ASSUME NEW to \in i + 1 .. Len(text) + 1
                   PROVE  /\ to = i + 1 => Len(Slice(to)) = 1
                          /\ to = i + 2 => Len(Slice(to)) = 2
                          /\ to = i + 3 => Len(Slice(to)) = 3
      OBVIOUS
    <3>2. Len(Slice(to)) = to - i
      BY <1>3
    <3>3. /\ to = i + 1 => to - i = 1
          /\ to = i + 2 => to - i = 2
          /\ to = i + 3 => to - i = 3
      BY <1>0
    <3>4. QED
      BY <3>2, <3>3
  <2>2. QED
    BY <2>1, Zenon
<1>4. ASSUME NEW to \in i + 2 .. Len(text) + 1, Slice(to) \in Symbols
      PROVE  /\ to <= i + 3 /\ d \in Second(c)
             /\ to = i + 3 => c \in {">", "<"} /\ d = c /\ e = "="
  <2>1. to \in i + 1 .. Len(text) + 1 /\ to - i >= 2 /\ (to - i <= 3 => to <= i + 3)
    BY <1>0
  <2>2. Len(Slice(to)) \in 1 .. 3 /\ Len(Slice(to)) = to - i
    BY <1>3, <1>4, <2>1, SymbolWords
  <2>3. d \in Second(c)
    <3>1. Slice(to)[2] = d /\ Slice(to)[1] = c
      BY <1>0, <1>3, <2>1
    <3>2. Slice(to)[2] \in Second(Slice(to)[1])
      BY <1>4, <2>1, <2>2, SymbolWords
    <3>3. QED
      BY <3>1, <3>2
  <2>4. ASSUME to = i + 3
        PROVE  c \in {">", "<"} /\ d = c /\ e = "="
    <3>1. Slice(to)[1] = c /\ Slice(to)[2] = d /\ Slice(to)[3] = e
      BY <1>0, <1>3, <2>1, <2>4
    <3>2. Len(Slice(to)) = 3
      BY <1>0, <2>2, <2>4
    <3>3. Slice(to)[1] \in {">", "<"} /\ Slice(to)[2] = Slice(to)[1] /\ Slice(to)[3] = "="
      BY <1>4, <3>2, SymbolWords
    <3>4. QED
      BY <3>1, <3>3
  <2>5. QED
    BY <1>0, <2>2, <2>3, <2>4
<1>5. /\ <<c>> \in Symbols
      /\ d \in Second(c) => <<c, d>> \in Symbols
      /\ c \in {">", "<"} => <<c, c, "=">> \in Symbols
  BY WordSymbols
<1>6. /\ SymbolEnd(i) \in i + 1 .. Len(text) + 1
      /\ NoNewline(i, SymbolEnd(i))
      /\ Slice(SymbolEnd(i)) \in Symbols
      /\ \A to \in SymbolEnd(i) + 1 .. Len(text) + 1 : Slice(to) \notin Symbols
  <2>1. CASE d \notin Second(c)
    <3>1. SymbolEnd(i) = i + 1
      BY <1>2, <2>1 DEF SymbolEnd
    <3>2. i + 1 \in i + 1 .. Len(text) + 1 /\ NoNewline(i, i + 1)
      BY <1>0, <1>1 DEF NoNewline
    <3>3. Slice(i + 1) = <<c>>
      <4>1. Slice(i + 1) \in Seq(STRING)
        BY <1>3, <3>2
      <4>2. Len(Slice(i + 1)) = 1
        BY <1>s, <3>2
      <4>3. Slice(i + 1)[1] = c
        BY <1>3, <3>2
      <4>4. QED
        BY <4>1, <4>2, <4>3, ShortSequences
    <3>4. \A to \in i + 2 .. Len(text) + 1 : Slice(to) \notin Symbols
      BY <1>4, <2>1
    <3>5. i + 1 + 1 = i + 2
      BY <1>0
    <3>6. QED
      BY <1>5, <3>1, <3>2, <3>3, <3>4, <3>5
  <2>2. CASE d \in Second(c) /\ c \in {">", "<"} /\ d = c /\ e = "="
    <3>1. SymbolEnd(i) = i + 3
      BY <2>2 DEF SymbolEnd
    <3>2. i + 3 \in i + 1 .. Len(text) + 1 /\ NoNewline(i, i + 3)
      <4>1. i + 2 <= Len(text) /\ d # "\n" /\ e # "\n"
        BY <1>0, <1>1, <1>2, <2>2
      <4>2. \A k \in i .. i + 2 : k = i \/ k = i + 1 \/ k = i + 2
        BY <1>0
      <4>3. i + 3 - 1 = i + 2
        BY <1>0
      <4>4. NoNewline(i, i + 3)
        BY <1>1, <4>1, <4>2, <4>3 DEF NoNewline
      <4>5. QED
        BY <1>0, <4>1, <4>4
    <3>3. Slice(i + 3) = <<c, c, "=">>
      <4>1. i + 3 >= i + 2 /\ i + 3 >= i + 3
        BY <1>0
      <4>2. Slice(i + 3) \in Seq(STRING)
        BY <1>3, <3>2
      <4>3. Len(Slice(i + 3)) = 3
        BY <1>s, <3>2
      <4>4. Slice(i + 3)[1] = c /\ Slice(i + 3)[2] = c /\ Slice(i + 3)[3] = "="
        BY <1>3, <2>2, <3>2, <4>1
      <4>5. QED
        BY <4>2, <4>3, <4>4, ShortSequences
    <3>4. \A to \in i + 3 + 1 .. Len(text) + 1 : Slice(to) \notin Symbols
      <4>1. \A to \in i + 3 + 1 .. Len(text) + 1 : to \in i + 2 .. Len(text) + 1 /\ ~(to <= i + 3)
        BY <1>0
      <4>2. QED
        BY <1>4, <4>1
    <3>5. QED
      BY <1>5, <2>2, <3>1, <3>2, <3>3, <3>4
  <2>3. CASE d \in Second(c) /\ ~(c \in {">", "<"} /\ d = c /\ e = "=")
    <3>1. SymbolEnd(i) = i + 2
      BY <2>3 DEF SymbolEnd
    <3>2. i + 2 \in i + 1 .. Len(text) + 1 /\ NoNewline(i, i + 2)
      <4>1. i + 1 <= Len(text) /\ d # "\n"
        BY <1>0, <1>1, <1>2, <2>3
      <4>2. \A k \in i .. i + 2 - 1 : k = i \/ k = i + 1
        BY <1>0
      <4>3. NoNewline(i, i + 2)
        BY <1>1, <4>1, <4>2 DEF NoNewline
      <4>4. QED
        BY <1>0, <4>1, <4>3
    <3>3. Slice(i + 2) = <<c, d>>
      <4>1. i + 2 >= i + 2
        BY <1>0
      <4>2. Slice(i + 2) \in Seq(STRING)
        BY <1>3, <3>2
      <4>3. Len(Slice(i + 2)) = 2
        BY <1>s, <3>2
      <4>4. Slice(i + 2)[1] = c /\ Slice(i + 2)[2] = d
        BY <1>3, <3>2, <4>1
      <4>5. QED
        BY <4>2, <4>3, <4>4, ShortSequences
    <3>4. \A to \in i + 2 + 1 .. Len(text) + 1 : Slice(to) \notin Symbols
      <4>1. \A to \in i + 2 + 1 .. Len(text) + 1 :
              to \in i + 2 .. Len(text) + 1 /\ (to <= i + 3 => to = i + 3)
        BY <1>0
      <4>2. QED
        BY <1>4, <2>3, <4>1
    <3>5. QED
      BY <1>5, <2>3, <3>1, <3>2, <3>3, <3>4
  <2>4. QED
    BY <2>1, <2>2, <2>3
<1>7. QED
  BY <1>6 DEF Slice

LEMMA CutSymbol ==
  ASSUME text \in Texts, NEW i \in 1 .. Len(text) + 1, NEW token, token = TokenAt(i),
         Char(i) \in Symbol, ~BeginsNumber(i)
  PROVE  Cut(i, token)
<1> DEFINE j == SymbolEnd(i)
           w == SubSeq(text, i, j - 1)
<1>0. Len(text) \in Nat /\ i \in Nat
  BY Characters
<1>1. /\ j \in i + 1 .. Len(text) + 1 /\ NoNewline(i, j)
      /\ w \in Symbols
      /\ \A to \in j + 1 .. Len(text) + 1 : SubSeq(text, i, to - 1) \notin Symbols
  BY SymbolEndFound
<1>2. token = [type |-> w, to |-> j, faulty |-> FALSE]
  BY TokenAtIs DEF Plain
<1> HIDE DEF j, w
<1>3. token.type = w /\ token.to = j /\ token.faulty = FALSE
  BY <1>2
<1>4. token.type \in Symbols /\ token.type \notin Special /\ token.type \notin Keywords
  BY <1>1, <1>3, TypesDiffer
<1>5. token.type \notin {String, Number, Line, Error, Name}
  BY <1>4 DEF Special
<1>6. ASSUME NEW line
      PROVE  /\ RightSymbol(SetNextToken(i, token, line))
             /\ RightString(SetNextToken(i, token, line))
             /\ RightNumber(SetNextToken(i, token, line))
  <2> DEFINE t == SetNextToken(i, token, line)
  <2>1. t.type = token.type /\ t.from = i /\ t.to = j
    BY <1>3, SetFields
  <2>2. RightString(t) /\ RightNumber(t)
    BY <1>5, OtherTokens
  <2> HIDE DEF t
  <2>3. t.type \notin Keywords \cup {Name}
    BY <1>4, <1>5, <2>1
  <2>4. t.type = SubSeq(text, t.from, t.to - 1)
    BY <1>3, <2>1 DEF w
  <2>5. \A to \in t.to + 1 .. Len(text) + 1 : SubSeq(text, t.from, to - 1) \notin Symbols
    BY <1>1, <2>1
  <2>6. RightSymbol(t)
    BY <2>3, <2>4, <2>5 DEF RightSymbol
  <2>7. QED
    BY <2>2, <2>6 DEF t
<1>7. token.to \in i .. Len(text) + 1
  BY <1>0, <1>1, <1>3
<1>8. QED
  BY <1>1, <1>3, <1>4, <1>5, <1>6, <1>7, CutIntro

(* Every token of the text is right, but for a string that runs past its end. *)
LEMMA CutToken ==
  ASSUME text \in Texts, NEW i \in 1 .. Len(text) + 1, TokenAt(i).to <= Len(text) + 1
  PROVE  Cut(i, TokenAt(i))
<1>1. CASE BeginsNumber(i)
  BY <1>1, CutNumber
<1>2. CASE ~BeginsNumber(i) /\ Char(i) \in Symbol
  BY <1>2, CutSymbol
<1>3. CASE Char(i) \in Letter
  BY <1>3, CutName
<1>4. CASE Char(i) \in Quote
  BY <1>4, CutString
<1>5. CASE \/ Char(i) \in {NUL, "\n"}
           \/ /\ Char(i) \notin {NUL, "\n"} \cup Quote \cup Symbol \cup Letter
              /\ ~BeginsNumber(i)
  BY <1>5, CutPlain
<1>6. QED
  BY <1>1, <1>2, <1>3, <1>4, <1>5

-----------------------------------------------------------------------------
(* Lines. *)

LEMMA NewlinesCount ==
  ASSUME NEW i \in Nat, NEW j \in Nat, i <= j
  PROVE  /\ Newlines(i, j) \in Nat /\ Newlines(i, j) <= j - i
         /\ NoNewline(i, j) => Newlines(i, j) = 0
         /\ j = i + 1 /\ Char(i) = "\n" => Newlines(i, j) = 1
<1> DEFINE S == {k \in i .. j - 1 : Char(k) = "\n"}
<1>1. IsFiniteSet(i .. j - 1) /\ Cardinality(i .. j - 1) = j - i
  <2>1. /\ IsFiniteSet(i .. j - 1)
        /\ Cardinality(i .. j - 1) = IF i > j - 1 THEN 0 ELSE j - 1 - i + 1
    <3>1. i \in Int /\ j - 1 \in Int
      OBVIOUS
    <3>2. QED
      BY <3>1, FS_Interval
  <2>2. QED
    BY <2>1
<1>2. S \in SUBSET (i .. j - 1)
  OBVIOUS
<1>3. IsFiniteSet(S) /\ Cardinality(S) <= j - i
  BY <1>1, <1>2, FS_Subset
<1>4. Cardinality(S) \in Nat
  BY <1>3, FS_CardinalityType
<1>5. ASSUME NoNewline(i, j)
      PROVE  Cardinality(S) = 0
  BY <1>5, FS_EmptySet DEF NoNewline
<1>6. ASSUME j = i + 1, Char(i) = "\n"
      PROVE  Cardinality(S) = 1
  <2>1. S = {i}
    BY <1>6
  <2>2. QED
    BY <2>1, FS_Singleton
<1>7. QED
  BY <1>3, <1>4, <1>5, <1>6 DEF Newlines

LEMMA NewlinesAdd ==
  ASSUME NEW i \in Nat, NEW j \in Nat, NEW k \in Nat, i <= j, j <= k
  PROVE  Newlines(i, k) = Newlines(i, j) + Newlines(j, k)
<1> DEFINE S == {l \in i .. j - 1 : Char(l) = "\n"}
           T == {l \in j .. k - 1 : Char(l) = "\n"}
           U == {l \in i .. k - 1 : Char(l) = "\n"}
<1>1. IsFiniteSet(S) /\ IsFiniteSet(T)
  <2>1. IsFiniteSet(i .. j - 1) /\ IsFiniteSet(j .. k - 1)
    BY FS_Interval
  <2>2. S \in SUBSET (i .. j - 1) /\ T \in SUBSET (j .. k - 1)
    OBVIOUS
  <2>3. QED
    BY <2>1, <2>2, FS_Subset
<1>2. U = S \cup T /\ S \cap T = {}
  OBVIOUS
<1>3. Cardinality(S) \in Nat /\ Cardinality(T) \in Nat
  BY <1>1, FS_CardinalityType
<1> HIDE DEF S, T, U
<1>4. Cardinality(U) = Cardinality(S) + Cardinality(T) - Cardinality({})
  BY <1>1, <1>2, FS_Union
<1>5. Cardinality(U) = Cardinality(S) + Cardinality(T)
  BY <1>3, <1>4, FS_EmptySet
<1>6. QED
  BY <1>5 DEF Newlines, S, T, U

-----------------------------------------------------------------------------
(* The window. *)

(* A token that was lexed. *)
Lexeme(t) ==
  /\ t.from \in 1 .. Len(text) + 1
  /\ t.to \in t.from .. Len(text) + 1
  /\ t.faulty \in BOOLEAN
  /\ t.type \in Special \cup Symbols \cup Keywords
  /\ t.type = Error => t.faulty
  /\ t.faulty => t.type \in {Error, String, Number}
  /\ t.type = Eof => t.to = t.from
  /\ RightSymbol(t) /\ RightString(t) /\ RightNumber(t) /\ RightLine(t)

(* The invariant that is inductive: what the window holds was lexed, or is   *)
(* what compilerInit() leaves there; the next character to eat is the one    *)
(* after the token lexed last, and the lines counted are those before it;    *)
(* and behind the end there is nothing but the end.                          *)
IInv ==
  /\ text \in Texts
  /\ current_char \in 1 .. Len(text) + 2
  /\ current_line \in 1 .. Len(text) + 1
  /\ \A t \in {previous, current, next} : t = Unlexed \/ Lexeme(t)
  /\ current_char <= Len(text) + 1 => /\ next.to = current_char
                                      /\ current_line = 1 + Newlines(1, current_char)
  /\ current.type = Eof => next.type = Eof
  /\ NothingLost

LEMMA EofIsTheEnd ==
  ASSUME NEW i, TokenAt(i).type = Eof, text \in Texts, i \in 1 .. Len(text) + 1,
         TokenAt(i).to <= Len(text) + 1
  PROVE  TokenAt(i).to = i
<1>1. CASE Char(i) = NUL
  <2>1. TokenAt(i) = [type |-> Eof, to |-> i, faulty |-> FALSE]
    BY <1>1, TokenAtIs DEF Plain
  <2>2. QED
    BY <2>1
<1>2. CASE BeginsNumber(i) \/ Char(i) \in Quote \cup Symbol \cup Letter \cup {"\n"}
  <2>1. CASE BeginsNumber(i) \/ Char(i) \in Quote
    <3>1. TokenAt(i).type \in {Number, String}
      BY <2>1, TokenAtIs DEF Lexed
    <3>2. QED
      BY <3>1, TypesDiffer
  <2>2. CASE ~BeginsNumber(i) /\ Char(i) \in Symbol
    <3>1. TokenAt(i).type = SubSeq(text, i, SymbolEnd(i) - 1)
      BY <2>2, TokenAtIs DEF Plain
    <3>2. TokenAt(i).type \in Symbols
      BY <2>2, <3>1, SymbolEndFound
    <3>3. QED
      BY <3>2, TypesDiffer DEF Special
  <2>3. CASE Char(i) \in Letter
    <3> DEFINE j == EndOf(i, Letter \cup Digit)
    <3>1. TokenAt(i).type \in Keywords \cup {Name}
      <4>1. TokenAt(i) = [type |-> NameType(i, j), to |-> j, faulty |-> FALSE]
        BY <2>3, TokenAtIs DEF Plain
      <4> HIDE DEF j
      <4>2. TokenAt(i).type = NameType(i, j)
        BY <4>1
      <4>3. QED
        BY <4>2 DEF NameType
    <3>2. QED
      BY <3>1, TypesDiffer DEF Special
  <2>4. CASE Char(i) = "\n"
    <3>1. TokenAt(i).type = Line
      BY <2>4, TokenAtIs DEF Plain
    <3>2. QED
      BY <3>1, TypesDiffer
  <2>5. QED
    BY <1>2, <2>1, <2>2, <2>3, <2>4
<1>3. CASE /\ Char(i) \notin {NUL, "\n"} \cup Quote \cup Symbol \cup Letter
           /\ ~BeginsNumber(i)
  <2>1. TokenAt(i).type = Error
    BY <1>3, TokenAtIs DEF Invalid
  <2>2. QED
    BY <2>1, TypesDiffer
<1>4. QED
  BY <1>1, <1>2, <1>3

(* setNextToken() gives the token its place and its line. *)
LEMMA SetLexeme ==
  ASSUME text \in Texts, NEW i \in 1 .. Len(text) + 1, NEW token, token = TokenAt(i),
         token.to <= Len(text) + 1,
         NEW line, line = 1 + Newlines(1, token.to),
         NEW t, t = SetNextToken(i, token, line)
  PROVE  Lexeme(t)
<1>0. Len(text) \in Nat
  BY Characters
<1>1. Cut(i, token)
  BY CutToken
<1>2. t.type = token.type /\ t.from = i /\ t.to = token.to /\ t.faulty = token.faulty
  BY SetFields
<1>3. RightSymbol(t) /\ RightString(t) /\ RightNumber(t)
  BY <1>1 DEF Cut
<1>4. token.to \in i .. Len(text) + 1
  BY <1>1 DEF Cut
<1>5. t.line = IF token.type = Line THEN line - 1 ELSE line
  BY DEF SetNextToken
<1>6. /\ Newlines(1, token.to) = Newlines(1, i) + Newlines(i, token.to)
      /\ Newlines(1, i) \in Nat
  <2>1. 1 \in Nat /\ i \in Nat /\ token.to \in Nat /\ 1 <= i /\ i <= token.to
    BY <1>0, <1>4
  <2>2. Newlines(1, token.to) = Newlines(1, i) + Newlines(i, token.to)
    BY <2>1, NewlinesAdd
  <2>3. Newlines(1, i) \in Nat
    BY <2>1, NewlinesCount
  <2>4. QED
    BY <2>2, <2>3
<1>7. RightLine(t)
  <2>1. CASE token.type = Line
    <3>1. token.to = i + 1 /\ Char(i) = "\n" /\ token.type # String
      BY <1>1, <2>1, TypesDiffer DEF Cut
    <3>2. Newlines(i, token.to) = 1
      <4>1. i \in Nat /\ token.to \in Nat /\ i <= token.to
        BY <1>0, <1>4
      <4>2. QED
        BY <3>1, <4>1, NewlinesCount
    <3>3. QED
      BY <1>2, <1>5, <1>6, <2>1, <3>1, <3>2 DEF RightLine
  <2>2. CASE token.type = String
    BY <1>2, <1>5, <2>2, TypesDiffer DEF RightLine
  <2>3. CASE token.type \notin {String, Line}
    <3>1. NoNewline(i, token.to)
      BY <1>1, <2>3 DEF Cut
    <3>2. Newlines(i, token.to) = 0
      <4>1. i \in Nat /\ token.to \in Nat /\ i <= token.to
        BY <1>0, <1>4
      <4>2. QED
        BY <3>1, <4>1, NewlinesCount
    <3>3. QED
      BY <1>2, <1>5, <1>6, <2>3, <3>2 DEF RightLine
  <2>4. QED
    BY <2>1, <2>2, <2>3
<1>8. t.type = Eof => t.to = t.from
  BY <1>2, EofIsTheEnd
<1>9. QED
  BY <1>1, <1>2, <1>3, <1>7, <1>8 DEF Cut, Lexeme

LEMMA SameLexeme ==
  ASSUME text' = text, NEW t
  PROVE  Lexeme(t)' <=> Lexeme(t)
BY SameText DEF Lexeme

LEMMA InitIInv == Init => IInv
<1> SUFFICES ASSUME Init
             PROVE  IInv
  OBVIOUS
<1>1. text \in Texts /\ Len(text) \in Nat /\ current_char = 1 /\ current_line = 1
  BY Characters DEF Init
<1>2. previous = Unlexed /\ current = Unlexed /\ next = Unlexed
  BY DEF Init
<1>3. next.to = 1 /\ next.from = 0 /\ current.type = Error
  BY <1>2 DEF Unlexed
<1>4. Newlines(1, 1) = 0
  BY NewlinesCount DEF NoNewline
<1>5. current.type # Eof
  BY <1>3, TypesDiffer
<1>6. NothingLost
  BY <1>3 DEF NothingLost
<1>7. QED
  BY <1>1, <1>2, <1>3, <1>4, <1>5, <1>6 DEF IInv

(* A token is lexed behind the last one. *)
LEMMA LexedIInv ==
  ASSUME IInv, LexToken, next.type # Eof
  PROVE  IInv'
<1> DEFINE start == TokenStart(current_char)
           token == TokenAt(start)
           line  == current_line + Newlines(current_char, token.to)
<1>0. /\ text \in Texts /\ Len(text) \in Nat
      /\ current_char \in 1 .. Len(text) + 1
      /\ next.to = current_char
      /\ current_line = 1 + Newlines(1, current_char)
  BY Characters DEF IInv, LexToken
<1>1. /\ previous' = current /\ current' = next
      /\ token.to <= Len(text) + 1
      /\ next' = SetNextToken(start, token, line)
      /\ current_char' = token.to
      /\ current_line' = line
      /\ text' = text
  BY DEF LexToken
<1>2. /\ start \in current_char .. Len(text) + 1
      /\ Char(start) \notin Blank \cup {"#"}
      /\ Ignored(current_char, start)
  BY <1>0, TokenStartFound
<1>3. start \in 1 .. Len(text) + 1
  BY <1>0, <1>2
<1> HIDE DEF start
<1>4. token.to \in start .. Len(text) + 1
  BY <1>0, <1>1, <1>3, CutToken DEF Cut
<1>5. /\ line = 1 + Newlines(1, token.to)
      /\ line \in 1 .. Len(text) + 1
  <2>0. /\ 1 \in Nat /\ current_char \in Nat /\ token.to \in Nat
        /\ 1 <= current_char /\ current_char <= token.to /\ 1 <= token.to
    BY <1>0, <1>2, <1>3, <1>4
  <2>1. Newlines(1, token.to) = Newlines(1, current_char) + Newlines(current_char, token.to)
    BY <2>0, NewlinesAdd
  <2>2. Newlines(1, current_char) \in Nat
    BY <2>0, NewlinesCount
  <2>3. Newlines(current_char, token.to) \in Nat
    BY <2>0, NewlinesCount
  <2>4. Newlines(1, token.to) \in Nat /\ Newlines(1, token.to) <= token.to - 1
    BY <2>0, NewlinesCount
  <2>5. line = 1 + Newlines(1, token.to)
    BY <1>0, <2>1, <2>2, <2>3
  <2>6. token.to <= Len(text) + 1
    BY <1>1
  <2>7. QED
    BY <1>0, <2>0, <2>4, <2>5, <2>6
<1> HIDE DEF token, line
<1>6. /\ next'.type = token.type /\ next'.from = start /\ next'.to = token.to
  BY <1>1, SetFields
<1>7. ASSUME NEW t \in {previous', current', next'}
      PROVE  t = Unlexed \/ Lexeme(t)'
  <2>1. t = Unlexed \/ Lexeme(t)
    <3>1. CASE t \in {current, next}
      BY <3>1 DEF IInv
    <3>2. CASE t = SetNextToken(start, token, line)
      BY <1>0, <1>1, <1>3, <1>5, <3>2, SetLexeme DEF token
    <3>3. QED
      BY <1>1, <1>7, <3>1, <3>2
  <2>2. QED
    BY <1>1, <2>1, SameLexeme
<1>8. NothingLost'
  <2>1. current'.to <= next'.from
    BY <1>0, <1>1, <1>2, <1>6
  <2>2. Ignored(current.to, next.from)'
    BY <1>0, <1>1, <1>2, <1>6 DEF Ignored
  <2>3. Char(next.from)' \notin Blank \cup {"#"}
    BY <1>1, <1>2, <1>6 DEF Char
  <2>4. QED
    BY <2>1, <2>2, <2>3 DEF NothingLost
<1>9. (current.type = Eof)' => (next.type = Eof)'
  BY <1>1
<1>10. current_line' = 1 + Newlines(1, current_char)'
  BY <1>1, <1>5 DEF Newlines, Char
<1>11. /\ current_char' \in 1 .. Len(text') + 2 /\ next'.to = current_char'
       /\ current_line' \in 1 .. Len(text') + 1
  BY <1>0, <1>1, <1>3, <1>4, <1>5, <1>6
<1>12. QED
  BY <1>0, <1>1, <1>7, <1>8, <1>9, <1>10, <1>11 DEF IInv

LEMMA LexedFrom ==
  ASSUME IInv, LexToken, next.type # Eof
  PROVE  next'.from # 0
<1> DEFINE start == TokenStart(current_char)
           token == TokenAt(start)
           line  == current_line + Newlines(current_char, token.to)
<1>1. text \in Texts /\ Len(text) \in Nat /\ current_char \in 1 .. Len(text) + 1
  BY Characters DEF IInv, LexToken
<1>2. next' = SetNextToken(start, token, line)
  BY DEF LexToken
<1>3. start \in current_char .. Len(text) + 1
  BY <1>1, TokenStartFound
<1> HIDE DEF start, token, line
<1>4. next'.from = start
  BY <1>2, SetFields
<1>5. QED
  BY <1>1, <1>3, <1>4

(* At the end the window shifts, and its end is repeated. *)
LEMMA EndedIInv ==
  ASSUME IInv, LexToken, next.type = Eof
  PROVE  IInv'
<1>1. /\ previous' = current /\ current' = next /\ next' = next
      /\ UNCHANGED <<text, current_char, current_line>>
  BY DEF LexToken
<1>2. ASSUME NEW t \in {previous', current', next'}
      PROVE  t = Unlexed \/ Lexeme(t)'
  <2>1. t = Unlexed \/ Lexeme(t)
    BY <1>1, <1>2 DEF IInv
  <2>2. QED
    BY <1>1, <2>1, SameLexeme
<1>3. Lexeme(next)
  <2>1. next # Unlexed
    BY TypesDiffer DEF Unlexed
  <2>2. QED
    BY <2>1 DEF IInv
<1>4. next.to = next.from /\ next.from \in Nat
  BY <1>3 DEF Lexeme
<1>5. Char(next.from) \notin Blank \cup {"#"}
  BY <1>3 DEF IInv, NothingLost, Lexeme
<1>6. NothingLost'
  BY <1>1, <1>4, <1>5 DEF NothingLost, Char
<1>7. (current_char <= Len(text) + 1 => /\ next.to = current_char
                                       /\ current_line = 1 + Newlines(1, current_char))'
  BY <1>1 DEF IInv, Newlines, Char
<1>8. /\ text' \in Texts
      /\ current_char' \in 1 .. Len(text') + 2
      /\ current_line' \in 1 .. Len(text') + 1
      /\ current'.type = Eof => next'.type = Eof
  BY <1>1 DEF IInv
<1>9. QED
  BY <1>2, <1>6, <1>7, <1>8 DEF IInv

(* Whatever does not touch the window keeps what it holds. *)
LEMMA WindowKept ==
  ASSUME IInv, UNCHANGED <<text, current_line, previous, current, next>>,
         current_char' \in 1 .. Len(text) + 2,
         current_char' = current_char \/ current_char' > Len(text) + 1
  PROVE  IInv'
<1>0. Len(text) \in Nat
  BY Characters DEF IInv
<1>1. ASSUME NEW t \in {previous', current', next'}
      PROVE  t = Unlexed \/ Lexeme(t)'
  BY <1>1, SameLexeme DEF IInv
<1>2. NothingLost'
  BY DEF IInv, NothingLost, Ignored, Char
<1>3. (current_char <= Len(text) + 1 => /\ next.to = current_char
                                       /\ current_line = 1 + Newlines(1, current_char))'
  <2>1. CASE current_char' = current_char
    BY <2>1 DEF IInv, Newlines, Char
  <2>2. CASE current_char' > Len(text) + 1
    <3>1. ~(current_char' <= Len(text') + 1)
      BY <1>0, <2>2
    <3>2. QED
      BY <3>1
  <2>3. QED
    BY <2>1, <2>2
<1>4. QED
  BY <1>1, <1>2, <1>3 DEF IInv

LEMMA NextIInv == IInv /\ [Next]_vars => IInv'
<1> SUFFICES ASSUME IInv, [Next]_vars
             PROVE  IInv'
  OBVIOUS
<1>0. Len(text) \in Nat /\ current_char \in 1 .. Len(text) + 2
  BY Characters DEF IInv
<1>1. CASE LexToken
  BY <1>1, LexedIInv, EndedIInv
<1>2. CASE ReadPastTheEnd
  <2>1. /\ UNCHANGED <<text, current_line, previous, current, next>>
        /\ current_char' = Len(text) + 2
    BY <1>2 DEF ReadPastTheEnd
  <2>2. current_char' \in 1 .. Len(text) + 2 /\ current_char' > Len(text) + 1
    BY <1>0, <2>1
  <2>3. QED
    BY <2>1, <2>2, WindowKept
<1>3. CASE UNCHANGED vars
  BY <1>0, <1>3, WindowKept DEF vars
<1>4. QED
  BY <1>1, <1>2, <1>3 DEF Next

LEMMA Follows == IInv => TokensAreRight
<1> SUFFICES ASSUME IInv
             PROVE  TokensAreRight
  OBVIOUS
<1>0. Len(text) \in Nat
  BY Characters DEF IInv
<1>1. ASSUME NEW t \in {previous, current, next}, t.from > 0
      PROVE  Lexeme(t)
  <2>1. Unlexed.from = 0
    BY DEF Unlexed
  <2>2. t # Unlexed
    BY <1>1, <2>1
  <2>3. QED
    BY <1>1, <2>2 DEF IInv
<1>2. \A t \in Tokens : RightSymbol(t) /\ RightString(t) /\ RightNumber(t) /\ RightLine(t)
  BY <1>1 DEF Tokens, Lexeme
<1>3. LongestSymbol /\ StringsEndAtTheirQuote /\ NumbersAreLongest /\ LinesCounted
  BY <1>2, RightDefs
<1>4. ASSUME NEW t \in {previous, current, next}
      PROVE  /\ t.from \in 0 .. Len(text) + 1
             /\ t.to \in 1 .. Len(text) + 1
             /\ t.faulty \in BOOLEAN
  <2>1. CASE t = Unlexed
    <3>1. t.from = 0 /\ t.to = 1 /\ t.faulty \in BOOLEAN
      BY <2>1 DEF Unlexed
    <3>2. 0 \in 0 .. Len(text) + 1 /\ 1 \in 1 .. Len(text) + 1
      BY <1>0
    <3>3. QED
      BY <3>1, <3>2
  <2>2. CASE Lexeme(t)
    BY <1>0, <2>2 DEF Lexeme
  <2>3. QED
    BY <1>4, <2>1, <2>2 DEF IInv
<1>5. TypeOK
  BY <1>4 DEF IInv, TypeOK
<1>6. QED
  BY <1>3, <1>5 DEF IInv, TokensAreRight

-----------------------------------------------------------------------------

(* The window and the place in the text agree after every lexToken().        *)
THEOREM Invariant == Spec => []IInv
BY InitIInv, NextIInv, PTL DEF Spec

(* For every text of characters and every table of keywords: what            *)
(* lexToken() puts in the window is the text, nothing of it lost or lexed    *)
(* twice, every symbol, name, string and number as long as it can be, every  *)
(* token on its line, and a string faulty if it has no end or an escape that *)
(* is not known.                                                             *)
THEOREM TokensRight == Spec => []TokensAreRight
BY Invariant, Follows, PTL

(* For every text: the parser's assumption of its tokens holds of the lexer. *)
(* The window shifts by one token, the end lasts, and a token of type        *)
(* TK_ERROR, but for the first that compilerInit() puts there, comes with an *)
(* error that was reported.                                                  *)
THEOREM ImplementsSource == Spec => LexerIsASource
<1>1. Init => Source!Init
  <2> SUFFICES ASSUME Init
               PROVE  Source!Init
    OBVIOUS
  <2>1. previous.type = Error /\ current.type = Error /\ next.from = 0
    BY DEF Init, Unlexed
  <2>2. KindOf(next) = "unlexed"
    BY <2>1 DEF KindOf
  <2>3. QED
    BY <2>1, <2>2 DEF Source!Init
<1>2. IInv /\ IInv' /\ [Next]_vars => [Source!Next]_(Source!tokens)
  <2> SUFFICES ASSUME IInv, IInv', [Next]_vars
               PROVE  Source!Next \/ UNCHANGED Source!tokens
    OBVIOUS
  <2>1. CASE LexToken
    <3>0. /\ previous' = current /\ current' = next
          /\ next.type = Eof => next' = next
      BY <2>1 DEF LexToken
    <3>1. next.type \in Source!TypesOf(KindOf(next))
      <4>1. CASE next = Unlexed
        <5>1. next.from = 0 /\ next.type = Error
          BY <4>1 DEF Unlexed
        <5>2. KindOf(next) = "unlexed"
          BY <5>1 DEF KindOf
        <5>3. QED
          BY <5>1, <5>2 DEF Source!TypesOf
      <4>2. CASE Lexeme(next)
        <5>1. /\ next.from \in Int /\ next.from > 0 /\ next.faulty \in BOOLEAN
              /\ next.type \in Special \cup Symbols \cup Keywords
              /\ next.faulty => next.type \in {Error, String, Number}
          BY <4>2 DEF Lexeme
        <5>2. CASE next.type = Error
          <6>1. KindOf(next) = "error"
            BY <5>1, <5>2 DEF KindOf
          <6>2. QED
            BY <5>2, <6>1 DEF Source!TypesOf
        <5>3. CASE next.type # Error /\ next.faulty
          BY <5>1, <5>3 DEF KindOf, Source!TypesOf
        <5>4. CASE next.type # Error /\ ~next.faulty
          BY <5>1, <5>4 DEF KindOf, Source!TypesOf, Special
        <5>5. QED
          BY <5>2, <5>3, <5>4
      <4>3. QED
        BY <4>1, <4>2 DEF IInv
    <3>2. ASSUME next.type # Eof
          PROVE  KindOf(next)' \in {"error", "faulty", "good"}
      <4>1. next'.from # 0
        BY <2>1, <3>2, LexedFrom
      <4>2. QED
        BY <4>1 DEF KindOf
    <3>3. CASE current.type = Eof
      <4>1. next.type = Eof
        BY <3>3 DEF IInv
      <4>2. KindOf(next)' = KindOf(next)
        BY <3>0, <4>1 DEF KindOf
      <4>3. QED
        BY <3>0, <3>3, <4>1, <4>2 DEF Source!Next, Source!LexToken
    <3>4. CASE current.type # Eof /\ next.type = Eof
      <4>1. KindOf(next)' = KindOf(next)
        BY <3>0, <3>4 DEF KindOf
      <4>2. QED
        BY <3>0, <3>1, <3>4, <4>1 DEF Source!Next, Source!LexToken
    <3>5. CASE current.type # Eof /\ next.type # Eof
      BY <3>0, <3>1, <3>2, <3>5 DEF Source!Next, Source!LexToken, Source!Kinds
    <3>6. QED
      BY <3>3, <3>4, <3>5
  <2>2. CASE ReadPastTheEnd
    BY <2>2 DEF ReadPastTheEnd, Source!tokens, KindOf
  <2>3. CASE UNCHANGED vars
    BY <2>3 DEF vars, Source!tokens, KindOf
  <2>4. QED
    BY <2>1, <2>2, <2>3 DEF Next
<1>3. QED
  BY <1>1, <1>2, Invariant, PTL DEF Spec, LexerIsASource, Source!Spec
=============================================================================
