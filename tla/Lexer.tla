------------------------------- MODULE Lexer -------------------------------
(* The lexer of pk_compiler.c: lexToken() and the functions it calls, over  *)
(* a text that ends in a null byte.  A position is an index of the text;    *)
(* the null byte is at the position after the last.  The type of a keyword  *)
(* or a symbol is its characters.                                           *)
EXTENDS Integers, Sequences, FiniteSets

CONSTANTS
  Texts,    \* The texts lexed, sequences of characters.
  Keywords, \* The table _keywords.
  BinMax,   \* STR_BIN_BUFF_SIZE - 2, the longest binary literal.
  HexMax    \* STR_HEX_BUFF_SIZE - 2, the longest hexadecimal literal.

ASSUME LexerAssumption == /\ BinMax \in Nat /\ BinMax > 2
                          /\ HexMax \in Nat /\ HexMax > 2

VARIABLES
  text,                   \* The source.
  current_char,           \* The position of the next character to eat.
  current_line,           \* The lines counted so far.
  previous, current, next \* The window of tokens.

vars == <<text, current_char, current_line, previous, current, next>>

NUL == "NUL"
Digit == {"0", "1", "2", "3", "4", "5", "6", "7", "8", "9"}
Letter == {"a", "b", "c", "d", "e", "f", "g", "h", "i", "j", "k", "l", "m",
           "n", "o", "p", "q", "r", "s", "t", "u", "v", "w", "x", "y", "z",
           "A", "B", "C", "D", "E", "F", "G", "H", "I", "J", "K", "L", "M",
           "N", "O", "P", "Q", "R", "S", "T", "U", "V", "W", "X", "Y", "Z", "_"}
Blank == {" ", "\t", "\r"}
Escape == {"\"", "'", "\\", "n", "r", "t"}
BinChar == {"0", "1"}
HexChar == Digit \cup {"a", "b", "c", "d", "e", "f"}

Eof == <<"eof">>
Error == <<"error">>
Name == <<"name">>
String == <<"string">>
Number == <<"number">>
Line == <<"\n">>

(* A text ends at its null byte; a keyword is written in letters. *)
ASSUME CharactersAssumption == /\ Texts \subseteq Seq(STRING \ {NUL})
                               /\ Keywords \subseteq Seq(Letter) \ {<<>>}

(* peekChar() *)
Char(i) == IF i <= Len(text) THEN text[i] ELSE NUL

(* Where a loop that eats the characters of a set stops. *)
EndOf(i, set) == CHOOSE j \in i .. Len(text) + 1 :
                    /\ Char(j) \notin set
                    /\ \A k \in i .. j - 1 : Char(k) \in set

Newlines(i, j) == Cardinality({k \in i .. j - 1 : Char(k) = "\n"})

(* Blanks and comments: a comment leaves the end of its line. *)
TokenStart(i) ==
  LET Skip[j \in 1 .. Len(text) + 1] ==
        CASE Char(j) \in Blank -> Skip[EndOf(j, Blank)]
          [] Char(j) = "#" ->
               LET ends == {k \in j .. Len(text) + 1 : Char(k) \in {"\n", NUL}}
               IN  Skip[CHOOSE k \in ends : \A l \in ends : k <= l]
          [] OTHER -> j
  IN  Skip[i]

(* A fault: an escaped quote ends the string. *)
StringEndUnescaped(i, quote) ==
  LET Eat[j \in 1 .. Len(text) + 2] ==
        CASE j = Len(text) + 2 -> [to |-> j, faulty |-> TRUE]
          [] Char(j) = quote   -> [to |-> j + 1, faulty |-> FALSE]
          [] Char(j) = NUL     -> [to |-> j, faulty |-> TRUE]
          [] OTHER -> Eat[j + 1]
  IN  Eat[i]

(* eatString() from the position after the quote: where the string ends, and *)
(* whether an error was reported.  A backslash eats whatever follows it, the *)
(* null byte too.                                                            *)
StringEnd(i, quote) ==
  LET Eat[j \in 1 .. Len(text) + 2] ==
        CASE j = Len(text) + 2 -> [to |-> j, faulty |-> TRUE]
          [] Char(j) = quote   -> [to |-> j + 1, faulty |-> FALSE]
          [] Char(j) = NUL     -> [to |-> j, faulty |-> TRUE]
          [] Char(j) = "\\" /\ Char(j) # quote ->
               [Eat[j + 2] EXCEPT !.faulty = @ \/ Char(j + 1) \notin Escape]
          [] OTHER -> Eat[j + 1]
  IN  Eat[i]

(* A literal of base two or sixteen from its first digit: it is cut after    *)
(* the digit that makes it too long.                                         *)
BasedEnd(start, i, set, max) ==
  LET end == EndOf(i, set)
  IN  IF end - start > max THEN [to |-> start + max + 1, faulty |-> TRUE]
                           ELSE [to |-> end, faulty |-> end = i]

(* The rest of a decimal literal: a fraction, then an exponent. *)
FractionEnd(i) ==
  IF Char(i) = "." /\ Char(i + 1) \in Digit THEN EndOf(i + 1, Digit) ELSE i

ExponentEnd(i) ==
  IF Char(i) \notin {"e", "E"} THEN [to |-> i, faulty |-> FALSE]
  ELSE LET sign == IF Char(i + 1) \in {"+", "-"} THEN i + 2 ELSE i + 1
       IN  [to |-> EndOf(sign, Digit), faulty |-> Char(sign) \notin Digit]

(* eatNumber(), i being the position after the first character eaten. *)
NumberEnd(start, i) ==
  CASE Char(start) = "0" /\ Char(i) = "b" -> BasedEnd(start, i + 1, BinChar, BinMax)
    [] Char(start) = "0" /\ Char(i) = "x" -> BasedEnd(start, i + 1, HexChar, HexMax)
    [] OTHER -> ExponentEnd(FractionEnd(EndOf(i, Digit)))

(* What matchChar() lets a symbol go on with: its second and third characters. *)
Single == {",", ":", ";", "(", ")", "[", "]", "{", "}", "~"}
WithEqual == {"%", "&", "|", "^", "=", "!", "+", "*", "/"}
Second(c) == CASE c \in WithEqual  -> {"="}
               [] c \in {">", "<"} -> {c, "="}
               [] c = "-"          -> {"=", ">"}
               [] c = "."          -> {"."}
               [] OTHER            -> {}
Symbol == Single \cup WithEqual \cup {">", "<", "-", "."}

SymbolEnd(i) ==
  CASE Char(i + 1) \notin Second(Char(i)) -> i + 1
    [] Char(i) \in {">", "<"} /\ Char(i + 1) = Char(i) /\ Char(i + 2) = "=" -> i + 3
    [] OTHER -> i + 2

(* eatName(): a keyword's type is the keyword. *)
NameType(i, j) ==
  LET name == SubSeq(text, i, j - 1)
  IN  IF name \in Keywords THEN name ELSE Name

(* The type, end and faults of the token that begins at i. *)
Lexed(type, end) == [type |-> type, to |-> end.to, faulty |-> end.faulty]
Plain(type, to) == [type |-> type, to |-> to, faulty |-> FALSE]

(* A fault: such a character is left where it is. *)
InvalidKept(i) == [type |-> Error, to |-> i, faulty |-> TRUE]

(* A character no token begins with is reported and eaten. *)
Invalid(i) == [type |-> Error, to |-> i + 1, faulty |-> TRUE]

TokenAt(i) ==
  LET c == Char(i)
      name == EndOf(i, Letter \cup Digit)
  IN  CASE c = NUL            -> Plain(Eof, i)
        [] c = "\n"           -> Plain(Line, i + 1)
        [] c \in {"\"", "'"}  -> Lexed(String, StringEnd(i + 1, c))
        [] c \in Digit        -> Lexed(Number, NumberEnd(i, i + 1))
        [] c = "." /\ Char(i + 1) \in Digit -> Lexed(Number, NumberEnd(i, i + 2))
        [] c \in Symbol /\ ~(c = "." /\ Char(i + 1) \in Digit) ->
             Plain(SubSeq(text, i, SymbolEnd(i) - 1), SymbolEnd(i))
        [] c \in Letter       -> Plain(NameType(i, name), name)
        [] OTHER              -> Invalid(i)

(* setNextToken(): a line's own token is on the line it ends. *)
SetNextToken(i, t, line) ==
  [type |-> t.type, from |-> i, to |-> t.to, faulty |-> t.faulty,
   line |-> IF t.type = Line THEN line - 1 ELSE line]

Unlexed == [type |-> Error, from |-> 0, to |-> 1, faulty |-> FALSE, line |-> 1]

Init ==
  /\ text \in Texts
  /\ current_char = 1
  /\ current_line = 1
  /\ previous = Unlexed
  /\ current = Unlexed
  /\ next = Unlexed

(* A fault: the window shifts in the wrong order. *)
LexTokenSwapped ==
  LET start == TokenStart(current_char)
      token == TokenAt(start)
      line  == current_line + Newlines(current_char, token.to)
  IN  /\ current_char <= Len(text) + 1
      /\ current' = next
      /\ previous' = current'
      /\ IF next.type = Eof
         THEN UNCHANGED <<text, current_char, current_line, next>>
         ELSE /\ token.to <= Len(text) + 1
              /\ next' = SetNextToken(start, token, line)
              /\ current_char' = token.to
              /\ current_line' = line
              /\ UNCHANGED text

(* lexToken(), unless a string runs past the end. *)
LexToken ==
  LET start == TokenStart(current_char)
      token == TokenAt(start)
      line  == current_line + Newlines(current_char, token.to)
  IN  /\ current_char <= Len(text) + 1
      /\ previous' = current
      /\ current' = next
      /\ IF next.type = Eof
         THEN UNCHANGED <<text, current_char, current_line, next>>
         ELSE /\ token.to <= Len(text) + 1
              /\ next' = SetNextToken(start, token, line)
              /\ current_char' = token.to
              /\ current_line' = line
              /\ UNCHANGED text

(* A backslash before the null byte: eatString() reads what is behind the    *)
(* text, and what it does then is anybody's guess.                           *)
ReadPastTheEnd ==
  /\ current_char <= Len(text) + 1
  /\ next.type # Eof
  /\ TokenAt(TokenStart(current_char)).to = Len(text) + 2
  /\ current_char' = Len(text) + 2
  /\ UNCHANGED <<text, current_line, previous, current, next>>

Next == LexToken \/ ReadPastTheEnd

Spec == Init /\ [][Next]_vars /\ WF_vars(Next)

-----------------------------------------------------------------------------
(* The window's types are those the parser is told of: TokenSource. *)

KindOf(token) ==
  CASE token.from = 0 -> "unlexed"
    [] token.from > 0 /\ token.type = Error -> "error"
    [] token.from > 0 /\ token.type # Error /\ token.faulty -> "faulty"
    [] OTHER -> "good"

(* The symbols of the enum TokenType, but for the two never lexed, # and \.  *)
Symbols ==
  {<<s>> : s \in {".", ",", ":", ";", "(", ")", "[", "]", "{", "}", "%", "~", "&",
                  "|", "^", "+", "-", "*", "/", "=", ">", "<", "!"}}
  \cup {<<s, "=">> : s \in {"=", "!", ">", "<", "+", "-", "*", "/", "%", "&", "|", "^"}}
  \cup {<<".", ".">>, <<"-", ">">>, <<">", ">">>, <<"<", "<">>,
        <<">", ">", "=">>, <<"<", "<", "=">>}

Source == INSTANCE TokenSource WITH
            Token    <- Symbols \cup Keywords \cup {Eof, Line, Name, String, Number},
            Literal  <- {String, Number},
            previous <- previous.type = Error,
            current  <- current.type,
            next     <- KindOf(next)

(* What the parser assumes of its tokens is what the lexer gives: one shift  *)
(* of the window at a time, an end that lasts, and an error reported for     *)
(* every token of type TK_ERROR but the first.                               *)
LexerIsASource == Source!Spec

-----------------------------------------------------------------------------
(* Properties *)

Tokens == {t \in {previous, current, next} : t.from > 0}

TypeOK ==
  /\ text \in Texts
  /\ current_char \in 1 .. Len(text) + 2
  /\ current_line \in 1 .. Len(text) + 1
  /\ \A t \in {previous, current, next} :
       /\ t.from \in 0 .. Len(text) + 1
       /\ t.to \in 1 .. Len(text) + 1
       /\ t.faulty \in BOOLEAN

(* No character is lost or lexed twice: between the end of a token and the   *)
(* beginning of the next, whatever was looked at ahead, are only blanks, and *)
(* comments up to the end of their line (lexToken(), the current_char-- of   *)
(* eatString()).                                                             *)
Ignored(i, j) ==
  \A k \in i .. j - 1 :
    \/ text[k] \in Blank
    \/ \E h \in i .. k : text[h] = "#" /\ \A l \in h .. k : text[l] # "\n"

NothingLost ==
  next.from > 0 =>
    /\ current.to <= next.from
    /\ next.type # current.type \/ next.type # Eof => Ignored(current.to, next.from)
    /\ Char(next.from) \notin Blank \cup {"#"}

(* A symbol is the longest of the enum's that is written there, and a name   *)
(* goes on as far as it can: the nested matchChar() of lexToken() find the   *)
(* same as the table.                                                        *)
LongestSymbol ==
  \A t \in Tokens :
    LET Slice(to) == SubSeq(text, t.from, to - 1)
    IN  /\ t.type \in Symbols =>
             /\ t.type = Slice(t.to)
             /\ \A to \in t.to + 1 .. Len(text) + 1 : Slice(to) \notin Symbols
        /\ t.type \in Keywords \cup {Name} =>
             /\ \A k \in t.from .. t.to - 1 : text[k] \in Letter \cup Digit
             /\ Char(t.to) \notin Letter \cup Digit
             /\ Slice(t.to) \in Keywords <=> t.type # Name

(* A string without errors ends at the first quote of its kind that an even *)
(* number of backslashes precedes; one with errors has no such quote, or an *)
(* escape that is not known (eatString()).                                   *)
Slashes(i, k) == CHOOSE n \in 0 .. k - i : /\ \A m \in k - n .. k - 1 : text[m] = "\\"
                                           /\ k - n = i \/ text[k - n - 1] # "\\"

Closes(t, k) == text[k] = text[t.from] /\ Slashes(t.from + 1, k) % 2 = 0

StringsEndAtTheirQuote ==
  \A t \in Tokens : t.type = String =>
    LET quotes == {k \in t.from + 1 .. Len(text) : Closes(t, k)}
        escaped == {k \in t.from + 2 .. t.to - 1 : /\ Slashes(t.from + 1, k) % 2 = 1
                                                   /\ text[k] \notin Escape}
    IN  /\ \A k \in quotes : t.to <= k + 1
        /\ (t.to - 1 \notin quotes) => (quotes = {} /\ t.to = Len(text) + 1)
        /\ t.faulty <=> (t.to - 1 \notin quotes \/ escaped # {})

(* A decimal literal without errors is digits, a fraction, an exponent, and  *)
(* as much of them as there is; only one that begins with its point may go   *)
(* on after it with a second fraction (lexToken() calls eatNumber() past the *)
(* first digit).                                                             *)
Digits(i, j) == i < j /\ \A k \in i .. j - 1 : text[k] \in Digit
Fraction(i, j) == i = j \/ (Char(i) = "." /\ Digits(i + 1, j))
Exponent(i, j) == \/ i = j
                  \/ /\ Char(i) \in {"e", "E"}
                     /\ \E k \in {i + 1, i + 2} : /\ Digits(k, j)
                                                  /\ k = i + 2 => Char(i + 1) \in {"+", "-"}
IsDecimal(i, j) ==
  \E p \in i .. j, q \in i .. j :
    /\ p <= q
    /\ Digits(i, p) \/ (Char(i) = "." /\ Digits(i + 1, p))
    /\ Fraction(p, q)
    /\ Exponent(q, j)

NumbersAreLongest ==
  \A t \in Tokens :
    /\ t.type = Number /\ ~t.faulty /\ Char(t.from + 1) \notin {"b", "x"} =>
         /\ IsDecimal(t.from, t.to)
         /\ \A j \in t.to + 1 .. Len(text) + 1 : ~IsDecimal(t.from, j)

(* A token knows its line: the newlines before it, and of a string also      *)
(* those in it, are counted (eatChar(), setNextToken()).                     *)
LinesCounted ==
  \A t \in Tokens :
    t.line = 1 + Newlines(1, IF t.type = String THEN t.to ELSE t.from)

(* What the window holds is the text: every token begins where the last     *)
(* ends, is of the type, length and line that its characters make it, and   *)
(* is longest (lexToken() and all it calls).                                *)
TokensAreRight ==
  /\ TypeOK /\ NothingLost
  /\ LongestSymbol /\ StringsEndAtTheirQuote /\ NumbersAreLongest /\ LinesCounted

(* Any text is lexed to its end, or past it. *)
TextEnds == <>(current.type = Eof \/ current_char = Len(text) + 2)
=============================================================================
