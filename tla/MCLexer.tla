------------------------------- MODULE MCLexer -------------------------------
(* Small instances of Lexer for TLC: all short texts over an alphabet with a  *)
(* character of each kind, and longer ones over the characters of strings, of *)
(* numbers and of symbols.                                                    *)
EXTENDS Lexer

CONSTANTS AnyLength, StringLength, NumberLength, SymbolLength

Upto(n, set) == UNION {[1 .. k -> set] : k \in 0 .. n}

AnyChar == {"\"", "\\", "n", "i", "0", "1", "b", "e", ".", ">", "=", "#", "\n", " ", ",", "$"}
StringChar == {"\"", "'", "\\", "n", "i", "\n"}
NumberChar == {"0", "1", ".", "e", "-", "b"}
HexChars == {"0", "x", "7", "e"}
SymbolChar == {">", "<", "=", "-", ".", "!"}

MCTexts == Upto(AnyLength, AnyChar) \cup Upto(StringLength, StringChar)
           \cup Upto(NumberLength, NumberChar) \cup Upto(NumberLength, HexChars)
           \cup Upto(SymbolLength, SymbolChar)

MCKeywords == {<<"i", "n">>}
=============================================================================
