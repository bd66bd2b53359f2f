------------------------------ MODULE MCParser ------------------------------
(* Small instances of Parser for TLC: texts of expressions, of statements and *)
(* of declarations, each with its bound.                                      *)
EXTENDS Parser

Text(set, bound) == [alphabet |-> set, bound |-> bound]

Texts ==
  {Text({"name", "number", "(", ")", ",", "-", "or"}, 6),
   Text({"name", "number", "[", "]", ",", "=", ".", "-"}, 7),
   Text({"line", "name", "number", "{", "}", ":", ",", "->", "not"}, 8),
   Text({"line", ";", "name", "number", "if", "elsif", "else", "then", "while", "do",
         "end", "break", "return"}, 9),
   Text({"line", "name", "number", "(", ")", ",", "def", "func", "for", "in", "end", "return"}, 6),
   Text({"line", "name", "number", "=", "string", "module", "class", "end", "native",
         "from", "import", "as", "*", ","}, 9)}

MCVocabularies == {t.alphabet : t \in Texts}
MCMaxTodo == [v \in MCVocabularies |-> (CHOOSE t \in Texts : t.alphabet = v).bound]
MCToken == UNION MCVocabularies \cup {"eof"}
MCLiteral == {"number", "string"}
=============================================================================
