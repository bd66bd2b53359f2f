---------------------------- MODULE TokenSource ----------------------------
(* What the parser knows of the lexer of pk_compiler.c: a window of three   *)
(* tokens over a text.  The parser decides by the type of the current one;  *)
(* of the previous one it only asks later whether it was an error; the next *)
(* one is lexed, and its errors reported, one token early, so of it only    *)
(* its kind is decided.                                                     *)

CONSTANTS
  Token,    \* The types of tokens, but for Error.
  Literal,  \* The types of string and number literals.
  Eof,      \* TK_EOF
  Error     \* TK_ERROR

ASSUME TokenAssumption == /\ Eof \in Token
                          /\ Literal \subseteq Token \ {Eof}
                          /\ Error \notin Token

VARIABLES
  previous,  \* Whether the token consumed last is of type Error.
  current,   \* The type of the token the parser looks at.
  next       \* The kind of the token lexed last.

tokens == <<previous, current, next>>

(* "unlexed" is the token of type TK_ERROR that compilerInit() puts there;  *)
(* the characters of an "error" and of a "faulty" literal were reported.    *)
Kinds == {"unlexed", "error", "faulty", "good"}

TypesOf(kind) == CASE kind = "good"   -> Token
                   [] kind = "faulty" -> Literal
                   [] OTHER           -> {Error}

(* lexToken() of the text's beginning, of its middle, and at its end. *)
LexToken ==
  /\ previous' = (current = Error)
  /\ \/ /\ current = Eof
        /\ UNCHANGED <<current, next>>
     \/ /\ current # Eof
        /\ current' \in TypesOf(next)
        /\ \/ current' = Eof /\ UNCHANGED next
           \/ current' # Eof /\ next' \in Kinds \ {"unlexed"}

(* Whether a step that lexes a token reports an error. *)
LexError == next' \in {"error", "faulty"}

(* compilerInit() leaves the previous and the current token uninitialised;   *)
(* the two calls of lexToken() that begin a compilation replace them without *)
(* a look, the first when only the next token is set.                        *)
Init ==
  /\ previous = TRUE
  /\ current = Error
  /\ next = "unlexed"

Next == LexToken

Spec == Init /\ [][Next]_tokens
=============================================================================
