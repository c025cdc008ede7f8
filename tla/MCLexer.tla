------------------------------- MODULE MCLexer -------------------------------
(* All the texts of up to MaxLength characters over alphabets for every kind *)
(* of thing that can be cut off, nested or run together; for comments, whose *)
(* delimiters are two characters, up to MaxComment.                         *)
EXTENDS Lexer
CONSTANTS MaxLength, MaxComment
TextsOver(A, max) == UNION {[1 .. n -> A] : n \in 0 .. max}
MCTexts ==
  TextsOver({"'", "/", "NL", "a"}, MaxComment)
  \cup UNION {TextsOver(A, MaxLength) : A \in
    { {"NL", "CR", "SP", "_", "a"},       \* lines and continuations
      {"\"", "\\", "1", "NL", "TAB"},     \* string literals
      {"1", ".", "a", "SP"},              \* numbers
      {"<", ">", "=", "-", "$"} }}        \* operators, and what is none
=============================================================================
