-------------------------------- MODULE Lexer --------------------------------
(***************************************************************************)
(* Lexer::next(), called by the parser until the end of the file or the    *)
(* first error: one action per branch of its loop.  The source text is a   *)
(* sequence of characters, each standing for its class: "a" for a letter,  *)
(* "1" for a digit, "+" for the one-character operators, "$" for visible   *)
(* characters no token starts with; "TAB" also stands for the blanks and   *)
(* control characters a string literal may not hold.                       *)
(* (An operator used nowhere is a mutant of the definition that follows.)  *)
(***************************************************************************)
EXTENDS Integers, Sequences

CONSTANTS
  Texts,     \* the source texts explored: what a NUL ends in the buffer
  MaxDigits  \* longer integer literals do not fit 64 bits

ASSUME LexerAssumption == Texts \subseteq Seq(STRING \ {"NUL"}) /\ MaxDigits \in Nat

VARIABLES
  text,         \* the source buffer
  start, input, \* m_start and m_input: cursors, as positions in text
  hasStatement, \* m_hasStatement
  tokens,       \* the tokens returned so far
  reports,      \* the diagnostics logged so far, and where each one points
  mode          \* "lexing", "ended" or "failed"

vars == <<text, start, input, hasStatement, tokens, reports, mode>>

-----------------------------------------------------------------------------
(* Characters.                                                              *)

End == Len(text) + 1
At(p) == IF p < End THEN text[p] ELSE "NUL"
Current == At(input)
LookAhead == At(input + 1)

LineEnds == {"NL", "CR"}
FileOrLineEnds == LineEnds \cup {"NUL"}
IdentifierChars == {"a", "1", "_"}
Invisible == FileOrLineEnds \cup {"TAB"}
Operators == {"+", "-", "<", ">", "="}
TwoCharOperators == {<<"-", ">">>, <<"<", ">">>, <<"<", "=">>, <<">", "=">>}
Escapes == {"a", "'", "\"", "\\"}

(* advanceWhile: the first position from p on whose character is not in S.   *)
After(S, p) == CHOOSE q \in p .. End : At(q) \notin S /\ \A r \in p .. q - 1 : At(r) \in S
(* advanceWhileNot.                                                         *)
Upto(S, p) == CHOOSE q \in p .. End : At(q) \in S /\ \A r \in p .. q - 1 : At(r) \notin S

(* A line ends in NL, CR or CR NL.                                          *)
AfterLineEnd(p) ==
  CASE At(p) = "CR" /\ At(p + 1) = "NL" -> p + 2
    [] At(p) = "NUL" -> p
    [] OTHER -> p + 1

-----------------------------------------------------------------------------
(* What next() returns.                                                     *)

Token(kind, from, to) == [kind |-> kind, from |-> from, to |-> to]
Report(what, at) == [what |-> what, at |-> at]

Init ==
  /\ text \in Texts
  /\ start = 1 /\ input = 1 /\ hasStatement = FALSE
  /\ tokens = <<>> /\ reports = <<>> /\ mode = "lexing"

Lexing(C) == mode = "lexing" /\ Current \in C

(* token(): the text from the cursor to `to` becomes a token.               *)
Return(kind, to) ==
  /\ hasStatement' = TRUE
  /\ start' = input /\ input' = to
  /\ tokens' = Append(tokens, Token(kind, input, to))
  /\ UNCHANGED <<text, mode>>

EndOfStmtKeeps ==
  /\ UNCHANGED hasStatement
  /\ tokens' = Append(tokens, Token("EndOfStmt", start', input'))

EndOfStmt ==
  /\ hasStatement' = FALSE
  /\ tokens' = Append(tokens, Token("EndOfStmt", start', input'))

(* A diagnostic points at the start of its range.                           *)
Error(what) ==
  /\ reports' = Append(reports, Report(what, start'))
  /\ mode' = "failed"
  /\ UNCHANGED <<text, hasStatement, tokens>>

SkipTo(p) ==
  /\ input' = p
  /\ UNCHANGED <<text, start, hasStatement, tokens, reports, mode>>

-----------------------------------------------------------------------------
(* The branches of next().                                                  *)

EndOfFile ==
  /\ Lexing({"NUL"})
  /\ UNCHANGED <<text, start, input, reports>>
  /\ IF hasStatement THEN EndOfStmt /\ UNCHANGED mode
     ELSE /\ tokens' = Append(tokens, Token("EndOfFile", start, input))
          /\ mode' = "ended"
          /\ UNCHANGED hasStatement

LineEnd ==
  /\ Lexing(LineEnds)
  /\ start' = input /\ input' = AfterLineEnd(input)
  /\ IF hasStatement THEN EndOfStmt ELSE UNCHANGED <<hasStatement, tokens>>
  /\ UNCHANGED <<text, reports, mode>>

BlankStays == Lexing({"SP", "TAB"}) /\ SkipTo(input)

Blank == Lexing({"SP", "TAB"}) /\ SkipTo(input + 1)

LineComment == Lexing({"'"}) /\ SkipTo(Upto(FileOrLineEnds, input))

CommentEndFlat(from) ==
  LET end[p \in from .. End] ==
        [level \in 0 .. p |->
          CASE level = 0 \/ At(p) = "NUL" -> p
            [] level > 0 /\ At(p) = "'" /\ At(p + 1) = "/" -> end[p + 2][0]
            [] OTHER -> end[p + 1][level]]
  IN end[from][1]

(* Block comments nest, never as deep as they are long; one that is not      *)
(* closed ends with the file.                                               *)
CommentEnd(from) ==
  LET end[p \in from .. End] ==
        [level \in 0 .. p |->
          CASE level = 0 \/ At(p) = "NUL" -> p
            [] level > 0 /\ At(p) = "'" /\ At(p + 1) = "/" -> end[p + 2][level - 1]
            [] level > 0 /\ At(p) = "/" /\ At(p + 1) = "'" -> end[p + 2][level + 1]
            [] OTHER -> end[p + 1][level]]
  IN end[from][1]

Slash ==
  /\ Lexing({"/"})
  /\ IF LookAhead = "'" THEN SkipTo(CommentEnd(input + 2))
     ELSE Return("Operator", input + 1) /\ UNCHANGED reports

ContinuationToLineEnd(p) == Upto(FileOrLineEnds, p)

(* skipToNextLine: the rest of the line and its end.                        *)
Continuation(p) == AfterLineEnd(Upto(FileOrLineEnds, p))

Underscore ==
  /\ Lexing({"_"})
  /\ IF LookAhead \in IdentifierChars
     THEN Return("Identifier", After(IdentifierChars, input + 1)) /\ UNCHANGED reports
     ELSE SkipTo(Continuation(input))

Identifier ==
  /\ Lexing({"a"})
  /\ Return("Identifier", After(IdentifierChars, input + 1)) /\ UNCHANGED reports

Operator ==
  /\ Lexing(Operators)
  /\ Return("Operator", IF <<Current, LookAhead>> \in TwoCharOperators THEN input + 2 ELSE input + 1)
  /\ UNCHANGED reports

(* numberLiteral: digits with at most one point in them, not running on into *)
(* another point or a word.                                                 *)
Number ==
  LET whole == After({"1"}, input + 1)
      fraction == After({"1"}, whole + 1)
      isFloat == Current = "." \/ At(whole) = "."
      end == IF isFloat /\ Current # "." THEN fraction ELSE whole
      malformed == At(end) \in {"a", "_"} \/ (isFloat /\ At(end) = ".")
      tooLarge == ~isFloat /\ end - input > MaxDigits
  IN IF malformed \/ tooLarge
     THEN start' = input /\ input' = end /\ Error("invalidNumber")
     ELSE Return("Number", end) /\ UNCHANGED reports

Digit == Lexing({"1"}) /\ Number

(* Of two points nothing is consumed.                                       *)
Dot ==
  /\ Lexing({"."})
  /\ CASE LookAhead = "." /\ At(input + 2) = "." -> Return("Operator", input + 3) /\ UNCHANGED reports
       [] LookAhead = "." /\ At(input + 2) # "." -> UNCHANGED <<start, input>> /\ Error("invalid")
       [] LookAhead = "1" -> Number
       [] OTHER -> Return("Operator", input + 1) /\ UNCHANGED reports

(* stringLiteral's loop: where it stops - at the closing quote, a dangling  *)
(* backslash or a character that cannot be in a literal - and how many      *)
(* unknown escapes it has warned of.                                        *)
ScanString(from) ==
  LET scan[p \in from .. End] ==
        CASE At(p) = "\"" -> [stop |-> p, escapes |-> 0]
          [] At(p) = "\\" /\ At(p + 1) \in FileOrLineEnds -> [stop |-> p, escapes |-> 0]
          [] At(p) = "\\" /\ At(p + 1) \notin FileOrLineEnds ->
               [scan[p + 2] EXCEPT !.escapes = IF At(p + 1) \in Escapes THEN @ ELSE @ + 1]
          [] At(p) \in Invisible -> [stop |-> p, escapes |-> 0]
          [] OTHER -> scan[p + 1]
  IN scan[from]

(* Quotes and a dangling backslash are consumed; warnings do not stop it.   *)
String ==
  LET scan == ScanString(input + 1)
      consumed == At(scan.stop) \in {"\"", "\\"}
  IN /\ Lexing({"\""})
     /\ Return("String", IF consumed THEN scan.stop + 1 ELSE scan.stop)
     /\ reports' = reports \o [i \in 1 .. scan.escapes |-> Report("escape", input)]
                   \o IF At(scan.stop) = "\"" THEN <<>> ELSE <<Report("unterminated", input)>>

(* The cursor steps over the character, m_start stays where it was.         *)
Other ==
  /\ Lexing({"$", "\\"})
  /\ input' = input + 1 /\ UNCHANGED start
  /\ Error("invalid")

(* parse() has returned.                                                    *)
Finished == mode # "lexing" /\ UNCHANGED vars

Next ==
  \/ EndOfFile \/ LineEnd \/ Blank \/ LineComment \/ Slash \/ Underscore \/ Identifier
  \/ Operator \/ Digit \/ Dot \/ String \/ Other \/ Finished

Spec == Init /\ [][Next]_vars /\ WF_vars(Next)

-----------------------------------------------------------------------------
(* Properties.                                                              *)

Words == {"Operator", "Identifier", "Number", "String"}

(* A statement is never empty and ends once: an EndOfStmt follows a word,    *)
(* and the file does not end within a statement.                            *)
StatementsEndOnce ==
  \A i \in DOMAIN tokens :
    /\ tokens[i].kind = "EndOfStmt" => i > 1 /\ tokens[i - 1].kind \in Words
    /\ tokens[i].kind = "EndOfFile" => i = 1 \/ tokens[i - 1].kind = "EndOfStmt"

(* What makes that inductive: hasStatement tells what the last token is.     *)
LastKind == tokens[Len(tokens)].kind
StatementInv ==
  /\ tokens \in Seq({tokens[i] : i \in DOMAIN tokens})
  /\ hasStatement \in BOOLEAN
  /\ tokens = <<>> => ~hasStatement
  /\ tokens # <<>> =>
       /\ hasStatement <=> LastKind \in Words
       /\ ~hasStatement => LastKind = IF mode = "ended" THEN "EndOfFile" ELSE "EndOfStmt"
  /\ StatementsEndOnce

(* The layout of the language as a grammar.  Where the rest of a block       *)
(* comment may end: complete comments, its close or the file's end.         *)
CommentRest ==
  LET rest[p \in 1 .. End] ==
        CASE p = End -> {End}
          [] At(p) = "'" /\ At(p + 1) = "/" -> {p + 2}
          [] At(p) = "/" /\ At(p + 1) = "'" -> UNION {rest[q] : q \in rest[p + 2]}
          [] OTHER -> rest[p + 1]
  IN rest

EndsLine(p, q) == (At(p) = "NUL" /\ q = p) \/ (At(p) \in LineEnds /\ q = AfterLineEnd(p))
OnOneLine(p, q) == \A r \in p .. q - 1 : At(r) \notin FileOrLineEnds

(* Whether the text from p up to q is layout that ends no line: a blank, a    *)
(* comment or a continuation.                                               *)
Skipped(p, q) ==
  \/ At(p) \in {"SP", "TAB"} /\ q = p + 1
  \/ At(p) = "'" /\ OnOneLine(p, q) /\ At(q) \in FileOrLineEnds
  \/ At(p) = "/" /\ At(p + 1) = "'" /\ q \in CommentRest[p + 2]
  \/ At(p) = "_" /\ \E r \in p .. q : OnOneLine(p, r) /\ EndsLine(r, q)

(* How far the text from p on can be read as layout, each time with whether   *)
(* a line end was read: nothing, or a part and what can be read from there. *)
Continued(layout, p) == UNION {layout[q] : q \in {q \in p + 1 .. End : Skipped(p, q)}}
Ended(layout, p) ==
  IF At(p) \in LineEnds THEN {<<x[1], TRUE>> : x \in layout[AfterLineEnd(p)]} ELSE {}
Layout ==
  LET layout[p \in 1 .. End] == {<<p, FALSE>>} \cup Continued(layout, p) \cup Ended(layout, p)
  IN layout
Readings(layout, p, q) == {ends \in BOOLEAN : <<q, ends>> \in layout[p]}

IsWord(i) == tokens[i].kind \in Words
Neighbours(i, j) ==
  (i = 0 \/ IsWord(i)) /\ (j > Len(tokens) \/ IsWord(j)) /\ \A k \in i + 1 .. j - 1 : ~IsWord(k)

(* The text is words and layout and nothing else: words come in the order of *)
(* the text and do not overlap, and only layout is passed over.             *)
NothingLost ==
  mode = "ended" =>
    LET layout == Layout
        from(i) == IF i = 0 THEN 1 ELSE tokens[i].to
        to(j) == IF j > Len(tokens) THEN End ELSE tokens[j].from
    IN \A i \in 0 .. Len(tokens) : \A j \in i + 1 .. Len(tokens) + 1 :
         Neighbours(i, j) => Readings(layout, from(i), to(j)) # {}

(* Two words are in different statements exactly when a line ends between    *)
(* them - a line end that is not in a comment and not continued.            *)
LinesAreStatements ==
  mode = "ended" =>
    LET layout == Layout
    IN \A i \in 1 .. Len(tokens) - 1 :
         /\ IsWord(i) /\ IsWord(i + 1) =>
              Readings(layout, tokens[i].to, tokens[i + 1].from) = {FALSE}
         /\ tokens[i].kind = "EndOfStmt" /\ IsWord(i + 1) =>
              Readings(layout, tokens[i - 1].to, tokens[i + 1].from) = {TRUE}

(* The parser is given the end of the file or an error in the end.          *)
Terminates == <>(mode # "lexing")
=============================================================================
