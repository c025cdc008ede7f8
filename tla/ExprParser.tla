------------------------------ MODULE ExprParser ------------------------------
(***************************************************************************)
(* The expression and type parser: precedence climbing with the two flags a *)
(* statement sets.  `text` holds the tokens of a program by kind: "id", the  *)
(* literals, "T" for a builtin type, "*" for an operator that is also a      *)
(* prefix, "+" and "." for others, "Invalid" where the lexer failed.  A      *)
(* parser method is an operator from the parser's state to the next; s.tree  *)
(* is the tree it returns or takes.                                         *)
(* Parentheses, which the AST drops, are nodes here.                        *)
(* (An operator used nowhere is a mutant of the definition that follows.)  *)
(***************************************************************************)
EXTENDS Integers, Sequences

CONSTANT Texts   \* the texts explored

ASSUME TextsAssumption == Texts \subseteq Seq(STRING)

VARIABLE text

-----------------------------------------------------------------------------
(* Tokens and trees.                                                        *)

Precedence(k) ==
  CASE k \in {"(", "call"} -> 14 [] k = "." -> 13 [] k = "Deref" -> 12 [] k = "NOT" -> 11
    [] k \in {"AS", "CAST"} -> 10 [] k = "*" -> 9 [] k = "+" -> 7 [] k = "Equal" -> 6
    [] k = "=" -> 2 [] OTHER -> 0

(* The string "C"; another one; one with a quotation mark, a control          *)
(* character, a backslash between two words; a floating-point number of six  *)
(* decimals, one of more; and what is written as a word or an integer.       *)
Literals == {"1", "C", "S", "Quote", "Control", "Backslash", "Six", "More"}
Binary == {".", "*", "+", "=", "Equal"}
Unary == {"(", "Deref", "NOT", "AS"}

(* A node covers the tokens of a range; the first is 1 and 0 is no place.   *)
Node(from, to, op, of) == [from |-> from, to |-> to, op |-> op, of |-> of]
NoTree == Node(0, 0, "none", <<>>)

(* The lexer ends the last statement of a text and then the file.           *)
Kind(i) ==
  CASE i \in DOMAIN text -> text[i]
    [] text # <<>> /\ i = Len(text) + 1 -> "EndOfStmt"
    [] OTHER -> "EndOfFile"

RECURSIVE IsName(_)
IsName(tree) == tree.op = "id" \/ (tree.op = "()" /\ IsName(tree.of[1]))

-----------------------------------------------------------------------------
(* The token in hand, the last one consumed, and the error a method returned. *)

Fail(s, what) == [s EXCEPT !.error = what, !.tree = NoTree]
Then(s, Step(_)) == IF s.error = "none" THEN Step(s) ELSE s
Returns(s, tree) == [s EXCEPT !.tree = tree]

(* A node from a token, or from the start of another, to the last consumed. *)
Make(s, from, op, of) == Returns(s, Node(from, s.last, op, of))

(* Construction and the first advance(): it consumes the default token,     *)
(* which has no place.                                                      *)
Start == [at |-> 1, token |-> Kind(1), last |-> IF Kind(1) = "Invalid" THEN 1 ELSE 0,
          tree |-> NoTree, error |-> "none"]

(* What the lexer failed with is returned by the next advance() or expect(); *)
(* the last place moves when the token after it could be read.              *)
AdvanceNeverMarks(s) ==
  IF s.token = "Invalid" THEN Fail(s, "lexer")
  ELSE [s EXCEPT !.at = @ + 1, !.token = Kind(s.at + 1)]

Advance(s) ==
  IF s.token = "Invalid" THEN Fail(s, "lexer")
  ELSE [s EXCEPT !.at = @ + 1, !.token = Kind(s.at + 1),
                 !.last = IF Kind(s.at + 1) = "Invalid" THEN @ ELSE s.at]

Expect(s, kind) ==
  CASE s.token = kind -> s
    [] s.token # kind /\ s.token = "Invalid" -> Fail(s, "lexer")
    [] OTHER -> Fail(s, "expected")

Consume(s, kind) == Then(Expect(s, kind), Advance)

(* accept(): with the token consumed, or with it left in place.             *)
Accept(s, kind, Yes(_), No(_)) == IF s.token = kind THEN Then(Advance(s), Yes) ELSE No(s)

(* Past the start of a statement an assignment's = is a comparison.         *)
AsOperator(s) == IF s.token = "=" THEN [s EXCEPT !.token = "Equal"] ELSE s

ShouldBreak(s, stopAtAssign) == stopAtAssign /\ s.token = "="

-----------------------------------------------------------------------------
(* Types.  CONST and PTR follow a builtin type in any order, REF ends them. *)

(* builtinType(): of an expected type it says so, whatever the lexer met.   *)
BuiltinType(s) ==
  IF s.token # "T" THEN Fail(s, "expected")
  ELSE Then(Advance(s), LAMBDA t : Make(t, s.at, "T", <<>>))

AnyPointer(s) ==
  Then(Advance(s), LAMBDA any :
    Then(Consume(any, "PTR"), LAMBDA ptr :
      Make(ptr, s.at, "PTR", <<Node(s.at, any.last, "ANY", <<>>)>>)))

RECURSIVE Qualified(_)
Qualified(s) ==
  IF s.token \notin {"CONST", "PTR"} THEN s
  ELSE Then(Advance(s), LAMBDA q : Qualified(Make(q, s.tree.from, s.token, <<s.tree>>)))

Referenced(s) ==
  LET Last(r) == IF r.token \in {"REF", "PTR", "CONST"} THEN Fail(r, "referenceNotLast")
                 ELSE Make(r, s.tree.from, "REF", <<s.tree>>)
  IN Accept(s, "REF", Last, LAMBDA t : t)

Type(s) ==
  LET Base(b) == IF b.token = "ANY" THEN AnyPointer(b) ELSE BuiltinType(b)
      Const(c) == Then(Base(c), LAMBDA t : Make(t, s.at, "CONST", <<t.tree>>))
  IN Then(Accept(s, "CONST", Const, Base), LAMBDA t : Then(Qualified(t), Referenced))

-----------------------------------------------------------------------------
(* Expressions.                                                             *)
RECURSIVE Expression(_, _, _), Primary(_, _), Climb(_, _, _), Operators(_, _, _), Tighter(_, _, _)

RECURSIVE Arguments(_, _)
Arguments(s, args) ==
  Then(Expression(s, FALSE, FALSE), LAMBDA e :
    IF e.token = "," THEN Then(Advance(e), LAMBDA a : Arguments(a, Append(args, e.tree)))
    ELSE Returns(e, Append(args, e.tree)))

SubCall(s) ==
  IF s.token = "EndOfStmt" THEN Make(s, s.tree.from, "sub", <<s.tree>>)
  ELSE Then(Arguments(s, <<s.tree>>), LAMBDA a : Make(a, s.tree.from, "sub", a.tree))

FuncCall(s) ==
  Then(Consume(s, "("), LAMBDA open :
    IF open.token = ")" THEN Then(Advance(open), LAMBDA close : Make(close, s.tree.from, "call", <<s.tree>>))
    ELSE Then(Arguments(open, <<s.tree>>), LAMBDA a :
           Then(Consume(a, ")"), LAMBDA close : Make(close, s.tree.from, "call", a.tree))))

(* An operator that is none behind an operand, NOT or @, is std::unreachable: *)
(* what the program does from here is undefined.                            *)
Suffix(s) ==
  CASE s.token = "(" -> FuncCall(s)
    [] s.token = "AS" -> Then(Advance(s), LAMBDA a :
                           Then(Type(a), LAMBDA t :
                             Returns(t, Node(s.tree.from, t.tree.to, "CAST", <<s.tree, t.tree>>))))
    [] OTHER -> Fail(s, "undefined")

(* prefixExpr: * is a dereference; of an expected operator it says so.      *)
Prefix(s, stopAtAssign) ==
  LET op == IF s.token = "*" THEN "Deref" ELSE s.token
  IN IF op \notin Unary THEN Fail(s, "expected")
     ELSE Then(Advance(s), LAMBDA a :
            Then(Primary(a, stopAtAssign), LAMBDA lhs :
              Then(Climb(lhs, Precedence(op), stopAtAssign), LAMBDA e :
                Make(e, s.at, op, <<e.tree>>))))

Primary(s, stopAtAssign) ==
  CASE s.token = "id" -> Then(Advance(s), LAMBDA v : Make(v, s.at, "id", <<>>))
    [] s.token \in Literals ->
         Then(Advance(s), LAMBDA l : Returns(l, Node(s.at, s.at, s.token, <<>>)))
    [] s.token = "(" ->
         Then(Advance(s), LAMBDA open :
           Then(Expression(open, FALSE, FALSE), LAMBDA e :
             Then(Consume(e, ")"), LAMBDA close :
               Returns(close, Node(e.tree.from, e.tree.to, "()", <<e.tree>>)))))
    [] OTHER -> Prefix(s, stopAtAssign)

(* climb: s.tree is the left operand.                                       *)
Climb(s, precedence, stopAtAssign) ==
  IF ShouldBreak(s, stopAtAssign) THEN s
  ELSE Operators(AsOperator(s), precedence, stopAtAssign)

(* binaryExpr: the operator is in hand with the left operand.               *)
BinaryExpr(s, l, r) == Returns(s, Node(l.tree.from, r.tree.to, l.token, <<l.tree, r.tree>>))

(* Its loop, over operators that bind at least as tightly as precedence.    *)
Operators(s, precedence, stopAtAssign) ==
  CASE Precedence(s.token) < precedence -> s
    [] Precedence(s.token) >= precedence /\ s.token \in Unary ->
         Then(Suffix(s), LAMBDA e :
           IF ShouldBreak(e, stopAtAssign) THEN e
           ELSE Operators(AsOperator(e), precedence, stopAtAssign))
    [] OTHER ->
         Then(Advance(s), LAMBDA a :
           Then(Primary(a, stopAtAssign), LAMBDA rhs :
             IF ShouldBreak(rhs, stopAtAssign)
             THEN BinaryExpr(rhs, s, rhs)
             ELSE Then(Tighter(AsOperator(rhs), s.token, stopAtAssign), LAMBDA r :
                    Operators(BinaryExpr(r, s, r), precedence, stopAtAssign))))

TighterOrEqual(s, op, stopAtAssign) ==
  IF Precedence(s.token) < Precedence(op) THEN s
  ELSE Then(Climb(s, Precedence(s.token), stopAtAssign), LAMBDA r :
         Tighter(AsOperator(r), op, stopAtAssign))

(* Its inner loop: the right operand of op takes what binds tighter.        *)
Tighter(s, op, stopAtAssign) ==
  IF Precedence(s.token) <= Precedence(op) THEN s
  ELSE Then(Climb(s, Precedence(s.token), stopAtAssign), LAMBDA r :
         Tighter(AsOperator(r), op, stopAtAssign))

ExpressionNeverStops(s, callWithoutParens, stopAtAssign) ==
  Then(Primary(s, FALSE), LAMBDA lhs :
    CASE callWithoutParens /\ IsName(lhs.tree) /\ lhs.token \notin Binary -> SubCall(lhs)
      [] OTHER -> Climb(lhs, 1, FALSE))

Expression(s, callWithoutParens, stopAtAssign) ==
  Then(Primary(s, stopAtAssign), LAMBDA lhs :
    CASE ShouldBreak(lhs, stopAtAssign) -> lhs
      [] ~ShouldBreak(lhs, stopAtAssign) /\ callWithoutParens
         /\ IsName(lhs.tree) /\ lhs.token \notin Binary -> SubCall(lhs)
      [] OTHER -> Climb(lhs, 1, stopAtAssign))
=============================================================================
