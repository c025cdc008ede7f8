-------------------------------- MODULE Grammar --------------------------------
(***************************************************************************)
(* What the parser promises: the language, read from left to right with     *)
(* nothing but the constructs that are open; the shape of a tree; the places *)
(* of its nodes; and what of it survives being printed and read again.      *)
(***************************************************************************)
EXTENDS CodePrinter

Done == result # NoResult
Parsed == Done /\ result.error = "none"

-----------------------------------------------------------------------------
(* The shape of expressions.                                                *)

Infix == {".", "*", "+", "Equal"}
Prefixes == {"Deref", "NOT", "AS"}
Postfix == {"call", "CAST"}

(* The operators that an operator to the right, or to the left, of a tree    *)
(* could have taken an operand from.                                        *)
RECURSIVE RightEdge(_)
RightEdge(tree) ==
  CASE tree.op \in Infix -> {tree.op} \cup RightEdge(tree.of[2])
    [] tree.op \in Prefixes -> {tree.op} \cup RightEdge(tree.of[1])
    [] OTHER -> {}
RECURSIVE LeftEdge(_)
LeftEdge(tree) ==
  IF tree.op \in Infix \cup Postfix THEN {tree.op} \cup LeftEdge(tree.of[1]) ELSE {}

RECURSIVE Shaped(_)
Shaped(tree) ==
  LET op == tree.op of == tree.of
  IN /\ \A i \in DOMAIN of : Shaped(of[i])
     /\ op \in Infix \cup Postfix =>
          \A left \in RightEdge(of[1]) : Precedence(left) >= Precedence(op)
     /\ op \in Infix =>
          \A right \in LeftEdge(of[2]) : Precedence(right) > Precedence(op)
     /\ op \in Prefixes =>
          \A right \in LeftEdge(of[1]) : Precedence(right) >= Precedence(op)

(* An operand between two operators is the tighter one's, and the left one's *)
(* if they are alike, in whatever order prefixes, infixes, casts and calls   *)
(* follow each other (ParseExpr.cpp climb).                                 *)
PrecedenceHolds == Parsed => Shaped(result.tree)

-----------------------------------------------------------------------------
(* The language, from token i on: where a construct ends, or the first token *)
(* that cannot follow those before it; or, not refused as such a token should *)
(* be, a prefix operator behind an operand.                                 *)

Ends(i) == [at |-> i, outcome |-> "ends"]
Wrong(i) == [at |-> i, outcome |-> "wrong"]
Unforeseen(i) == [at |-> i, outcome |-> "undefined"]
On(r, Next2(_)) == IF r.outcome = "ends" THEN Next2(r.at) ELSE r
Token(k, i) == IF Kind(i) = k THEN Ends(i + 1) ELSE Wrong(i)

RECURSIVE AfterQualifiers(_)
AfterQualifiers(i) ==
  CASE Kind(i) \in {"CONST", "PTR"} -> AfterQualifiers(i + 1)
    [] Kind(i) = "REF" /\ Kind(i + 1) \in {"CONST", "PTR", "REF"} -> Wrong(i + 1)
    [] Kind(i) = "REF" /\ Kind(i + 1) \notin {"CONST", "PTR", "REF"} -> Ends(i + 1)
    [] OTHER -> Ends(i)

TypeAt(i) ==
  LET base == IF Kind(i) = "CONST" THEN i + 1 ELSE i
  IN On(IF Kind(base) = "ANY" THEN Token("PTR", base + 1) ELSE Token("T", base), AfterQualifiers)

(* Token by token: whether an operand is due, and which parentheses are open. *)
RECURSIVE ExprAt(_, _, _)
ExprAt(i, due, open) ==
  LET k == Kind(i)
      n == Len(open)
      outer == SubSeq(open, 1, n - 1)
      inner == IF n > 0 /\ open[n] = "empty" THEN Append(outer, "call") ELSE open
  IN IF due
     THEN CASE k = "id" \/ k \in Literals -> ExprAt(i + 1, FALSE, inner)
            [] k \in {"*", "NOT", "AS"} -> ExprAt(i + 1, TRUE, inner)
            [] k = "(" -> ExprAt(i + 1, TRUE, Append(inner, "group"))
            [] k = ")" /\ inner # open -> ExprAt(i + 1, FALSE, outer)
            [] OTHER -> Wrong(i)
     ELSE CASE k \in {".", "*", "+", "="} -> ExprAt(i + 1, TRUE, open)
            [] k = "AS" -> On(TypeAt(i + 1), LAMBDA j : ExprAt(j, FALSE, open))
            [] k = "(" -> ExprAt(i + 1, TRUE, Append(open, "empty"))
            [] k = ")" /\ n > 0 -> ExprAt(i + 1, FALSE, outer)
            [] k = "," /\ n > 0 /\ open[n] = "call" -> ExprAt(i + 1, TRUE, open)
            [] k = "NOT" -> Unforeseen(i)
            [] OTHER -> IF n = 0 THEN Ends(i) ELSE Wrong(i)

Expr(i) == ExprAt(i, TRUE, <<>>)

RECURSIVE ListOf(_, _)
ListOf(what, i) ==
  LET AsType(j) == On(Token("AS", j), TypeAt)
      Initial(j) == IF Kind(j) = "=" THEN Expr(j + 1) ELSE Ends(j)
      element ==
        CASE what = "argument" -> Expr(i)
          [] what = "variable" ->
               On(Token("id", i), LAMBDA j :
                 IF Kind(j) = "AS" THEN On(AsType(j), Initial) ELSE On(Token("=", j), Expr))
          [] what = "parameter" -> On(Token("id", i), AsType)
  IN IF what = "parameter" /\ Kind(i) = "..." THEN Ends(i + 1)
     ELSE On(element, LAMBDA j : IF Kind(j) = "," THEN ListOf(what, j + 1) ELSE Ends(j))

HeaderAt(i) ==
  LET Parameters(j) ==
        IF Kind(j + 1) = ")" THEN Ends(j + 2)
        ELSE On(ListOf("parameter", j + 1), LAMBDA k : Token(")", k))
  IN CASE Kind(i) = "SUB" ->
            On(Token("id", i + 1), LAMBDA j : IF Kind(j) = "(" THEN Parameters(j) ELSE Ends(j))
       [] Kind(i) = "FUNCTION" ->
            On(Token("id", i + 1), LAMBDA j :
              On(Token("(", j), LAMBDA p :
                On(Parameters(j), LAMBDA k : On(Token("AS", k), TypeAt))))
       [] OTHER -> Wrong(i)

DeclareAt(i) == On(Token("DECLARE", i), HeaderAt)

(* A name alone, or in parentheses of its own, and no operator behind it is  *)
(* a call; what follows it are the arguments.                               *)
CallNameEnds(i) ==
  {j \in i + 1 .. Len(text) + 1 :
     \E p \in 0 .. j - i - 1 :
       /\ j - i = 2 * p + 1
       /\ \A k \in i .. j - 1 : Kind(k) = CASE k - i < p -> "(" [] k - i = p -> "id" [] OTHER -> ")"}

CallOrExprAt(i) ==
  IF \E j \in CallNameEnds(i) : Kind(j) \notin {".", "*", "+", "=", ")"}
  THEN LET j == CHOOSE j \in CallNameEnds(i) : Kind(j) \notin {".", "*", "+", "=", ")"}
       IN IF Kind(j) = "EndOfStmt" THEN Ends(j) ELSE ListOf("argument", j)
  ELSE Expr(i)

LineAt(i) ==
  CASE Kind(i) = "DIM" -> ListOf("variable", i + 1)
    [] Kind(i) = "DECLARE" -> DeclareAt(i)
    [] Kind(i) = "RETURN" -> IF Kind(i + 1) = "EndOfStmt" THEN Ends(i + 1) ELSE Expr(i + 1)
    [] OTHER -> CallOrExprAt(i)

(* Line by line, with the blocks that are open.                             *)
RECURSIVE LinesAt(_, _)
LinesAt(i, open) ==
  LET n == Len(open)
      Rest(r, blocks) == On(On(r, LAMBDA j : Token("EndOfStmt", j)), LAMBDA j : LinesAt(j, blocks))
  IN CASE Kind(i) = "EndOfFile" -> IF n = 0 THEN Ends(i + 1) ELSE Wrong(i)
       [] Kind(i) = "END" ->
            IF n = 0 THEN Wrong(i) ELSE Rest(Token(open[n], i + 1), SubSeq(open, 1, n - 1))
       [] Kind(i) \notin {"EndOfFile", "END"} /\ n > 0 /\ open[n] = "EXTERN" -> Rest(DeclareAt(i), open)
       [] OTHER ->
            CASE Kind(i) \in {"SUB", "FUNCTION"} -> Rest(HeaderAt(i), Append(open, Kind(i)))
              [] Kind(i) = "EXTERN" ->
                   On(Token("C", i + 1), LAMBDA j :
                     IF Kind(j) = "EndOfStmt" THEN Rest(Ends(j), Append(open, "EXTERN"))
                     ELSE Rest(DeclareAt(j), open))
              [] OTHER -> Rest(LineAt(i), open)

(* A text is accepted up to where it ends, and what is not in the language   *)
(* is refused at the first token that cannot follow those before it, also    *)
(* where the lexer failed (Parser.hpp, all of ParseStmt.cpp, ParseDecl.cpp) - *)
(* unless that token is a prefix operator behind an operand: then, and only  *)
(* then, the parser's behaviour is undefined (ParseExpr.cpp suffixExpr).     *)
ReadsText ==
  Done =>
    LET read == IF entry = "module" THEN LinesAt(1, <<>>) ELSE Expr(1)
    IN /\ result.at = read.at
       /\ result.error = "none" <=> read.outcome = "ends"
       /\ result.error = "undefined" <=> read.outcome = "undefined"

-----------------------------------------------------------------------------
(* Assignments.                                                             *)

(* The first = of a one-line program, with no parentheses before it.        *)
AssignAt(p) ==
  /\ text[p] = "="
  /\ \A i \in 1 .. p - 1 : text[i] \notin {"(", ")", "=", "EndOfStmt"}

(* A line that is not a call assigns at its first = if what is before it is  *)
(* a variable, a member or what a pointer leads to; what is assigned may     *)
(* compare and call with = of its own (ParseExpr.cpp shouldBreak).          *)
TargetsAreAssigned ==
  Parsed /\ entry = "module" =>
    \A p \in DOMAIN text :
      /\ AssignAt(p)
      /\ \A i \in 1 .. p - 1 : \/ text[i] \in {"id", "."}
                               \/ text[i] = "*" /\ \A j \in 1 .. i : text[j] = "*"
      => LET first == result.tree.of[1].of[1]
         IN \/ first.op = "=" /\ first.of[1].to = p - 1
            \/ first.op = "expr" /\ first.of[1].op = "sub"

-----------------------------------------------------------------------------
(* Places.                                                                  *)

InOrder(nodes) == \A i, j \in DOMAIN nodes : i < j => nodes[i].to < nodes[j].from

RECURSIVE Nested(_)
Nested(tree) ==
  LET parts == {i \in DOMAIN tree.of : tree.of[i] # NoTree}
  IN /\ tree.op # "list" => 0 < tree.from /\ tree.from <= tree.to
     /\ \A i \in parts : tree.of[i].from >= tree.from /\ tree.of[i].to <= tree.to /\ Nested(tree.of[i])
     /\ \A i, j \in parts : i = j \/ tree.of[i].to < tree.of[j].from \/ tree.of[j].to < tree.of[i].from

(* Each node of what was accepted covers tokens, lies within the node above  *)
(* it and apart from those beside it; only the range of an empty list ends   *)
(* before it begins (Parser.hpp range, m_lastLoc).                          *)
RangesNest == Parsed /\ text # <<>> /\ result.token # "Invalid" => Nested(result.tree)

RECURSIVE Lists(_)
Lists(tree) ==
  (IF tree.op = "list" THEN {tree} ELSE {}) \cup UNION {Lists(tree.of[i]) : i \in DOMAIN tree.of}

DeclarationsOf(list) ==
  {d \in UNION {{s} \cup {s.of[i] : i \in DOMAIN s.of} : s \in {list.of[i] : i \in DOMAIN list.of}} :
     d.op \in {"var", "fixed", "variadic"}}

(* Statements follow one another, and the declarations of a list are those   *)
(* of its own statements, in the order of the text: not those of the bodies  *)
(* below, which are lists of their own, nor those of EXTERN, which sema      *)
(* enters itself (ParseStmt.cpp stmtList).                                  *)
ListsDeclare ==
  Parsed => \A list \in Lists(result.tree) :
    /\ InOrder(list.of) /\ InOrder(list.decls)
    /\ {list.decls[i] : i \in DOMAIN list.decls} = DeclarationsOf(list)

-----------------------------------------------------------------------------
(* Printing and reading again.                                              *)

(* A type as sema sees it: a repeated CONST is one.                         *)
RECURSIVE TypeShape(_)
TypeShape(type) ==
  CASE type.op = "none" -> <<"T">>
    [] type.op = "CONST" /\ type.of[1].op = "CONST" -> TypeShape(type.of[1])
    [] type.op \in {"PTR", "REF"} \/ (type.op = "CONST" /\ type.of[1].op # "CONST") ->
         <<type.op>> \o TypeShape(type.of[1])
    [] OTHER -> <<type.op>>

(* A tree without its places and parentheses; a variable has a type, and a   *)
(* call is a call however it was written.                                   *)
RECURSIVE Shape(_)
Shape(tree) ==
  LET of == tree.of
      below == [i \in DOMAIN of |-> Shape(of[i])]
  IN CASE tree.op = "()" -> Shape(of[1])
       [] tree.op \in {"T", "ANY", "PTR", "CONST", "REF"} -> <<"type", TypeShape(tree)>>
       [] tree.op = "sub" -> <<"call", below>>
       [] tree.op = "var" -> <<"var", <<<<"type", TypeShape(of[1])>>, Shape(of[2])>>>>
       [] OTHER -> <<tree.op, below>>

Operands(shape) == {shape[2][i] : i \in DOMAIN shape[2]}

(* CONST comes back where it qualifies a builtin type, or ANY PTR.          *)
TypeSurvives(type) ==
  \A i \in DOMAIN type : type[i] = "CONST" =>
    SubSeq(type, i + 1, Len(type)) \in {<<"T">>, <<"PTR", "ANY">>}

(* The code of an expression begins with one of some words, and with a call  *)
(* of a name.                                                               *)
RECURSIVE Leads(_, _)
Leads(words, expr) == expr[1] \in words \/ (expr[1] = "call" /\ Leads(words, expr[2][1]))

CallsName(expr) == expr[1] = "call" /\ Leads({"id"}, expr[2][1])

CallsWithOne(expr) == expr[1] = "call" /\ expr[2][1][1] = "id" /\ Len(expr[2]) = 2

(* Printed without escapes, or with the wrong decimals.                     *)
Unprintable == {"Quote", "Control", "Backslash", "More"}

RECURSIVE Survives(_)
Survives(shape) ==
  CASE shape[1] \in Unprintable -> FALSE
    [] shape[1] = "type" -> TypeSurvives(shape[2])
    [] shape[1] = "variadic" -> FALSE
    [] shape[1] \in {"NOT", "AS"} ->
         Survives(shape[2][1]) /\ ~Leads({"id", "1", "Six"}, shape[2][1])
    [] shape[1] \in {"expr", "="} ->
         /\ \A of \in Operands(shape) : Survives(of)
         /\ shape[1] = "expr" => (CallsName(shape[2][1]) => CallsWithOne(shape[2][1]))
         /\ shape[1] = "=" => ~CallsName(shape[2][1])
    [] OTHER -> \A of \in Operands(shape) : Survives(of)

(* A printed tree is what the parser reads it as, but for a variadic header, *)
(* a constant pointer, a word glued to its operand, a call statement not of   *)
(* exactly one argument - `f()` and `f(a, b)` are no statements - and        *)
(* literals: a string with a quotation mark, a backslash or a control        *)
(* character, a floating-point number that six decimals do not say           *)
(* (AstCodePrinter.cpp, ParseExpr.cpp subCallExpr, Lexer.cpp stringLiteral). *)
PrintsBack ==
  Done /\ printed # NoTree =>
    (Survives(Shape(printed)) <=> result.error = "none" /\ Shape(result.tree) = Shape(printed))
=============================================================================
