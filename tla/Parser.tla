-------------------------------- MODULE Parser --------------------------------
(***************************************************************************)
(* The parser of a program: statement lists with their declarations, DIM,   *)
(* DECLARE, SUB and FUNCTION with their bodies, RETURN, EXTERN, calls and   *)
(* assignments.  Each is an operator on the parser's state, as in           *)
(* ExprParser; a list's node also has the declarations it introduces.       *)
(* (An operator used nowhere is a mutant of the definition that follows.)  *)
(***************************************************************************)
EXTENDS ExprParser

CONSTANT Entries  \* where parsing starts: "expression" or "module"

ASSUME EntriesAssumption == Entries \subseteq {"expression", "module"}

VARIABLES
  entry,
  result      \* what the parser returned, NoResult before

vars == <<text, entry, result>>

-----------------------------------------------------------------------------
(* Declarations.  A missing type or initialiser is NoTree.                  *)

VarDecl(s) ==
  LET Var(v, type) == Make(v, s.at, "var", <<type, v.tree>>)
      Value(a, type) == Then(Expression(a, FALSE, FALSE), LAMBDA e : Var(e, type))
      Typed(a) ==
        Then(Type(a), LAMBDA t :
          Accept(t, "=", LAMBDA v : Value(v, t.tree), LAMBDA v : Var(Returns(v, NoTree), t.tree)))
      Untyped(a) == Then(Consume(a, "="), LAMBDA v : Value(v, NoTree))
  IN Then(Consume(s, "id"), LAMBDA name : Accept(name, "AS", Typed, Untyped))

ParamDecl(s) ==
  Then(Consume(s, "id"), LAMBDA name :
    Then(Consume(name, "AS"), LAMBDA as :
      Then(Type(as), LAMBDA t : Make(t, s.at, "param", <<t.tree>>))))

NoParams == Node(0, 0, "fixed", <<>>)

(* A list of parameters: "variadic" if ... ends it, "fixed" if not.          *)
RECURSIVE Params(_, _)
Params(s, params) ==
  IF s.token = "..." THEN Then(Advance(s), LAMBDA dots : Returns(dots, Node(0, 0, "variadic", params)))
  ELSE Then(ParamDecl(s), LAMBDA p :
         LET more == Append(params, p.tree)
         IN IF p.token = "," THEN Then(Advance(p), LAMBDA comma : Params(comma, more))
            ELSE Returns(p, Node(0, 0, "fixed", more)))

ParamList(s, requireParens) ==
  LET None(n) == Returns(n, NoParams)
      Some(n) == Then(Params(n, <<>>), LAMBDA p : Consume(p, ")"))
      Inside(open) == Accept(open, ")", None, Some)
  IN IF requireParens THEN Then(Consume(s, "("), Inside) ELSE Accept(s, "(", Inside, None)

(* A header's node is of its result type, NoTree for a SUB, and parameters.  *)
SubDecl(s) ==
  Then(Consume(s, "SUB"), LAMBDA sub :
    Then(Consume(sub, "id"), LAMBDA name :
      Then(ParamList(name, FALSE), LAMBDA p :
        Make(p, s.at, p.tree.op, <<NoTree>> \o p.tree.of))))

FuncDecl(s) ==
  Then(Consume(s, "FUNCTION"), LAMBDA function :
    Then(Consume(function, "id"), LAMBDA name :
      Then(ParamList(name, TRUE), LAMBDA p :
        Then(Consume(p, "AS"), LAMBDA as :
          Then(Type(as), LAMBDA t : Make(t, s.at, p.tree.op, <<t.tree>> \o p.tree.of))))))

-----------------------------------------------------------------------------
(* Statements.                                                              *)

RECURSIVE Vars(_, _)
Vars(s, decls) ==
  Then(VarDecl(s), LAMBDA v :
    LET more == Append(decls, v.tree)
    IN Accept(v, ",", LAMBDA comma : Vars(comma, more), LAMBDA e : Returns(e, Node(0, 0, "vars", more))))

DimStmt(s) ==
  Then(Consume(s, "DIM"), LAMBDA dim : Then(Vars(dim, <<>>), LAMBDA v : Make(v, s.at, "DIM", v.tree.of)))

(* unexpected() is the lexer's error if there is one.                       *)
Unexpected(s) == Fail(s, IF s.token = "Invalid" THEN "lexer" ELSE "unexpected")

DeclareStmt(s) ==
  Then(Consume(s, "DECLARE"), LAMBDA declare :
    Then(CASE declare.token = "SUB" -> SubDecl(declare)
           [] declare.token = "FUNCTION" -> FuncDecl(declare)
           [] OTHER -> Unexpected(declare),
         LAMBDA d : Make(d, s.at, "DECLARE", <<d.tree>>)))

ReturnStmt(s) ==
  Then(Consume(s, "RETURN"), LAMBDA return :
    IF return.token = "EndOfStmt" THEN Make(return, s.at, "RETURN", <<>>)
    ELSE Then(Expression(return, FALSE, FALSE), LAMBDA e : Make(e, s.at, "RETURN", <<e.tree>>)))

(* The declarations of a block, each with its end, up to END EXTERN.        *)
RECURSIVE Declares(_, _)
Declares(s, stmts) ==
  IF s.token = "END" THEN Returns(s, Node(0, 0, "stmts", stmts))
  ELSE Then(DeclareStmt(s), LAMBDA d :
         Then(Consume(d, "EndOfStmt"), LAMBDA eos : Declares(eos, Append(stmts, d.tree))))

Linkage(s) ==
  CASE s.token = "C" -> Advance(s)
    [] s.token = "S" -> Fail(s, "unsupportedLinkage")
    [] OTHER -> Expect(s, "string")

ExternStmt(s) ==
  LET Block(b) ==
        Then(Declares(b, <<>>), LAMBDA d :
          Then(Consume(d, "END"), LAMBDA end :
            Then(Consume(end, "EXTERN"), LAMBDA extern : Make(extern, s.at, "EXTERN", d.tree.of))))
      Single(b) == Then(DeclareStmt(b), LAMBDA d : Make(d, s.at, "EXTERN", <<d.tree>>))
  IN Then(Consume(s, "EXTERN"), LAMBDA extern :
       Then(Linkage(extern), LAMBDA l : Accept(l, "EndOfStmt", Block, Single)))

(* A call, another expression, or an assignment.                            *)
ExprStmt(s) ==
  Then(Expression(s, TRUE, TRUE), LAMBDA target :
    Accept(target, "=",
      LAMBDA a : Then(Expression(a, FALSE, FALSE), LAMBDA value :
        Returns(value, Node(target.tree.from, value.tree.to, "=", <<target.tree, value.tree>>))),
      LAMBDA e : Returns(e, Node(e.tree.from, e.tree.to, "expr", <<e.tree>>))))

RECURSIVE Statement(_), StmtList(_)

FuncStmtAnyEnd(s) ==
  LET isSub == s.token = "SUB"
  IN Then(IF isSub THEN SubDecl(s) ELSE FuncDecl(s), LAMBDA decl :
       Then(Consume(decl, "EndOfStmt"), LAMBDA eos :
         Then(StmtList(eos), LAMBDA body :
           Then(Consume(body, "END"), LAMBDA end :
             Then(IF end.token \in {"SUB", "FUNCTION"} THEN Advance(end) ELSE Fail(end, "expected"),
               LAMBDA e : Make(e, s.at, "func", <<decl.tree, body.tree>>))))))

FuncStmt(s) ==
  LET isSub == s.token = "SUB"
  IN Then(IF isSub THEN SubDecl(s) ELSE FuncDecl(s), LAMBDA decl :
       Then(Consume(decl, "EndOfStmt"), LAMBDA eos :
         Then(StmtList(eos), LAMBDA body :
           Then(Consume(body, "END"), LAMBDA end :
             Then(Consume(end, IF isSub THEN "SUB" ELSE "FUNCTION"), LAMBDA e :
               Make(e, s.at, "func", <<decl.tree, body.tree>>))))))

Statement(s) ==
  CASE s.token = "DIM" -> DimStmt(s)
    [] s.token = "DECLARE" -> DeclareStmt(s)
    [] s.token \in {"SUB", "FUNCTION"} -> FuncStmt(s)
    [] s.token = "RETURN" -> ReturnStmt(s)
    [] s.token = "EXTERN" -> ExternStmt(s)
    [] OTHER -> ExprStmt(s)

(* What a statement adds to its list's declarations.                        *)
DeclaresAlsoBelow(stmt) ==
  CASE stmt.op = "DIM" -> stmt.of
    [] stmt.op \in {"DECLARE", "func"} -> <<stmt.of[1]>>
    [] stmt.op = "EXTERN" -> [i \in DOMAIN stmt.of |-> stmt.of[i].of[1]]
    [] OTHER -> <<>>

DeclaresHere(stmt) ==
  CASE stmt.op = "DIM" -> stmt.of
    [] stmt.op \in {"DECLARE", "func"} -> <<stmt.of[1]>>
    [] OTHER -> <<>>

IsTerminator(token) == token \in {"Invalid", "EndOfFile", "END"}

RECURSIVE Statements(_, _, _, _)
Statements(s, from, decls, stmts) ==
  IF IsTerminator(s.token)
  THEN Returns(s, [from |-> from, to |-> s.last, op |-> "list", of |-> stmts, decls |-> decls])
  ELSE Then(Statement(s), LAMBDA stmt :
         Then(Consume(stmt, "EndOfStmt"), LAMBDA eos :
           Statements(eos, from, decls \o DeclaresHere(stmt.tree), Append(stmts, stmt.tree))))

StmtList(s) == Statements(s, s.at, <<>>, <<>>)

Module(s) ==
  Then(StmtList(s), LAMBDA stmts :
    Then(Consume(stmts, "EndOfFile"), LAMBDA eof :
      Returns(eof, Node(stmts.tree.from, stmts.tree.to, "module", <<stmts.tree>>))))

-----------------------------------------------------------------------------
NoResult == [at |-> 0, token |-> "none", last |-> 0, tree |-> NoTree, error |-> "none"]

Init == text \in Texts /\ entry \in Entries /\ result = NoResult

Parse ==
  /\ result = NoResult
  /\ result' = IF entry = "expression" THEN Expression(Start, FALSE, FALSE) ELSE Module(Start)
  /\ UNCHANGED <<text, entry>>

Finished == result # NoResult /\ UNCHANGED vars

Next == Parse \/ Finished

Spec == Init /\ [][Next]_vars
=============================================================================
