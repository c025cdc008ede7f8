------------------------------ MODULE CodePrinter ------------------------------
(***************************************************************************)
(* The AST as code: what AstCodePrinter writes of the tree of a program,    *)
(* once sema has given a type to what has none, and the parser run on that. *)
(* Code is a sequence of tokens; a word glued to the operand behind it is   *)
(* the one token the lexer makes of both.  What it makes of the literals,    *)
(* which are written without escapes, is Reread.  A member access, which     *)
(* sema refuses, is never printed.                                          *)
(* (An operator used nowhere is a mutant of the definition that follows.)  *)
(***************************************************************************)
EXTENDS Parser

VARIABLE printed   \* the tree the text was printed from, NoTree for a source

printerVars == <<text, entry, result, printed>>

RECURSIVE Joined(_)
Joined(parts) ==
  CASE Len(parts) = 0 -> <<>>
    [] Len(parts) = 1 -> parts[1]
    [] OTHER -> parts[1] \o <<",">> \o Joined(Tail(parts))

(* Type::string: a CONST comes first, whatever it qualifies.                *)
RECURSIVE PrintType(_)
PrintType(type) ==
  CASE type.op \in {"T", "ANY", "none"} -> <<IF type.op = "none" THEN "T" ELSE type.op>>
    [] type.op \in {"PTR", "REF"} -> PrintType(type.of[1]) \o <<type.op>>
    [] type.op = "CONST" /\ type.of[1].op = "CONST" -> PrintType(type.of[1])
    [] type.op = "CONST" /\ type.of[1].op # "CONST" -> <<"CONST">> \o PrintType(type.of[1])

PrintAs(type) == <<"AS">> \o PrintType(type)

Glued(operator, operand) ==
  CASE operator = "Deref" -> <<"*">> \o operand
    [] operator # "Deref" /\ operand[1] \in {"id", "1"} -> <<"id">> \o Tail(operand)
    [] operator # "Deref" /\ operand[1] = "Six" -> <<"id">> \o operand
    [] OTHER -> <<operator>> \o operand

(* A name or a literal: floating-point numbers by std::to_string, which has   *)
(* six decimals; strings as they are, between quotation marks.              *)
PrintLeaf(op) == <<IF op = "More" THEN "Six" ELSE op>>

RECURSIVE PrintExprBare(_)
PrintExprBare(tree) ==
  LET of == tree.of
      symbol == IF tree.op = "Equal" THEN "=" ELSE tree.op
  IN CASE tree.op = "id" \/ tree.op \in Literals -> PrintLeaf(tree.op)
       [] tree.op = "()" -> PrintExprBare(of[1])
       [] tree.op \in {"call", "sub"} ->
            PrintExprBare(of[1]) \o <<"(">>
              \o Joined([i \in 1 .. Len(of) - 1 |-> PrintExprBare(of[i + 1])]) \o <<")">>
       [] tree.op = "CAST" -> <<"(">> \o PrintExprBare(of[1]) \o PrintAs(of[2]) \o <<")">>
       [] tree.op \in Unary -> <<"(">> \o Glued(tree.op, PrintExprBare(of[1])) \o <<")">>
       [] tree.op \in Binary -> PrintExprBare(of[1]) \o <<symbol>> \o PrintExprBare(of[2])

RECURSIVE PrintExpr(_)
PrintExpr(tree) ==
  LET of == tree.of
      symbol == IF tree.op = "Equal" THEN "=" ELSE tree.op
  IN CASE tree.op = "id" \/ tree.op \in Literals -> PrintLeaf(tree.op)
       [] tree.op = "()" -> PrintExpr(of[1])
       [] tree.op \in {"call", "sub"} ->
            PrintExpr(of[1]) \o <<"(">>
              \o Joined([i \in 1 .. Len(of) - 1 |-> PrintExpr(of[i + 1])]) \o <<")">>
       [] tree.op = "CAST" -> <<"(">> \o PrintExpr(of[1]) \o PrintAs(of[2]) \o <<")">>
       [] tree.op \in Unary -> <<"(">> \o Glued(tree.op, PrintExpr(of[1])) \o <<")">>
       [] tree.op \in Binary -> <<"(">> \o PrintExpr(of[1]) \o <<symbol>> \o PrintExpr(of[2]) \o <<")">>

PrintVar(var) ==
  <<"id">> \o PrintAs(var.of[1]) \o
    (IF var.of[2] = NoTree THEN <<>> ELSE <<"=">> \o PrintExpr(var.of[2]))

(* A header's ... is not written.                                           *)
PrintFuncDecl(decl) ==
  LET ret == decl.of[1]
      params == [i \in 1 .. Len(decl.of) - 1 |-> <<"id">> \o PrintAs(decl.of[i + 1].of[1])]
  IN <<IF ret = NoTree THEN "SUB" ELSE "FUNCTION", "id", "(">> \o Joined(params) \o <<")">>
       \o (IF ret = NoTree THEN <<>> ELSE PrintAs(ret))

RECURSIVE PrintStmt(_), PrintLines(_)
PrintStmt(stmt) ==
  LET of == stmt.of
  IN CASE stmt.op = "expr" -> PrintExpr(of[1])
       [] stmt.op = "=" -> PrintExpr(of[1]) \o <<"=">> \o PrintExpr(of[2])
       [] stmt.op = "DIM" -> <<"DIM">> \o Joined([i \in DOMAIN of |-> PrintVar(of[i])])
       [] stmt.op = "DECLARE" -> <<"DECLARE">> \o PrintFuncDecl(of[1])
       [] stmt.op = "RETURN" -> <<"RETURN">> \o (IF of = <<>> THEN <<>> ELSE PrintExpr(of[1]))
       [] stmt.op = "func" ->
            PrintFuncDecl(of[1]) \o <<"EndOfStmt">> \o PrintLines(of[2].of)
              \o <<"END", IF of[1].of[1] = NoTree THEN "SUB" ELSE "FUNCTION">>
       [] stmt.op = "EXTERN" /\ Len(of) = 1 -> <<"EXTERN", "C">> \o PrintStmt(of[1])
       [] stmt.op = "EXTERN" /\ Len(of) # 1 ->
            <<"EXTERN", "C", "EndOfStmt">> \o PrintLines(of) \o <<"END", "EXTERN">>
PrintLines(stmts) ==
  IF stmts = <<>> THEN <<>>
  ELSE PrintStmt(stmts[1]) \o <<"EndOfStmt">> \o PrintLines(Tail(stmts))

(* The line end behind the last statement is the lexer's to add again.      *)
PrintModule(module) ==
  LET lines == PrintLines(module.of[1].of)
  IN SubSeq(lines, 1, Len(lines) - 1)

(* The lexer on that.  A quotation mark ends the string it is written in, a   *)
(* control character is no token, a backslash escapes what is behind it.      *)
(* After a stray quotation mark what was outside of strings is inside, up to *)
(* the end of the line.                                                     *)
RECURSIVE Reread(_, _)
Reread(code, inside) ==
  IF code = <<>> THEN <<>>
  ELSE LET k == code[1]
           And(tokens, within) == tokens \o Reread(Tail(code), within)
       IN CASE k = "EndOfStmt" -> And(<<k>>, FALSE)
            [] inside /\ k \in {"C", "S"} -> And(<<"id", "S">>, TRUE)
            [] inside /\ k = "Quote" -> And(<<"id", "S">>, FALSE)
            [] inside /\ k \in {"Control", "Backslash"} -> And(<<"id", "Invalid">>, FALSE)
            [] inside /\ k \notin {"EndOfStmt", "C", "S", "Quote", "Control", "Backslash"} -> And(<<>>, TRUE)
            [] ~inside /\ k = "Quote" -> And(<<"S", "id", "S">>, TRUE)
            [] ~inside /\ k = "Control" -> And(<<"S", "Invalid">>, FALSE)
            [] ~inside /\ k = "Backslash" -> And(<<"S">>, FALSE)
            [] OTHER -> And(<<k>>, FALSE)

-----------------------------------------------------------------------------
RECURSIVE HasMember(_)
HasMember(tree) == tree.op = "." \/ \E i \in DOMAIN tree.of : HasMember(tree.of[i])

PrinterInit == Init /\ printed = NoTree

Read == Parse /\ UNCHANGED printed

Reprint ==
  /\ result # NoResult /\ result.error = "none"
  /\ printed = NoTree /\ ~HasMember(result.tree)
  /\ text' = Reread(IF entry = "module" THEN PrintModule(result.tree) ELSE PrintExpr(result.tree), FALSE)
  /\ printed' = result.tree
  /\ result' = NoResult
  /\ UNCHANGED entry

Over == Finished /\ UNCHANGED printed

PrinterNext == Read \/ Reprint \/ Over

PrinterSpec == PrinterInit /\ [][PrinterNext]_printerVars
=============================================================================
