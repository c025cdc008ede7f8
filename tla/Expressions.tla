----------------------------- MODULE Expressions -----------------------------
(***************************************************************************)
(* The typing of expressions: SemanticAnalyser::expression, which visits a  *)
(* tree with the type its context imposes, or twice with none, and the      *)
(* visits of the nodes, which record types, re-type literals and put casts  *)
(* around operands.  A tree is the AST's: the analysis of a tree is the tree *)
(* as it has been rewritten.  One statement is analysed, after others that  *)
(* may have left a suggested type behind.                                   *)
(* (An operator used nowhere is a mutant of the definition that follows.)  *)
(***************************************************************************)
EXTENDS TypeRules, Sequences

CONSTANTS
  Vars,        \* names of variables and functions and the types of their symbols
  Functions,   \* functions by name: [params, variadic, returns]
  Statements,  \* sets of statements to explore, each [kind, type, target, expr]
  Leftovers    \* suggested types an earlier assignment may have left, NoType among them

VARIABLES
  statement, leftover,
  result       \* the statement's trees after the analysis, or its error

vars == <<statement, leftover, result>>

-----------------------------------------------------------------------------
(* Trees.  "int", "float", "bool", "string" and "NULL" are literals; "AS" is *)
(* a cast of the program, "CAST" one the analyser put in.                   *)

Node(op, name, of, type) == [op |-> op, name |-> name, of |-> of, type |-> type, category |-> "value"]
NoTree == Node("none", "", <<>>, NoType)
Literals == {"int", "float", "bool", "string", "NULL"}
IsLiteral(tree) == tree.op \in Literals

Ref(base) == [kind |-> "REF", base |-> base]
Func(name) == [kind |-> "FUNC", base |-> name]
RemoveReference(t) == IF t.kind = "REF" THEN Of(t.base) ELSE t

(* Pointee types by name, and getPointer().                                 *)
Named == NumericKinds \cup {"BOOL", "ZSTRING", "CONST LONG", "LONG PTR", "ANY PTR", "LONG CONST PTR"}
         \cup DOMAIN Functions
Pointee(name) ==
  CASE name = "CONST LONG" -> Const("LONG")
    [] name = "LONG PTR" -> Ptr("LONG")
    [] name = "ANY PTR" -> Ptr("ANY")
    [] name = "LONG CONST PTR" -> Ptr("CONST LONG")
    [] name \in DOMAIN Functions -> Func(name)
    [] OTHER -> Of(name)
PointerTo(t) == Ptr(CHOOSE name \in Named : Pointee(name) = t)

-----------------------------------------------------------------------------
(* What an analysis returns: the tree, the error, m_suggestedType.          *)

Ok(tree, suggested) == [tree |-> tree, error |-> "none", suggested |-> suggested]
Failed(error) == [tree |-> NoTree, error |-> error, suggested |-> NoType]
Then(r, Use(_)) == IF r.error = "none" THEN Use(r.tree) ELSE r

(* setSuggestedType on a node that was given type t.                        *)
Typed(tree, t, explicit, suggested) ==
  Ok([tree EXCEPT !.type = t],
     CASE explicit # NoType -> suggested
       [] explicit = NoType /\ suggested = NoType -> t
       [] OTHER -> Common(t, suggested))

-----------------------------------------------------------------------------
(* Coercion.                                                                *)

CoerceLiteral(tree, target) ==
  IF \/ tree.type = target
     \/ tree.op = "int" /\ IsIntegral(target)
     \/ tree.op = "float" /\ IsFloatingPoint(target)
     \/ tree.op = "NULL" /\ IsPointer(target)
  THEN Ok([tree EXCEPT !.type = target], NoType)
  ELSE Failed("typeMismatch")

CastToPlace(tree, target) ==
  IF tree.type = target THEN tree
  ELSE [Node("CAST", "", <<tree>>, target) EXCEPT !.category = tree.category]

(* cast(): an implicit cast around the tree, unless it has the type.        *)
CastTo(tree, target) ==
  IF tree.type = target THEN tree ELSE Node("CAST", "", <<tree>>, target)

CastOrCoerceAnyhow(tree, target) ==
  CASE tree.type = target -> Ok(tree, NoType)
    [] tree.type # target /\ IsLiteral(tree) -> CoerceLiteral(tree, target)
    [] OTHER -> IF Cast(target, tree.type) THEN Ok(CastTo(tree, target), NoType)
                ELSE Failed("typeMismatch")

CastOrCoerce(tree, target) ==
  CASE tree.type = target -> Ok(tree, NoType)
    [] tree.type # target /\ IsLiteral(tree) -> CoerceLiteral(tree, target)
    [] OTHER -> IF Implicit(target, tree.type) THEN Ok(CastTo(tree, target), NoType)
                ELSE Failed("typeMismatch")

StripWidening(tree) ==
  IF tree.op \in {"AS", "CAST"} /\ Implicit(tree.type, tree.of[1].type) THEN tree.of[1] ELSE tree

(* A cast to the type its operand has is dropped.                           *)
Strip(tree) ==
  IF tree.op \in {"AS", "CAST"} /\ tree.type = tree.of[1].type THEN tree.of[1] ELSE tree

-----------------------------------------------------------------------------
(* The analysis.                                                            *)

RECURSIVE Expression(_, _, _), Visit(_, _, _), Arguments(_, _, _, _)

(* expression(): m_suggestedType starts afresh and is restored on the way    *)
(* out; what is suggested inside is imposed in a second examination.        *)
ExpressionSuggested(tree, explicit, suggested) ==
  LET visited == Visit(tree, explicit, suggested)
  IN Then(visited, LAMBDA t :
       CASE explicit # NoType -> CastOrCoerce(Strip(t), explicit)
         [] explicit = NoType /\ visited.suggested # NoType ->
              Expression(Strip(t), visited.suggested, visited.suggested)
         [] OTHER -> Ok(Strip(t), NoType))

Expression(tree, explicit, suggested) ==
  LET visited == Visit(tree, explicit, NoType)
  IN Then(visited, LAMBDA t :
       CASE explicit # NoType -> CastOrCoerce(Strip(t), explicit)
         [] explicit = NoType /\ visited.suggested # NoType ->
              Expression(Strip(t), visited.suggested, visited.suggested)
         [] OTHER -> Ok(Strip(t), NoType))

Natural == [int |-> Of("INTEGER"), float |-> Of("DOUBLE"), bool |-> Of("BOOL"),
            string |-> Of("ZSTRING"), NULL |-> Of("NULL")]

Literal(tree, explicit, suggested) ==
  LET natural == [tree EXCEPT !.type = Natural[tree.op]]
  IN CASE explicit # NoType -> Then(CoerceLiteral(natural, explicit), LAMBDA t : Ok(t, suggested))
       [] explicit = NoType /\ suggested # NoType ->
            Then(CoerceLiteral(natural, suggested), LAMBDA t : Ok(t, suggested))
       [] OTHER -> Typed(natural, natural.type, explicit, suggested)

(* The symbol is found, and defined.                                        *)
VarExpr(tree, explicit, suggested) ==
  Typed([tree EXCEPT !.category = "addressable"], RemoveReference(Vars[tree.name]), explicit, suggested)

(* Negate, LogicalNot, AddressOf, Dereference, Move on an analysed operand:  *)
(* the node with its category, its type, or why there is none.              *)
Unary(tree, operand, explicit, suggested) ==
  LET type == operand.type
      node == [tree EXCEPT !.of = <<operand>>]
  IN CASE tree.op = "-" /\ (IsSignedIntegral(type) \/ IsFloatingPoint(type)) ->
            Typed(node, type, explicit, suggested)
       [] tree.op = "NOT" /\ type = Of("BOOL") -> Typed(node, type, explicit, suggested)
       [] tree.op = "@" /\ operand.category = "addressable" ->
            Typed(node, PointerTo(type), explicit, suggested)
       [] tree.op = "*" /\ IsPointer(type) /\ ~IsAnyPtr(type) ->
            Typed([node EXCEPT !.category = "addressable"], Pointee(type.base), explicit, suggested)
       [] tree.op = "MOVE" /\ operand.category # "value" ->
            Typed([node EXCEPT !.category = "expiring"], type, explicit, suggested)
       [] OTHER -> Failed("operand")

(* The operands of an arithmetic or comparison operator, brought together.   *)
Together(left, right) ==
  LET common == Common(left.type, right.type)
      Operands(l, r) == Ok([NoTree EXCEPT !.of = <<l, r>>], NoType)
  IN CASE left.type = right.type -> Operands(left, right)
       [] left.type # right.type /\ IsLiteral(left) ->
            Then(CoerceLiteral(left, right.type), LAMBDA l : Operands(l, right))
       [] left.type # right.type /\ ~IsLiteral(left) /\ IsLiteral(right) ->
            Then(CoerceLiteral(right, left.type), LAMBDA r : Operands(left, r))
       [] OTHER -> IF common = NoType THEN Failed("operands")
                   ELSE Operands(CastTo(left, common), CastTo(right, common))

Binary(tree, left, right, explicit, suggested) ==
  IF tree.op = "AND"
  THEN IF left.type = Of("BOOL") /\ right.type = Of("BOOL")
       THEN Typed([tree EXCEPT !.of = <<left, right>>], Of("BOOL"), explicit, suggested)
       ELSE Failed("operands")
  ELSE Then(Together(left, right), LAMBDA t :
         Typed([tree EXCEPT !.of = t.of], IF tree.op = "<" THEN Of("BOOL") ELSE t.of[1].type,
               explicit, suggested))

CastExpr(tree, operand, explicit, suggested) ==
  IF Cast(tree.type, operand.type)
  THEN Typed([tree EXCEPT !.of = <<operand>>], tree.type, explicit, suggested)
  ELSE Failed("typeMismatch")

(* The arguments from the i-th on; those a variadic function adds have no    *)
(* type imposed on them.                                                    *)
Arguments(args, i, params, suggested) ==
  IF i > Len(args) THEN Ok([NoTree EXCEPT !.of = args], NoType)
  ELSE Then(Expression(args[i], IF i <= Len(params) THEN params[i] ELSE NoType, suggested),
            LAMBDA t : Arguments([args EXCEPT ![i] = t], i + 1, params, suggested))

Call(tree, callee, explicit, suggested) ==
  IF callee.type.kind # "FUNC" THEN Failed("notCallable")
  ELSE LET f == Functions[callee.type.base]
           args == Tail(tree.of)
       IN IF Len(args) < Len(f.params) \/ (Len(args) > Len(f.params) /\ ~f.variadic)
          THEN Failed("arguments")
          ELSE Then(Arguments(args, 1, f.params, suggested), LAMBDA t :
                 Typed([tree EXCEPT !.of = <<callee>> \o t.of,
                                    !.category = IF f.returns.kind = "REF" THEN "addressable" ELSE @],
                       RemoveReference(f.returns), explicit, suggested))

(* The operands are examined first, each as an expression of its own.       *)
Visit(tree, explicit, suggested) ==
  CASE IsLiteral(tree) -> Literal(tree, explicit, suggested)
    [] tree.op = "var" -> VarExpr(tree, explicit, suggested)
    [] tree.op \in {"-", "NOT", "@", "*", "MOVE"} ->
         Then(Expression(tree.of[1], NoType, suggested), LAMBDA operand :
           Unary(tree, operand, explicit, suggested))
    [] tree.op \in {"+", "<", "AND"} ->
         Then(Expression(tree.of[1], NoType, suggested), LAMBDA left :
           Then(Expression(tree.of[2], NoType, suggested), LAMBDA right :
             Binary(tree, left, right, explicit, suggested)))
    [] tree.op \in {"AS", "CAST"} ->
         Then(Expression(tree.of[1], NoType, suggested), LAMBDA operand :
           CastExpr(tree, operand, explicit, suggested))
    [] tree.op = "call" ->
         Then(Expression(tree.of[1], NoType, suggested), LAMBDA callee :
           Call(tree, callee, explicit, suggested))

-----------------------------------------------------------------------------
(* The statements.                                                          *)

Outcome(target, r) == [target |-> target, tree |-> r.tree, error |-> r.error]
NoResult == Outcome(NoTree, Failed("pending"))

(* DIM x [AS type] = expr: a reference binds to what has an address.         *)
VarDecl(stmt, suggested) ==
  Outcome(NoTree, Then(Expression(stmt.expr, RemoveReference(stmt.type), suggested), LAMBDA t :
    CASE stmt.type.kind = "REF" /\ t.category # "addressable" -> Failed("nonAddressable")
      [] IsNull(IF stmt.type = NoType THEN t.type ELSE stmt.type) -> Failed("nullVariable")
      [] OTHER -> Ok(t, NoType)))

(* target = expr.  The target is visited as it is, and what it suggests      *)
(* stays behind.                                                            *)
Assign(stmt, suggested) ==
  LET target == Visit(stmt.target, NoType, suggested)
  IN CASE target.error # "none" -> Outcome(NoTree, target)
       [] target.error = "none" /\ target.tree.category # "addressable" ->
            Outcome(NoTree, Failed("notAssignable"))
       [] target.error = "none" /\ target.tree.category = "addressable"
          /\ target.tree.type.kind = "CONST" -> Outcome(NoTree, Failed("assignToConst"))
       [] OTHER -> Outcome(target.tree, Expression(stmt.expr, target.tree.type, suggested))

(* A call or RETURN expr.                                                   *)
Evaluate(stmt, suggested) == Outcome(NoTree, Expression(stmt.expr, stmt.type, suggested))

Analyse(stmt, suggested) ==
  CASE stmt.kind = "DIM" -> VarDecl(stmt, suggested)
    [] stmt.kind = "assign" -> Assign(stmt, suggested)
    [] stmt.kind \in {"expression", "RETURN"} -> Evaluate(stmt, suggested)

Init == (\E few \in Statements : statement \in few) /\ leftover \in Leftovers /\ result = NoResult

Examine ==
  /\ result = NoResult
  /\ result' = Analyse(statement, leftover)
  /\ UNCHANGED <<statement, leftover>>

Finished == result # NoResult /\ UNCHANGED vars

Next == Examine \/ Finished

Spec == Init /\ [][Next]_vars

-----------------------------------------------------------------------------
(* Properties.                                                              *)

Accepted == result.error = "none"

(* The judgement a typed tree has to satisfy, whatever made it.              *)
RECURSIVE WellFormed(_)
WellFormed(tree) ==
  LET of == tree.of type == tree.type op == tree.op
      Same == of[1].type = of[2].type
  IN /\ \A i \in DOMAIN of : WellFormed(of[i])
     /\ CASE op = "int" -> IsIntegral(type)
          [] op = "float" -> IsFloatingPoint(type)
          [] op = "NULL" -> IsNull(type) \/ IsPointer(type)
          [] op \in {"bool", "string"} -> type = Natural[op]
          [] op = "var" -> type = RemoveReference(Vars[tree.name])
          [] op = "+" -> Same /\ type = of[1].type
          [] op = "<" -> Same /\ type = Of("BOOL")
          [] op = "AND" -> Same /\ type = Of("BOOL") /\ of[1].type = type
          [] op \in {"-", "NOT", "MOVE"} -> type = of[1].type
          [] op = "@" -> IsPointer(type) /\ Pointee(type.base) = of[1].type
          [] op = "*" -> IsPointer(of[1].type) /\ Pointee(of[1].type.base) = type
          [] op = "CAST" -> type # of[1].type /\ Implicit(type, of[1].type) /\ ~IsLiteral(of[1])
          [] op = "AS" -> type # of[1].type /\ Cast(type, of[1].type)
          [] op = "call" ->
               LET f == Functions[of[1].type.base] n == Len(f.params)
               IN /\ Len(of) > n /\ (f.variadic \/ Len(of) = n + 1)
                  /\ \A i \in 1 .. n : of[i + 1].type = f.params[i]
                  /\ type = RemoveReference(f.returns)

(* However often a node was examined, and however its operands were re-typed *)
(* and wrapped by those above it, what is left is well typed, every cast     *)
(* that was put in is one the program need not write, and the whole has the  *)
(* type its statement imposes.                                              *)
WellTyped ==
  Accepted =>
    /\ WellFormed(result.tree)
    /\ statement.kind = "assign" => result.tree.type = result.target.type
    /\ statement.kind # "assign" /\ statement.type # NoType =>
         result.tree.type = RemoveReference(statement.type)

(* A tree that does what another says: casts are put in, a cast to the type  *)
(* its operand has is left out, and a literal from under one may be given    *)
(* another type (5 AS INTEGER becomes a LONG where one is wanted).          *)
RECURSIVE Keeps(_, _)
Keeps(written, tree) ==
  CASE tree.op = "CAST" -> Keeps(written, tree.of[1])
    [] written.op = "AS" ->
         \/ tree.op = "AS" /\ tree.type = written.type /\ Keeps(written.of[1], tree.of[1])
         \/ Keeps(written.of[1], tree) /\ (tree.type = written.type \/ IsLiteral(tree))
    [] OTHER ->
         /\ tree.op = written.op /\ tree.name = written.name /\ Len(tree.of) = Len(written.of)
         /\ \A i \in DOMAIN tree.of : Keeps(written.of[i], tree.of[i])

(* The analysed tree is the program's, and a cast of the program is in it    *)
(* unless its operand has the type anyhow or is a literal.                  *)
KeepsProgram == Accepted => Keeps(statement.expr, result.tree)

(* "Order does not matter": exchanging the operands of an operator changes   *)
(* neither whether it is accepted nor the types of the operands and result. *)
OperandsCommute ==
  result # NoResult /\ statement.kind # "assign" /\ statement.expr.op \in {"+", "<", "AND"} =>
    LET e == statement.expr
        swapped == Analyse([statement EXCEPT !.expr.of = <<e.of[2], e.of[1]>>], leftover)
        Bare(tree) == IF tree.op = "CAST" THEN tree.of[1] ELSE tree
        left == Bare(swapped.tree) right == Bare(result.tree)
    IN /\ swapped.error = result.error
       /\ Accepted => /\ left.type = right.type
                      /\ left.of[1] = right.of[2] /\ left.of[2] = right.of[1]

RECURSIVE Category(_)
Category(tree) ==
  CASE tree.op \in {"var", "*"} -> "addressable"
    [] tree.op = "MOVE" -> "expiring"
    [] tree.op = "call" -> IF Functions[tree.of[1].type.base].returns.kind = "REF"
                           THEN "addressable" ELSE "value"
    [] OTHER -> "value"

RECURSIVE PlacesIn(_)
PlacesIn(tree) ==
  /\ tree.category = Category(tree)
  /\ tree.op = "@" => Category(tree.of[1]) = "addressable"
  /\ tree.op = "MOVE" => Category(tree.of[1]) # "value"
  /\ \A i \in DOMAIN tree.of : PlacesIn(tree.of[i])

(* What has its address taken, is moved from, bound to a reference or        *)
(* assigned to is an object still after the casts were put in - never the   *)
(* copy a cast makes - and no const object is assigned to.                  *)
PlacesDesignate ==
  Accepted =>
    /\ PlacesIn(result.tree)
    /\ statement.kind = "DIM" /\ statement.type.kind = "REF" =>
         Category(result.tree) = "addressable"
    /\ statement.kind = "assign" =>
         /\ PlacesIn(result.target) /\ Category(result.target) = "addressable"
         /\ result.target.type.kind # "CONST"

(* The suggestion an assignment leaves behind reaches no later statement.    *)
SuggestionsEnd ==
  result # NoResult =>
    LET fresh == Analyse(statement, NoType)
    IN IF Accepted THEN result = fresh ELSE fresh.error # "none"
=============================================================================
