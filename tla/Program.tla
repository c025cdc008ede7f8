------------------------------- MODULE Program -------------------------------
(***************************************************************************)
(* The syntax tree the analyser and the IR generator walk.  A program is a  *)
(* sequence of statement lists: list 1 is the module's, a SUB or FUNCTION   *)
(* statement names the list of its body, which comes later.  An expression  *)
(* is the sequence of its nodes in the order of their visits' ends, operands *)
(* first: <<Var(f), Var(x), Call(f, 1)>> is f(x).  Types, which TypeFactory  *)
(* and Expressions follow, are left out, and a DIM of several variables is  *)
(* as many DIMs.                                                            *)
(***************************************************************************)
EXTENDS Integers, Sequences, FiniteSets

-----------------------------------------------------------------------------
(* Expression nodes: op, the operands it takes, the name of a variable.     *)

Var(n)  == [op |-> "var", takes |-> 0, name |-> n]
Literal == [op |-> "literal", takes |-> 0]
Unary(op) == [op |-> op, takes |-> 1]
Binary(op) == [op |-> op, takes |-> 2]
Call(n, args) == [op |-> "call", takes |-> args + 1, name |-> n]   \* the callee n is operand 1

-----------------------------------------------------------------------------
(* Statements and declarations; <<>> is the expression a statement lacks.    *)
(* source is the name as it was written, which C linkage keeps.             *)

Dim(n, init) == [kind |-> "DIM", name |-> n, source |-> n, expr |-> init]
Declaration(n, source, params, variadic) ==
  [kind |-> "DECLARE", name |-> n, source |-> source, params |-> params, variadic |-> variadic,
   expr |-> <<>>]
Func(n, params, returns, body) ==
  [kind |-> "FUNC", name |-> n, source |-> n, params |-> params, variadic |-> FALSE,
   returns |-> returns, body |-> body, expr |-> <<>>]
Return(e) == [kind |-> "RETURN", expr |-> e]
Evaluate(e) == [kind |-> "EXPR", expr |-> e]
Assign(target, e) == [kind |-> "ASSIGN", expr |-> target \o e, target |-> Len(target)]
Extern(decls) == [kind |-> "EXTERN", decls |-> decls, expr |-> <<>>]

(* The trees there are.  No expression node is what a statement becomes.     *)
Operations == STRING \ {"store", "ret"}
Exprs == Seq([op : Operations, takes : Nat] \cup [op : Operations, takes : Nat, name : STRING])
Prototypes ==
  [kind : {"DECLARE"}, name : STRING, source : STRING, params : Seq(STRING), variadic : BOOLEAN,
   expr : {<<>>}]
Statements ==
  [kind : {"DIM"}, name : STRING, source : STRING, expr : Exprs]
  \cup Prototypes
  \cup [kind : {"FUNC"}, name : STRING, source : STRING, params : Seq(STRING),
        variadic : {FALSE}, returns : BOOLEAN, body : Nat, expr : {<<>>}]
  \cup [kind : {"RETURN", "EXPR"}, expr : Exprs]
  \cup [kind : {"ASSIGN"}, expr : Exprs, target : Nat]
  \cup [kind : {"EXTERN"}, decls : Seq(Prototypes), expr : {<<>>}]

(* What a list's own getDecls() holds: EXTERN's are not among them.         *)
IsDecl(stmt) == stmt.kind \in {"DIM", "DECLARE", "FUNC"}
IsFuncDecl(stmt) == stmt.kind \in {"DECLARE", "FUNC"}

-----------------------------------------------------------------------------
(* Where the body of a function stands.  A place is <<list, position>>.     *)

Functions(prog) ==
  UNION {{l} \X {i \in DOMAIN prog[l] : prog[l][i].kind = "FUNC"} : l \in DOMAIN prog}
Home(prog, l) == CHOOSE at \in Functions(prog) : prog[at[1]][at[2]].body = l

(* A program: every list but the module's is the body of one function that  *)
(* stands in a list before it.                                              *)
IsProgram(prog) ==
  /\ prog \in Seq(Seq(Statements)) /\ prog # <<>>
  /\ \A l \in DOMAIN prog \ {1} : \E at \in Functions(prog) : prog[at[1]][at[2]].body = l
  /\ \A at \in Functions(prog) :
       /\ prog[at[1]][at[2]].body \in at[1] + 1 .. Len(prog)
       /\ \A other \in Functions(prog) :
            prog[other[1]][other[2]].body = prog[at[1]][at[2]].body => other = at
=============================================================================
