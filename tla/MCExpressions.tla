--------------------------- MODULE MCExpressions ---------------------------
(* Expressions over nine variables of the types that differ in a rule: trees *)
(* of up to two operators, in each kind of statement.                       *)
EXTENDS Expressions

MCVars == [b |-> Of("BYTE"), u |-> Of("UBYTE"), l |-> Of("LONG"), d |-> Of("DOUBLE"), t |-> Of("BOOL"),
           p |-> Ptr("LONG"), a |-> Ptr("ANY"), c |-> Ptr("CONST LONG"), r |-> Ref("LONG"),
           f |-> Func("f"), g |-> Func("g"), h |-> Func("h")]
MCFunctions == [f |-> [params |-> <<Of("LONG")>>, variadic |-> FALSE, returns |-> Of("BYTE")],
                g |-> [params |-> <<Ptr("ANY")>>, variadic |-> TRUE, returns |-> Of("VOID")],
                h |-> [params |-> <<>>, variadic |-> FALSE, returns |-> Ref("LONG")]]

Var(name) == Node("var", name, <<>>, NoType)
Lit(op) == Node(op, "", <<>>, NoType)
Leaves == {Lit(op) : op \in Literals} \cup {Var(x) : x \in {"b", "u", "l", "d", "t", "p", "a", "c", "r"}}
Few == {Lit("int"), Lit("NULL"), Var("b"), Var("l"), Var("t"), Var("a")}

Unaries(trees) == {Node(op, "", <<x>>, NoType) : op \in {"-", "NOT", "@", "*", "MOVE"}, x \in trees}
Casts(trees) == {Node("AS", "", <<x>>, to) : to \in {Of("BYTE"), Of("INTEGER"), Ptr("ANY")}, x \in trees}
Binaries(lefts, rights) ==
  {Node(op, "", <<x, y>>, NoType) : op \in {"+", "<", "AND"}, x \in lefts, y \in rights}
CallOf(name, args) == Node("call", "", <<Var(name)>> \o args, NoType)
Calls(trees) == {CallOf("f", <<x>>) : x \in trees} \cup {CallOf("g", <<Var("p"), x>>) : x \in trees}
                \cup {CallOf("g", <<x>>) : x \in trees}
                \cup {CallOf("f", <<>>), CallOf("h", <<>>), CallOf("h", <<Lit("int")>>), CallOf("b", <<>>)}

One == UNION {Leaves, Unaries(Leaves), Casts(Leaves), Binaries(Leaves, Leaves), Calls(Leaves)}
Two == {Unaries(One), Casts(One), Binaries(One, Few), Binaries(Few, One), Calls(One)}

Stmt(kind, type, target, expr) == [kind |-> kind, type |-> type, target |-> target, expr |-> expr]
MCStatements ==
  {{Stmt("expression", NoType, NoTree, e) : e \in trees} : trees \in Two}
  \cup {{Stmt("DIM", t, NoTree, e) : e \in One} :
          t \in {NoType, Of("BYTE"), Of("LONG"), Of("DOUBLE"), Ptr("ANY"), Ref("LONG")}}
  \cup {{Stmt("RETURN", t, NoTree, e) : e \in One} : t \in {Of("LONG"), Ref("LONG")}}
  \cup {{Stmt("assign", NoType, x, e) : e \in One} :
          x \in {Var("l"), Lit("int"), Node("*", "", <<Var("p")>>, NoType),
                 Node("*", "", <<Var("c")>>, NoType), CallOf("h", <<>>), CallOf("f", <<Var("l")>>),
                 Node("MOVE", "", <<Var("l")>>, NoType)}}
MCLeftovers == {NoType, Of("BYTE")}
=============================================================================
