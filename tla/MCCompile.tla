----------------------------- MODULE MCCompile -----------------------------
EXTENDS Compile

MCNames == {"X", "Y", "Z", "F", "G", "P"}

X == Var("X")
Y == Var("Y")
P == Var("P")
CallF(arg) == <<Var("F")>> \o arg \o <<Call("F", 1)>>
Plus(a, b) == a \o b \o <<Binary("+")>>
ExternF == Extern(<<Declaration("F", "f", <<"X">>, FALSE)>>)

(* Three statements in all, out of a menu, in a module and the body of a      *)
(* function F that stands among them.                                       *)
Menu == {Dim("X", <<>>), Dim("Y", <<X>>), Dim("F", <<>>), Assign(<<X>>, <<Y>>), Evaluate(CallF(<<X>>)),
         Return(<<>>), Return(<<X>>), ExternF, Declaration("F", "F", <<"Y">>, FALSE)}
Lines(n) == [1 .. n -> Menu]
Around(n, f) ==
  {{<<a \o <<f>> \o b, c>> : a \in Lines(i), b \in Lines(j), c \in Lines(n - i - j)} :
     <<i, j>> \in {ij \in (0 .. n) \X (0 .. n) : ij[1] + ij[2] <= n}}
OneFunction ==
  UNION {Around(n, Func("F", <<p>>, r, 2)) : n \in 0 .. 3, p \in {"X", "Y"}, r \in BOOLEAN}

(* Two functions, nested or one after the other, whose bodies and whose       *)
(* neighbours work on what is around them.                                  *)
Inner == {<<>>, <<Dim("X", <<>>)>>, <<Return(Plus(<<X>>, <<Y>>))>>, <<Assign(<<X>>, CallF(<<Y>>))>>,
          <<Evaluate(CallF(<<Literal>>)), Return(<<Literal>>)>>}
Outer == {<<>>, <<Dim("X", <<Literal>>)>>, <<Assign(<<X>>, Plus(CallF(<<X>>), <<X>>))>>, <<ExternF>>}
G(body) == Func("G", <<"Y">>, TRUE, body)
CallG == Evaluate(<<Var("G"), Literal, Call("G", 1)>>)
TwoFunctions ==
  {{<<a \o <<Func(f, <<"Y">>, r, 2)>> \o b, c \o <<G(3)>> \o d, e>> :
      a \in Outer, b \in {<<>>, <<CallG>>}, c \in Outer, d \in {<<>>, <<CallG>>}, e \in Inner} :
     f \in {"F", "G"}, r \in BOOLEAN}
  \cup
  {{<<a \o <<Func(f, <<"Y">>, r, 2)>> \o b \o <<G(3)>>, d, e>> :
      a \in Outer, b \in {<<>>, <<CallG>>}, d \in Inner, e \in Inner} :
     f \in {"F", "G"}, r \in BOOLEAN}

(* Every kind of expression node, in every kind of statement, in the module   *)
(* and in a function of one variable and one pointer.                       *)
Terms ==
  {<<Literal>>, <<X>>, Plus(<<X>>, <<Y>>), Plus(<<X>>, CallF(<<Y>>)), Plus(CallF(<<X>>), <<Y>>),
   CallF(CallF(<<X>>)), CallF(Plus(<<X>>, <<Literal>>)), <<X, Unary("-"), Unary("CAST")>>,
   <<X, Unary("MOVE"), Unary("-")>>, <<X, Unary("@"), Unary("*")>>, <<P, Unary("*")>>,
   Plus(CallF(<<X>>), <<X, Unary("MOVE")>>), Plus(<<P, Unary("*")>>, CallF(<<X>>))}
Uses == UNION {{Dim("Z", t), Assign(<<X>>, t), Evaluate(t), Return(t)} : t \in Terms}
Again == {Assign(<<X>>, <<Y>>), Return(Plus(<<X>>, <<P, Unary("*")>>)),
          Dim("Z", Plus(CallF(<<X>>), CallF(<<Y>>)))}
Prelude == <<Dim("X", <<>>), Dim("P", <<X, Unary("@")>>)>>
Expressions ==
  {{<<Prelude \o <<Dim("Y", <<>>), ExternF, one, two>>>> : two \in Again} : one \in Uses}
  \cup
  {{<<<<ExternF, Func("G", <<"Y">>, TRUE, 2)>>, Prelude \o <<one, two>>>> : two \in Again} : one \in Uses}

MCFamilies == OneFunction \cup TwoFunctions \cup Expressions

(* Places reached through pointers: stored to, and taken the address of.      *)
Through == <<P, Unary("*")>>
MCPlaces ==
  {{<<<<Dim("Y", <<>>)>> \o Prelude \o <<Assign(target, value), Dim("Z", more)>>>> :
      target \in {<<X>>, Through}, value \in {<<Y>>, Through},
      more \in {<<X>>, Through \o <<Unary("@")>>, Through \o <<Unary("@"), Unary("*")>>}}}
=============================================================================
