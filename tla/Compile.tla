------------------------------ MODULE Compile ------------------------------
(***************************************************************************)
(* What the LLVM module should do, read off the program text, and the       *)
(* properties of the two walks of Lowering that make it do so.              *)
(***************************************************************************)
EXTENDS Lowering

-----------------------------------------------------------------------------
(* What the source says happens, in the order it is written: the effects -   *)
(* calls, stores and the return - of a list of statements, with their        *)
(* operands as postfix terms.  Whatever reads memory carries the number of   *)
(* effects before it.                                                       *)

Atom(op, what, when) == [op |-> op, what |-> what, when |-> when]
Effect(op, what, terms) == [op |-> op, what |-> what, terms |-> terms]
Concat(terms) ==
  LET upTo[k \in 0 .. Len(terms)] == IF k = 0 THEN <<>> ELSE upTo[k - 1] \o terms[k]
  IN upTo[Len(terms)]

SymbolMeant(place, n) == CHOOSE s \in DOMAIN symbols : symbols[s].decl \in Meaning(prog, place, n)
Address(s) == <<Atom("address", s, 0)>>

(* After j nodes of an expression: the effects, the operands waiting, whether *)
(* each variable was used before a later call could change it (calm), and    *)
(* whether no place was reached through a pointer (direct).                 *)
Item(term, where, pending) == [term |-> term, where |-> where, pending |-> pending]
Push(was, rest, item) == [was EXCEPT !.waiting = Append(rest, item)]

AfterVar(was, stmt, j, s) ==
  Push(was, was.waiting,
       Item(<<Atom("read", s, Len(was.effects))>>, Address(s),
            symbols[s].role # "function" /\ ~(stmt.kind = "ASSIGN" /\ j = stmt.target)))

AfterCall(was, callee, used, rest) ==
  [was EXCEPT
     !.effects = Append(@, Effect("call", callee, [k \in 1 .. Len(used) - 1 |-> used[k + 1].term])),
     !.waiting = Append(rest, Item(<<Atom("result", 0, Len(was.effects))>>, <<>>, FALSE)),
     !.calm = @ /\ \A k \in DOMAIN rest : ~rest[k].pending]

AfterOperator(was, op, used, rest) ==
  LET terms == [k \in DOMAIN used |-> used[k].term]
  IN CASE op = "literal" -> Push(was, rest, Item(<<Atom("literal", 0, 0)>>, <<>>, FALSE))
       [] op = "MOVE" -> Push(was, rest, used[1])
       [] op = "@" -> [Push(was, rest, Item(used[1].where, <<>>, FALSE))
                         EXCEPT !.direct = @ /\ used[1].where[1].op = "address"]
       [] op = "*" -> Push(was, rest,
                        Item(Concat(terms) \o <<Atom("*", 0, Len(was.effects))>>, terms[1], FALSE))
       [] OTHER -> Push(was, rest, Item(Concat(terms) \o <<Atom(op, 0, 0)>>, <<>>, FALSE))

AfterNode(was, place, stmt, j) ==
  LET e == stmt.expr[j]
      left == Len(was.waiting) - e.takes
      used == SubSeq(was.waiting, left + 1, Len(was.waiting))
      rest == SubSeq(was.waiting, 1, left)
  IN CASE e.op = "var" -> AfterVar(was, stmt, j, SymbolMeant(place, e.name))
       [] e.op = "call" -> AfterCall(was, SymbolMeant(place, e.name), used, rest)
       [] OTHER -> AfterOperator(was, e.op, used, rest)

Evaluated(place, stmt, effects) ==
  LET after[j \in 0 .. Len(stmt.expr)] ==
        IF j = 0 THEN [effects |-> effects, waiting |-> <<>>, calm |-> TRUE, direct |-> TRUE]
        ELSE AfterNode(after[j - 1], place, stmt, j)
  IN after[Len(stmt.expr)]

(* The same after i statements of a list; nothing happens after a RETURN.    *)
After(was, e) ==
  [was EXCEPT !.effects = e.effects, !.calm = @ /\ e.calm, !.direct = @ /\ e.direct]
Done(was, e, effect) == [After(was, e) EXCEPT !.effects = Append(@, effect)]

AfterStatement(was, place, stmt, e) ==
  CASE stmt.kind = "DIM" ->
         IF stmt.expr = <<>> THEN was
         ELSE Done(was, e, Effect("store", Address(SymbolOf(place \o <<0, 0>>)), <<e.waiting[1].term>>))
    [] stmt.kind = "ASSIGN" ->
         [Done(was, e, Effect("store", e.waiting[1].where, <<e.waiting[2].term>>))
            EXCEPT !.direct = @ /\ e.waiting[1].where[1].op = "address"]
    [] stmt.kind = "RETURN" ->
         [Done(was, e, Effect("ret", 0, [k \in DOMAIN e.waiting |-> e.waiting[k].term]))
            EXCEPT !.returned = TRUE]
    [] stmt.kind = "EXPR" -> After(was, e)
    [] OTHER -> was

FallsThrough(l, whole) ==
  LET value == IF l = 1 \/ FunctionAt(prog, l).returns THEN <<<<Atom("literal", 0, 0)>>>> ELSE <<>>
  IN IF whole.returned THEN whole ELSE [whole EXCEPT !.effects = Append(@, Effect("ret", 0, value))]

AfterStatementAt(was, place, stmt) ==
  IF was.returned THEN was
  ELSE AfterStatement(was, place, stmt, Evaluated(place, stmt, was.effects))

Meant(l) ==
  LET after[i \in 0 .. Len(prog[l])] ==
        IF i = 0 THEN [effects |-> <<>>, calm |-> TRUE, direct |-> TRUE, returned |-> FALSE]
        ELSE AfterStatementAt(after[i - 1], <<l, i>>, prog[l][i])
  IN FallsThrough(l, after[Len(prog[l])])

-----------------------------------------------------------------------------
(* What the LLVM function does, in the same words: effects up to the first   *)
(* return, after the stores of its arguments.                               *)

SymbolOfList(l) == IF l = 1 THEN <<>> ELSE <<SymbolOf(<<Home(prog, l)[1], Home(prog, l)[2], 0, 0>>)>>
CodeOf(l) == {f \in DOMAIN code : code[f].symbol = SymbolOfList(l)}
Prefix(l) == IF l = 1 THEN 0 ELSE 2 * Len(FunctionAt(prog, l).params)
Stored(v) == {s \in DOMAIN symbols : Variable(s) \in DOMAIN llvm /\ llvm[Variable(s)] = v}
IsEffect(instr) == instr.op \in {"call", "store", "ret"}

Before(body, from, i) == Cardinality({j \in from .. i - 1 : IsEffect(body[j])})
Returned(body, from, i) == \E j \in from .. i - 1 : body[j].op = "ret"

Produced(instr, terms, before) ==
  CASE instr.op = "load" -> <<Atom("read", terms[1][1].what, before)>>
    [] instr.op = "call" -> <<Atom("result", 0, before)>>
    [] instr.op = "*" -> terms[1] \o <<Atom("*", 0, before)>>
    [] OTHER -> Concat(terms) \o <<Atom(instr.op, 0, 0)>>

TermOf(v, result) ==
  CASE v = Constant -> <<Atom("literal", 0, 0)>>
    [] v # Constant /\ Stored(v) # {} -> Address(CHOOSE s \in Stored(v) : TRUE)
    [] OTHER -> IF v[1] = "result" THEN result ELSE <<Atom(v[1], v[2], 0)>>

EffectOf(instr, terms) ==
  CASE instr.op = "call" -> Effect("call", code[instr.args[1][2]].symbol[1], Tail(terms))
    [] instr.op = "store" -> Effect("store", terms[2], <<terms[1]>>)
    [] instr.op = "ret" -> Effect("ret", 0, terms)

DoneBy(body, from) ==
  LET args[i \in from .. Len(body)] ==
        [k \in DOMAIN body[i].args |->
           LET v == body[i].args[k]
           IN TermOf(v, Produced(body[v[3]], args[v[3]], Before(body, from, v[3])))]
      effects[i \in from - 1 .. Len(body)] ==
        IF i < from THEN <<>>
        ELSE IF IsEffect(body[i]) /\ ~Returned(body, from, i)
        THEN Append(effects[i - 1], EffectOf(body[i], args[i]))
        ELSE effects[i - 1]
  IN effects[Len(body)]

Does(l, f) == DoneBy(code[f].code, Prefix(l) + 1)

-----------------------------------------------------------------------------
(* Properties.                                                              *)

Lists == DOMAIN prog

(* Each function of the source, and the program itself, has one LLVM function, *)
(* which calls, stores and returns what the statements say, to what the names *)
(* mean where they stand, in their order - where no operand variable waits   *)
(* while a call runs, and no place is reached through a pointer.            *)
FollowsSource ==
  stage = "done" =>
    \A l \in Lists :
      LET meant == Meant(l)
      IN /\ Cardinality(CodeOf(l)) = 1
         /\ meant.calm /\ meant.direct => \A f \in CodeOf(l) : Does(l, f) = meant.effects

(* The same for places reached through a pointer, which address() takes a     *)
(* temporary to hold: "temporaries already hold a pointer".                 *)
TemporariesHoldPointers ==
  stage = "done" =>
    \A l \in Lists : \A f \in CodeOf(l) :
      LET meant == Meant(l) IN meant.calm => Does(l, f) = meant.effects

(* A block ends in its only terminator, unless something that is lowered      *)
(* follows a RETURN.                                                        *)
OneTerminator ==
  stage = "done" =>
    \A l \in Lists :
      (\A j, k \in DOMAIN prog[l] :
         prog[l][j].kind = "RETURN" /\ k > j => prog[l][k].kind \in {"DECLARE", "FUNC", "EXTERN"})
      => \A f \in CodeOf(l) : \A i \in DOMAIN code[f].code :
           code[f].code[i].op = "ret" <=> i = Len(code[f].code)

(* An LLVM instruction uses values of its own function, made before it, unless *)
(* its function names a variable of one around it; and never a value that    *)
(* was not lowered.                                                         *)
Captures(l) ==
  \E i \in DOMAIN prog[l] : \E j \in DOMAIN prog[l][i].expr :
    LET e == prog[l][i].expr[j]
    IN e.op = "var" /\ \E key \in Meaning(prog, <<l, i>>, e.name) :
         /\ Scope(prog, <<l, i>>, e.name)[1] \notin {1, l}
         /\ key[4] # 0 \/ ~IsFuncDecl(DeclOf(prog, key))

ValuesStayHome ==
  stage = "done" =>
    \A l \in Lists : \A f \in CodeOf(l) : \A i \in DOMAIN code[f].code :
      \A k \in DOMAIN code[f].code[i].args :
        LET v == code[f].code[i].args[k]
        IN /\ v[1] # "null"
           /\ v[1] \in {"result", "argument"} /\ ~Captures(l) => v[2] = f
           /\ v[1] = "result" /\ v[2] = f => v[3] < i
=============================================================================
