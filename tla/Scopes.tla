------------------------------- MODULE Scopes -------------------------------
(***************************************************************************)
(* Declarations, scopes and linkage: SemanticAnalyser over a program's      *)
(* statements.  Each action is one visit - of a declaration, an expression  *)
(* node, a statement - or the return from one; frames is the call stack of  *)
(* accept(AstStmtList&), whose ValueRestorers put m_symbolTable and         *)
(* m_returnType back, on errors too.  (An operator used nowhere is a mutant *)
(* of the definition that follows.)                                         *)
(***************************************************************************)
EXTENDS Program

CONSTANTS Names,     \* identifiers
          Families   \* the programs explored, in sets

(* The identifiers of a program are Names, and a call's callee is the        *)
(* variable that is its first operand.                                      *)
SpelledNode(expr, j) ==
  /\ expr[j].op = "var" => expr[j].name \in Names
  /\ expr[j].op = "call" => \E i \in 1 .. j - 1 : expr[i].op = "var" /\ expr[i].name = expr[j].name
SpelledDecl(decl) ==
  decl.name \in Names /\ (IsFuncDecl(decl) => \A k \in DOMAIN decl.params : decl.params[k] \in Names)
Spelled(p) ==
  \A l \in DOMAIN p : \A i \in DOMAIN p[l] :
    /\ IsDecl(p[l][i]) => SpelledDecl(p[l][i])
    /\ p[l][i].kind = "EXTERN" => \A k \in DOMAIN p[l][i].decls : SpelledDecl(p[l][i].decls[k])
    /\ \A j \in DOMAIN p[l][i].expr : SpelledNode(p[l][i].expr, j)

ASSUME ScopesAssumption == \A few \in Families : \A p \in few : IsProgram(p) /\ Spelled(p)

VARIABLES
  prog,
  symbols,      \* every Symbol made, oldest first
  tables,       \* every SymbolTable made: its parent (0: none) and its symbols by name (0: none)
  listTable,    \* the table each AstStmtList was given, 0 before
  frames,       \* the lists being visited, innermost last
  node,         \* how far the visit of the statement at hand is
  table,        \* m_symbolTable
  returnType,   \* m_returnType
  externKind,   \* m_externKind
  resolved,     \* the symbols AstVarExprs were given
  error         \* the diagnostic that ends the analysis

semaVars == <<prog, symbols, tables, listTable, frames, node, table, returnType, externKind, resolved, error>>

-----------------------------------------------------------------------------
(* Symbols.  decl is the AstDecl that holds the symbol: its place, its index *)
(* in an EXTERN block, and the parameter's number, 0 where there is none.   *)

Symbol(n, decl, role, linkage, alias, status) ==
  [name |-> n, decl |-> decl, role |-> role, extern |-> linkage, alias |-> alias, status |-> status]

SymbolsOf(decl) == {s \in DOMAIN symbols : symbols[s].decl = decl}
SymbolOf(decl) == CHOOSE s \in SymbolsOf(decl) : TRUE

NewTable(parent) == [parent |-> parent, names |-> [n \in Names |-> 0]]

(* The table in which find(name, true) finds it, 0 if none does: a walk up   *)
(* the parents, which are older than the tables that name them.             *)
FindFrom(t, n) ==
  LET holder[u \in 0 .. Len(tables)] ==
        IF u = 0 \/ tables[u].names[n] # 0 THEN u ELSE holder[tables[u].parent]
  IN holder[t]

Find(t, n) == LET u == FindFrom(t, n) IN IF u = 0 THEN 0 ELSE tables[u].names[n]

ContainsAnywhere(t, n) == Find(t, n) # 0
Contains(t, n) == tables[t].names[n] # 0

-----------------------------------------------------------------------------
(* The list and the statement being visited.                                *)

Frame == frames[Len(frames)]
Here == <<Frame.list, Frame.at>>
Stmt == prog[Frame.list][Frame.at]
DeclHere(k) == <<Frame.list, Frame.at, k, 0>>

Undeclared == {i \in DOMAIN prog[Frame.list] :
                 IsDecl(prog[Frame.list][i]) /\ SymbolsOf(<<Frame.list, i, 0, 0>>) = {}}
Undefined == {i \in DOMAIN prog[Frame.list] :
                IsFuncDecl(prog[Frame.list][i]) /\
                symbols[SymbolOf(<<Frame.list, i, 0, 0>>)].status = "Declared"}
First(S) == CHOOSE i \in S : \A j \in S : i <= j

Going == error = "none" /\ frames # <<>>
Visiting(kinds) == Going /\ Undeclared = {} /\ Undefined = {} /\ Frame.at <= Len(prog[Frame.list])
                   /\ Stmt.kind \in kinds

Refuse(diagnostic) ==
  /\ error' = diagnostic
  /\ UNCHANGED <<prog, symbols, tables, listTable, frames, node, table, returnType, externKind, resolved>>

(* The rest of the list: the next statement.                                *)
Finish ==
  /\ frames' = [frames EXCEPT ![Len(frames)].at = @ + 1]
  /\ node' = 0

-----------------------------------------------------------------------------
(* declare and define.                                                      *)

InsertBelow(symbol) ==
  /\ symbols' = Append(symbols, symbol)
  /\ tables' = [tables EXCEPT ![1].names[symbol.name] = Len(symbols) + 1]

Insert(symbol) ==
  /\ symbols' = Append(symbols, symbol)
  /\ tables' = [tables EXCEPT ![table].names[symbol.name] = Len(symbols) + 1]

Declare(decl, key) ==
  IF Contains(table, decl.name) THEN Refuse("redefinition")
  ELSE /\ Insert(Symbol(decl.name, key, IF IsFuncDecl(decl) THEN "function" ELSE "variable",
                        externKind, IF externKind = "C" THEN decl.source ELSE "", "Declared"))
       /\ UNCHANGED <<prog, listTable, frames, table, returnType, externKind, resolved, error>>

(* The parameters that can be declared: those before the first repeated one. *)
Fitting(params) ==
  IF \E p \in DOMAIN params : \E q \in 1 .. p - 1 : params[q] = params[p]
  THEN First({p \in DOMAIN params : \E q \in 1 .. p - 1 : params[q] = params[p]}) - 1
  ELSE Len(params)

(* accept(AstFuncDecl&): a table for the parameters, under the current one;  *)
(* a definition hands it to its body.                                       *)
DefineFunction(decl, key) ==
  LET s == SymbolOf(key)
      fits == Fitting(decl.params)
      whole == fits = Len(decl.params)
  IN IF decl.variadic /\ symbols[s].extern # "C"
     THEN /\ symbols' = [symbols EXCEPT ![s].status = "BeingDefined"]
          /\ error' = "variadicRequiresC"
          /\ UNCHANGED <<tables, listTable>>
     ELSE /\ symbols' = [symbols EXCEPT ![s].status = IF whole THEN "Defined" ELSE "BeingDefined"]
                        \o [p \in 1 .. fits |->
                             Symbol(decl.params[p], <<key[1], key[2], key[3], p>>, "param",
                                    externKind, IF externKind = "C" THEN decl.params[p] ELSE "",
                                    "Defined")]
          /\ tables' = Append(tables,
               [parent |-> table,
                names |-> [n \in Names |-> IF \E p \in 1 .. fits : decl.params[p] = n
                                          THEN Len(symbols) + CHOOSE p \in 1 .. fits : decl.params[p] = n
                                          ELSE 0]])
          /\ listTable' = IF whole /\ decl.kind = "FUNC"
                          THEN [listTable EXCEPT ![decl.body] = Len(tables) + 1] ELSE listTable
          /\ error' = IF whole THEN error ELSE "redefinition"

-----------------------------------------------------------------------------
(* The visits.                                                              *)

Init ==
  /\ \E few \in Families : prog \in few
  /\ symbols = <<>> /\ tables = <<>>
  /\ listTable = [l \in DOMAIN prog |-> 0]
  /\ frames = <<>> /\ node = 0
  /\ table = 0 /\ returnType = "none" /\ externKind = "Default"
  /\ resolved = {} /\ error = "none"

(* analyse: the module's list gets a table with no parent.                  *)
Analyse ==
  /\ tables = <<>>
  /\ tables' = <<NewTable(table)>>
  /\ table' = 1
  /\ listTable' = [listTable EXCEPT ![1] = 1]
  /\ frames' = <<[list |-> 1, at |-> 1, table |-> table, returns |-> returnType]>>
  /\ UNCHANGED <<prog, symbols, node, returnType, externKind, resolved, error>>

(* accept(AstStmtList&): its declarations, then its functions' signatures... *)
DeclareNext ==
  /\ Going /\ Undeclared # {}
  /\ LET i == First(Undeclared)
     IN Declare(prog[Frame.list][i], <<Frame.list, i, 0, 0>>)
  /\ UNCHANGED node

DefineNext ==
  /\ Going /\ Undeclared = {} /\ Undefined # {}
  /\ LET i == First(Undefined)
     IN DefineFunction(prog[Frame.list][i], <<Frame.list, i, 0, 0>>)
  /\ UNCHANGED <<prog, frames, node, table, returnType, externKind, resolved>>

(* ... then its statements.                                                 *)
VisitDeclare ==
  /\ Visiting({"DECLARE"})
  /\ Finish
  /\ UNCHANGED <<prog, symbols, tables, listTable, table, returnType, externKind, resolved, error>>

(* DIM: define() marks the symbol, visits the initialiser, marks it defined. *)
BeginDim ==
  /\ Visiting({"DIM"})
  /\ symbols[SymbolOf(DeclHere(0))].status = "Declared"
  /\ symbols' = [symbols EXCEPT ![SymbolOf(DeclHere(0))].status = "BeingDefined"]
  /\ UNCHANGED <<prog, tables, listTable, frames, node, table, returnType, externKind, resolved, error>>

EndDim ==
  /\ Visiting({"DIM"})
  /\ symbols[SymbolOf(DeclHere(0))].status = "BeingDefined"
  /\ node = Len(Stmt.expr)
  /\ symbols' = [symbols EXCEPT ![SymbolOf(DeclHere(0))].status = "Defined"]
  /\ Finish
  /\ UNCHANGED <<prog, tables, listTable, table, returnType, externKind, resolved, error>>

(* RETURN: what is wrong with it before its expression is looked at.        *)
ReturnRefused ==
  CASE returnType = "none" -> "returnOutsideFunction"
    [] returnType = "void" /\ Stmt.expr # <<>> -> "returnValueInSub"
    [] returnType = "value" /\ Stmt.expr = <<>> -> "returnMissingValue"
    [] OTHER -> "none"

RefuseReturn ==
  /\ Visiting({"RETURN"}) /\ node = 0 /\ ReturnRefused # "none"
  /\ Refuse(ReturnRefused)

EndStatement ==
  /\ Visiting({"EXPR", "ASSIGN", "RETURN"})
  /\ node = Len(Stmt.expr)
  /\ Stmt.kind = "RETURN" => ReturnRefused = "none"
  /\ Finish
  /\ UNCHANGED <<prog, symbols, tables, listTable, table, returnType, externKind, resolved, error>>

(* The node of an expression to visit next: a variable is looked up through  *)
(* the scopes and must be defined, a callee must be a function.             *)
NodeRefused(e) ==
  LET s == Find(table, e.name)
  IN CASE e.op = "var" /\ s = 0 -> "undeclaredIdentifier"
       [] e.op = "var" /\ s # 0 /\ symbols[s].status # "Defined" -> "useBeforeDefinition"
       [] e.op = "call" /\ symbols[s].role # "function" -> "notCallable"
       [] OTHER -> "none"

VisitNode ==
  /\ Visiting({"DIM", "EXPR", "ASSIGN", "RETURN"})
  /\ node < Len(Stmt.expr)
  /\ Stmt.kind = "DIM" => symbols[SymbolOf(DeclHere(0))].status = "BeingDefined"
  /\ Stmt.kind = "RETURN" => ReturnRefused = "none"
  /\ LET e == Stmt.expr[node + 1]
     IN IF NodeRefused(e) # "none" THEN Refuse(NodeRefused(e))
        ELSE /\ node' = node + 1
             /\ resolved' = IF e.op = "var"
                            THEN resolved \cup {[at |-> Here, node |-> node + 1, symbol |-> Find(table, e.name)]}
                            ELSE resolved
             /\ UNCHANGED <<prog, symbols, tables, listTable, frames, table, returnType, externKind, error>>

(* SUB and FUNCTION: the body, in the table its declaration made.           *)
VisitFunction ==
  /\ Visiting({"FUNC"})
  /\ frames' = Append(frames, [list |-> Stmt.body, at |-> 1, table |-> table, returns |-> returnType])
  /\ table' = listTable[Stmt.body]
  /\ returnType' = IF Stmt.returns THEN "value" ELSE "void"
  /\ UNCHANGED <<prog, symbols, tables, listTable, node, externKind, resolved, error>>

(* EXTERN: all its declarations under its linkage, then all definitions      *)
(* under the default one.  node counts: 0, the n declarations, the return to *)
(* the default, the n definitions.                                          *)
BeginExtern ==
  /\ Visiting({"EXTERN"}) /\ node = 0
  /\ externKind' = "C" /\ node' = 1
  /\ UNCHANGED <<prog, symbols, tables, listTable, frames, table, returnType, resolved, error>>

DeclareExtern ==
  /\ Visiting({"EXTERN"}) /\ node \in 1 .. Len(Stmt.decls)
  /\ Declare(Stmt.decls[node], DeclHere(node))
  /\ node' = IF Contains(table, Stmt.decls[node].name) THEN node ELSE node + 1

EndLinkageLate ==
  /\ Visiting({"EXTERN"}) /\ node = Len(Stmt.decls) + 1
  /\ node' = node + 1
  /\ UNCHANGED <<prog, symbols, tables, listTable, frames, table, returnType, externKind, resolved, error>>

EndLinkage ==
  /\ Visiting({"EXTERN"}) /\ node = Len(Stmt.decls) + 1
  /\ externKind' = "Default" /\ node' = node + 1
  /\ UNCHANGED <<prog, symbols, tables, listTable, frames, table, returnType, resolved, error>>

DefineExtern ==
  /\ Visiting({"EXTERN"}) /\ node \in Len(Stmt.decls) + 2 .. 2 * Len(Stmt.decls) + 1
  /\ LET k == node - Len(Stmt.decls) - 1
     IN DefineFunction(Stmt.decls[k], DeclHere(k))
  /\ node' = node + 1
  /\ UNCHANGED <<prog, frames, table, returnType, externKind, resolved>>

EndExtern ==
  /\ Visiting({"EXTERN"}) /\ node = 2 * Len(Stmt.decls) + 2
  /\ Finish
  /\ UNCHANGED <<prog, symbols, tables, listTable, table, returnType, externKind, resolved, error>>

(* The end of a list, and an error's way out of one: the restorers run, and  *)
(* a function statement of the list around is finished with its body.       *)
RestoredButScope ==
  /\ table' = table
  /\ returnType' = Frame.returns
  /\ frames' = LET outer == SubSeq(frames, 1, Len(frames) - 1)
               IN IF outer = <<>> THEN outer ELSE [outer EXCEPT ![Len(outer)].at = @ + 1]
  /\ node' = 0

Restored ==
  /\ table' = Frame.table
  /\ returnType' = Frame.returns
  /\ frames' = LET outer == SubSeq(frames, 1, Len(frames) - 1)
               IN IF outer = <<>> THEN outer ELSE [outer EXCEPT ![Len(outer)].at = @ + 1]
  /\ node' = 0

EndList ==
  /\ Going /\ Undeclared = {} /\ Undefined = {} /\ Frame.at > Len(prog[Frame.list])
  /\ Restored
  /\ UNCHANGED <<prog, symbols, tables, listTable, externKind, resolved, error>>

Unwind ==
  /\ error # "none" /\ frames # <<>>
  /\ Restored
  /\ externKind' = "Default"
  /\ UNCHANGED <<prog, symbols, tables, listTable, resolved, error>>

Analysed == tables # <<>> /\ frames = <<>>

SemaNext ==
  \/ Analyse \/ DeclareNext \/ DefineNext \/ VisitDeclare \/ BeginDim \/ EndDim
  \/ RefuseReturn \/ EndStatement \/ VisitNode \/ VisitFunction
  \/ BeginExtern \/ DeclareExtern \/ EndLinkage \/ DefineExtern \/ EndExtern
  \/ EndList \/ Unwind

-----------------------------------------------------------------------------
(* What the language promises, read off the program text.                   *)

Places(p) == UNION {{l} \X DOMAIN p[l] : l \in DOMAIN p}
FunctionAt(p, l) == LET at == Home(p, l) IN p[at[1]][at[2]]

(* The declarations that belong to list l, by the keys their symbols carry.  *)
Parameters(p, l) ==
  IF l = 1 THEN {}
  ELSE {<<Home(p, l)[1], Home(p, l)[2], 0, k>> : k \in DOMAIN FunctionAt(p, l).params}
Linked(p, l) ==
  UNION {{<<l, i, k, 0>> : k \in DOMAIN p[l][i].decls} : i \in {i \in DOMAIN p[l] : p[l][i].kind = "EXTERN"}}
Owned(p, l) ==
  {<<l, i, 0, 0>> : i \in {i \in DOMAIN p[l] : IsDecl(p[l][i])}} \cup Parameters(p, l)

DeclOf(p, key) == IF key[3] = 0 THEN p[key[1]][key[2]] ELSE p[key[1]][key[2]].decls[key[3]]
NameOf(p, key) == IF key[4] = 0 THEN DeclOf(p, key).name ELSE DeclOf(p, key).params[key[4]]

(* What a name means at a place: the declaration of that name nearest to it   *)
(* going outwards.  A list's own declarations hold throughout it; EXTERN's   *)
(* only below it.                                                           *)
Visible(p, at, n) ==
  {key \in Owned(p, at[1]) \cup {key \in Linked(p, at[1]) : key[2] < at[2]} : NameOf(p, key) = n}

Scope(p, at, n) ==
  LET seen[from \in Places(p)] ==
        IF Visible(p, from, n) # {} \/ from[1] = 1 THEN from ELSE seen[Home(p, from[1])]
  IN seen[at]
Meaning(p, at, n) == Visible(p, Scope(p, at, n), n)

(* A variable can be used below its DIM, anything else throughout.           *)
Usable(p, at, n) ==
  \A key \in Meaning(p, at, n) :
    key[4] = 0 /\ DeclOf(p, key).kind = "DIM" => key[2] < Scope(p, at, n)[2]

WellScopedNodes(p, at) ==
  LET expr == p[at[1]][at[2]].expr
  IN \A j \in DOMAIN expr :
       /\ expr[j].op = "var" => Meaning(p, at, expr[j].name) # {} /\ Usable(p, at, expr[j].name)
       /\ expr[j].op = "call" =>
            \A key \in Meaning(p, at, expr[j].name) : key[4] = 0 /\ IsFuncDecl(DeclOf(p, key))

WellScoped(p) ==
  /\ \A l \in DOMAIN p : \A one, other \in Owned(p, l) \cup Linked(p, l) :
       NameOf(p, one) = NameOf(p, other) => one = other
  /\ \A at \in Places(p) :
       LET stmt == p[at[1]][at[2]]
       IN /\ WellScopedNodes(p, at)
          /\ stmt.kind = "RETURN" =>
               at[1] # 1 /\ (FunctionAt(p, at[1]).returns <=> stmt.expr # <<>>)
          /\ IsFuncDecl(stmt) => ~stmt.variadic
          /\ stmt.kind = "DECLARE" => Fitting(stmt.params) = Len(stmt.params)
          /\ stmt.kind = "EXTERN" =>
               \A k \in DOMAIN stmt.decls : Fitting(stmt.decls[k].params) = Len(stmt.decls[k].params)

-----------------------------------------------------------------------------
(* Properties.                                                              *)

(* The analysis refuses a program exactly when its text breaks a scoping rule: *)
(* the order of declarations, definitions, bodies and EXTERN blocks in       *)
(* accept(AstStmtList&) lets nothing through and refuses nothing else.       *)
AcceptsExactly == Analysed => (error = "none" <=> WellScoped(prog))

(* Every name an expression was given a symbol for got the symbol of its       *)
(* innermost declaration, although scopes fill up while they are searched.   *)
ResolvesInnermost ==
  \A use \in resolved :
    Meaning(prog, use.at, prog[use.at[1]][use.at[2]].expr[use.node].name)
      = {symbols[use.symbol].decl}

(* C linkage and the verbatim alias stay with the functions an EXTERN block   *)
(* declares: m_externKind never reaches a parameter, a body or a later       *)
(* declaration, also after an error inside the block.                        *)
LinkageStaysInside ==
  /\ \A s \in DOMAIN symbols :
       /\ symbols[s].extern = "C" <=> symbols[s].decl[3] # 0 /\ symbols[s].decl[4] = 0
       /\ symbols[s].alias # "" => symbols[s].extern = "C"
  /\ frames = <<>> => externKind = "Default"

(* m_symbolTable and m_returnType are those of the innermost list visited, a   *)
(* body's table lies in that of the list its function stands in, and both    *)
(* are back where they were when the analysis ends, however it ends.         *)
ScopesNest ==
  /\ frames = <<>> => table = 0 /\ returnType = "none"
  /\ \A f \in DOMAIN frames :
       LET inner == IF f = Len(frames) THEN table ELSE frames[f + 1].table
       IN /\ inner = listTable[frames[f].list]
          /\ tables[inner].parent = frames[f].table
=============================================================================
