------------------------------ MODULE Lowering ------------------------------
(***************************************************************************)
(* From the analysed tree to LLVM: IrGenerator walks the statements again   *)
(* and builds functions and the global-init body out of instructions, then  *)
(* gen::Generator walks those.  Reads of variables are implicit in the IR;  *)
(* the second walk makes each a load where the instruction that uses it is. *)
(* A function's body is one block: IF, which would make more, is refused by *)
(* the analyser.                                                            *)
(***************************************************************************)
EXTENDS Scopes, TLC

VARIABLES
  stage,        \* "sema", "ir", then the parts of Generator::generate, "done"
  operand,      \* Symbol::m_operand
  declarations, \* Module::m_declarations: the global variables
  functions,    \* Module::m_functions
  globalInit,   \* Module::m_globalInitBlock
  lists,        \* the lists being lowered, innermost last, with what their restorers hold
  at,           \* how far the lowering of the statement at hand is
  operands,     \* the operands of the nodes visited that no node has used yet
  function,     \* m_function, as an index in functions; 0 at module level
  tempCounter,  \* m_tempCounter
  llvm,         \* Value::m_llvm of the IR values lowered
  globals,      \* the LLVM module's global variables: their symbols
  code,         \* its functions: symbol (none: the program's main), instructions
  lowered       \* how many parts of the stage, and instructions of the part, are lowered

irVars == <<operand, declarations, functions, globalInit, lists, at, operands, function, tempCounter>>
llvmVars == <<llvm, globals, code, lowered>>
vars == <<semaVars, stage, irVars, llvmVars>>

-----------------------------------------------------------------------------
(* IR values and instructions.                                              *)

NoValue == [is |-> "null"]
LiteralValue == [is |-> "literal"]
Variable(s) == [is |-> "variable", symbol |-> s]
Function(s) == [is |-> "function", symbol |-> s]
Temporary(name, f, position) == [is |-> "temporary", name |-> name, function |-> f, position |-> position]

Instruction(op, result, args) == [op |-> op, result |-> result, args |-> args]
VarInstr(s) == Instruction("var", Variable(s), <<>>)
StoreInstr(dest, src) == Instruction("store", NoValue, <<src, dest>>)
RetInstr(values) == Instruction("ret", NoValue, values)
(* Loads, casts, addresses, calls and operators: all have a result.         *)
ExprInstr(op, tmp, args) == Instruction(op, tmp, args)
IsTerminator(instr) == instr.op = "ret"

Body(f) == IF f = 0 THEN globalInit ELSE functions[f].body

Emit(instr) ==
  /\ functions' = IF function # 0 THEN [functions EXCEPT ![function].body = Append(@, instr)] ELSE functions
  /\ declarations' = IF function = 0 /\ instr.op = "var" THEN Append(declarations, instr.result) ELSE declarations
  /\ globalInit' = IF function = 0 /\ instr.op # "var" THEN Append(globalInit, instr) ELSE globalInit

TerminatedTwice(body) == Append(body, RetInstr(<<>>))
IsTerminated(body) == body # <<>> /\ IsTerminator(body[Len(body)])
Terminated(body) == IF IsTerminated(body) THEN body ELSE Append(body, RetInstr(<<>>))

-----------------------------------------------------------------------------
(* The walk of the tree.                                                    *)

List == lists[Len(lists)]
Place == <<List.list, List.at>>
ListEnded == List.at > Len(prog[List.list])
Lowers(kinds) == stage = "ir" /\ ~ListEnded /\ prog[List.list][List.at].kind \in kinds
Node == prog[List.list][List.at]
NodesDone == at = Len(Node.expr)
Declared == SymbolOf(<<List.list, List.at, 0, 0>>)

SymbolUsed(place, j) == (CHOOSE use \in resolved : use.at = place /\ use.node = j).symbol

NextStatement ==
  /\ lists' = [lists EXCEPT ![Len(lists)].at = @ + 1]
  /\ at' = 0 /\ operands' = <<>>

(* accept(AstStmtList&) makes the Function objects of its declarations first. *)
Forward(l) ==
  [s \in DOMAIN operand |->
     IF \E i \in DOMAIN prog[l] : IsFuncDecl(prog[l][i]) /\ symbols[s].decl = <<l, i, 0, 0>>
     THEN Function(s) ELSE operand[s]]

GenerateIR ==
  /\ stage = "sema" /\ Analysed /\ error = "none"
  /\ stage' = "ir"
  /\ operand' = [s \in DOMAIN symbols |-> IF symbols[s].role = "function" /\ symbols[s].decl[1] = 1
                                             /\ symbols[s].decl[3] = 0
                                          THEN Function(s) ELSE NoValue]
  /\ lists' = <<[list |-> 1, at |-> 1, function |-> function, temps |-> tempCounter]>>
  /\ UNCHANGED <<semaVars, declarations, functions, globalInit, at, operands, function, tempCounter, llvmVars>>

GenDeclare ==
  /\ Lowers({"DECLARE"})
  /\ NextStatement
  /\ UNCHANGED <<semaVars, stage, operand, declarations, functions, globalInit, function, tempCounter, llvmVars>>

(* An EXTERN's functions get their objects where the block stands.           *)
GenExtern ==
  /\ Lowers({"EXTERN"})
  /\ operand' = [s \in DOMAIN operand |->
                   IF \E k \in DOMAIN Node.decls : symbols[s].decl = <<List.list, List.at, k, 0>>
                   THEN Function(s) ELSE operand[s]]
  /\ NextStatement
  /\ UNCHANGED <<semaVars, stage, declarations, functions, globalInit, function, tempCounter, llvmVars>>

GenVariable ==
  /\ Lowers({"DIM"}) /\ operand[Declared] = NoValue
  /\ operand' = [operand EXCEPT ![Declared] = Variable(Declared)]
  /\ Emit(VarInstr(Declared))
  /\ IF Node.expr = <<>> THEN NextStatement ELSE UNCHANGED <<lists, at, operands>>
  /\ UNCHANGED <<semaVars, stage, function, tempCounter, llvmVars>>

GenInitialiser ==
  /\ Lowers({"DIM"}) /\ operand[Declared] # NoValue /\ NodesDone
  /\ Emit(StoreInstr(operand[Declared], operands[1]))
  /\ NextStatement
  /\ UNCHANGED <<semaVars, stage, operand, function, tempCounter, llvmVars>>

GenAssign ==
  /\ Lowers({"ASSIGN"}) /\ NodesDone
  /\ Emit(StoreInstr(operands[1], operands[2]))
  /\ NextStatement
  /\ UNCHANGED <<semaVars, stage, operand, function, tempCounter, llvmVars>>

GenReturn ==
  /\ Lowers({"RETURN"}) /\ NodesDone
  /\ Emit(RetInstr(operands))
  /\ NextStatement
  /\ UNCHANGED <<semaVars, stage, operand, function, tempCounter, llvmVars>>

GenEvaluate ==
  /\ Lowers({"EXPR"}) /\ NodesDone
  /\ NextStatement
  /\ UNCHANGED <<semaVars, stage, operand, declarations, functions, globalInit, function, tempCounter, llvmVars>>

(* The nodes of an expression: a variable stands for itself, MOVE forwards   *)
(* its operand, the others emit an instruction with a numbered result.      *)
GenNode ==
  /\ Lowers({"DIM", "EXPR", "ASSIGN", "RETURN"}) /\ ~NodesDone
  /\ Node.kind = "DIM" => operand[Declared] # NoValue
  /\ LET e == Node.expr[at + 1]
         rest == SubSeq(operands, 1, Len(operands) - e.takes)
         args == SubSeq(operands, Len(operands) - e.takes + 1, Len(operands))
         tmp == Temporary(tempCounter, function, Len(Body(function)) + 1)
     IN CASE e.op = "var" ->
               /\ operands' = Append(operands, operand[SymbolUsed(Place, at + 1)])
               /\ UNCHANGED <<tempCounter, functions, declarations, globalInit>>
          [] e.op = "literal" ->
               /\ operands' = Append(operands, LiteralValue)
               /\ UNCHANGED <<tempCounter, functions, declarations, globalInit>>
          [] e.op = "MOVE" -> UNCHANGED <<operands, tempCounter, functions, declarations, globalInit>>
          [] OTHER ->
               /\ Emit(ExprInstr(e.op, tmp, args))
               /\ tempCounter' = tempCounter + 1
               /\ operands' = Append(rest, tmp)
  /\ at' = at + 1
  /\ UNCHANGED <<semaVars, stage, operand, lists, function, llvmVars>>

(* SUB and FUNCTION: the function joins the module before the functions of   *)
(* its body do, its parameters get their variables, its temporaries restart. *)
GenFunction ==
  /\ Lowers({"FUNC"})
  /\ LET params == [k \in DOMAIN Node.params |-> SymbolOf(<<List.list, List.at, 0, k>>)]
     IN /\ functions' = Append(functions,
                          [symbol |-> operand[Declared].symbol,
                           params |-> [k \in DOMAIN params |-> Variable(params[k])],
                           body |-> <<>>])
        /\ operand' = [s \in DOMAIN operand |->
                         IF \E k \in DOMAIN params : params[k] = s THEN Variable(s) ELSE Forward(Node.body)[s]]
  /\ lists' = Append(lists, [list |-> Node.body, at |-> 1, function |-> function, temps |-> tempCounter])
  /\ function' = Len(functions) + 1
  /\ tempCounter' = 0
  /\ UNCHANGED <<semaVars, stage, declarations, globalInit, at, operands, llvmVars>>

RestoredCounter(frame) == frame.temps

GenEndList ==
  /\ stage = "ir" /\ ListEnded
  /\ functions' = IF function = 0 THEN functions
                  ELSE [functions EXCEPT ![function].body = Terminated(@)]
  /\ function' = List.function
  /\ tempCounter' = RestoredCounter(List)
  /\ LET outer == SubSeq(lists, 1, Len(lists) - 1)
     IN /\ lists' = IF outer = <<>> THEN outer ELSE [outer EXCEPT ![Len(outer)].at = @ + 1]
        /\ stage' = IF outer = <<>> THEN "globals" ELSE stage
  /\ UNCHANGED <<semaVars, operand, declarations, globalInit, at, operands, llvmVars>>

-----------------------------------------------------------------------------
(* LLVM values, by where they are; the names LLVM gives them are left out.   *)

Constant == <<"constant">>
Global(g) == <<"global", g>>
LlvmFunction(f) == <<"function", f>>
Argument(f, k) == <<"argument", f, k>>
Result(f, i) == <<"result", f, i>>

Code(op, args) == [op |-> op, args |-> args]
NewFunction(s) == [symbol |-> <<s>>, code |-> <<>>]

(* The LLVM value of an IR value that no load is needed for.                *)
Lowered(v) ==
  IF v = LiteralValue THEN Constant ELSE IF v \in DOMAIN llvm THEN llvm[v] ELSE <<"null">>

IsRead(v) == v.is = "variable"
ReadsUpTo(args, k) == Cardinality({j \in 1 .. k : IsRead(args[j])})
Loads(args) ==
  [j \in 1 .. ReadsUpTo(args, Len(args)) |->
     Code("load", <<Lowered(args[CHOOSE k \in DOMAIN args : IsRead(args[k]) /\ ReadsUpTo(args, k) = j])>>)]
(* value() of each operand, given where the loads it made begin.            *)
ValuesUnread(args, f) == [k \in DOMAIN args |-> Lowered(args[k])]

Values(args, f) ==
  [k \in DOMAIN args |->
     IF IsRead(args[k]) THEN Result(f, Len(code[f].code) + ReadsUpTo(args, k)) ELSE Lowered(args[k])]

-----------------------------------------------------------------------------
(* Generator::generate.  lowered counts the parts and the instructions done. *)

LowerGlobal ==
  /\ stage = "globals" /\ lowered[1] < Len(declarations)
  /\ LET v == declarations[lowered[1] + 1]
     IN /\ globals' = Append(globals, v.symbol)
        /\ llvm' = llvm @@ (v :> Global(Len(globals) + 1))
  /\ lowered' = <<lowered[1] + 1, 0>>
  /\ UNCHANGED <<semaVars, stage, irVars, code>>

DeclareFunctions ==
  /\ stage = "globals" /\ lowered[1] = Len(declarations)
  /\ stage' = "functions" /\ lowered' = <<0, 0>>
  /\ UNCHANGED <<semaVars, irVars, llvm, globals, code>>

DeclareFunction ==
  /\ stage = "functions" /\ lowered[1] < Len(functions)
  /\ LET s == functions[lowered[1] + 1].symbol
     IN /\ code' = Append(code, NewFunction(s))
        /\ llvm' = llvm @@ (Function(s) :> LlvmFunction(Len(code) + 1))
  /\ lowered' = <<lowered[1] + 1, 0>>
  /\ UNCHANGED <<semaVars, stage, irVars, globals>>

LowerFunctions ==
  /\ stage = "functions" /\ lowered[1] = Len(functions)
  /\ stage' = "bodies" /\ lowered' = <<0, 0>>
  /\ UNCHANGED <<semaVars, irVars, llvm, globals, code>>

PartDone == IF lowered[1] = 0 THEN TRUE ELSE lowered[2] = Len(functions[lowered[1]].body)

(* A function's parameters: a slot each, and the argument stored in it.      *)
NoSlots(f, params) == <<>>
Slots(f, params) ==
  [v \in {params[k] : k \in DOMAIN params} |->
     Result(f, 2 * (CHOOSE k \in DOMAIN params : params[k] = v) - 1)]

BindParameters ==
  /\ stage = "bodies" /\ lowered[1] < Len(functions)
  /\ PartDone
  /\ LET f == lowered[1] + 1
         params == functions[f].params
     IN /\ code' = [code EXCEPT ![f].code =
                     [i \in 1 .. 2 * Len(params) |->
                        IF i % 2 = 1 THEN Code("alloca", <<>>)
                        ELSE Code("store", <<Argument(f, i \div 2), Result(f, i - 1)>>)]]
        /\ llvm' = Slots(f, params) @@ llvm
        /\ lowered' = <<f, 0>>
  /\ UNCHANGED <<semaVars, stage, irVars, globals>>

CreateMain ==
  /\ stage = "bodies" /\ lowered[1] = Len(functions)
  /\ PartDone
  /\ code' = Append(code, [symbol |-> <<>>, code |-> <<>>])
  /\ stage' = "main" /\ lowered' = <<0, 0>>
  /\ UNCHANGED <<semaVars, irVars, llvm, globals>>

Entry == CHOOSE f \in DOMAIN code : code[f].symbol = <<>>
Part == IF stage = "main" THEN Entry ELSE lowered[1]
Pending ==
  /\ stage \in {"bodies", "main"}
  /\ stage = "bodies" => lowered[1] # 0
  /\ lowered[2] < Len(Body(lowered[1]))
InstructionHere == Body(lowered[1])[lowered[2] + 1]

LowerVar ==
  /\ Pending /\ InstructionHere.op = "var"
  /\ code' = [code EXCEPT ![Part].code = Append(@, Code("alloca", <<>>))]
  /\ llvm' = llvm @@ (InstructionHere.result :> Result(Part, Len(code[Part].code) + 1))
  /\ lowered' = [lowered EXCEPT ![2] = @ + 1]
  /\ UNCHANGED <<semaVars, stage, irVars, globals>>

LowerStore ==
  /\ Pending /\ InstructionHere.op = "store"
  /\ LET src == <<InstructionHere.args[1]>>
         dest == InstructionHere.args[2]
     IN code' = [code EXCEPT ![Part].code =
                   @ \o Append(Loads(src), Code("store", Append(Values(src, Part), Lowered(dest))))]
  /\ lowered' = [lowered EXCEPT ![2] = @ + 1]
  /\ UNCHANGED <<semaVars, stage, irVars, llvm, globals>>

(* The address of a named value: no instruction, its storage is the value.   *)
LowerAddrOf ==
  /\ Pending /\ InstructionHere.op = "@"
  /\ llvm' = llvm @@ (InstructionHere.result :> Lowered(InstructionHere.args[1]))
  /\ lowered' = [lowered EXCEPT ![2] = @ + 1]
  /\ UNCHANGED <<semaVars, stage, irVars, globals, code>>

(* A call, whose callee is declared in the LLVM module if nothing yet was.   *)
LowerCall ==
  /\ Pending /\ InstructionHere.op = "call"
  /\ LET callee == InstructionHere.args[1]
         args == SubSeq(InstructionHere.args, 2, Len(InstructionHere.args))
         known == callee \in DOMAIN llvm
         there == IF known THEN code ELSE Append(code, NewFunction(callee.symbol))
         f == IF known THEN llvm[callee] ELSE LlvmFunction(Len(code) + 1)
     IN /\ code' = [there EXCEPT ![Part].code =
                      @ \o Append(Loads(args), Code("call", <<f>> \o Values(args, Part)))]
        /\ llvm' = llvm @@ (callee :> f)
                        @@ (InstructionHere.result :> Result(Part, Len(code[Part].code) + Len(Loads(args)) + 1))
  /\ lowered' = [lowered EXCEPT ![2] = @ + 1]
  /\ UNCHANGED <<semaVars, stage, irVars, globals>>

(* A function that falls through returns zero if it returns a value.        *)
LowerRet ==
  /\ Pending /\ InstructionHere.op = "ret"
  /\ LET args == InstructionHere.args
         falls == args = <<>> /\ DeclOf(prog, symbols[functions[lowered[1]].symbol].decl).returns
     IN code' = [code EXCEPT ![Part].code =
                   @ \o Append(Loads(args), Code("ret", IF falls THEN <<Constant>> ELSE Values(args, Part)))]
  /\ lowered' = [lowered EXCEPT ![2] = @ + 1]
  /\ UNCHANGED <<semaVars, stage, irVars, llvm, globals>>

(* The others: load through a pointer, casts, unary and binary operators.    *)
LowerOperator ==
  /\ Pending /\ InstructionHere.op \notin {"var", "store", "@", "call", "ret"}
  /\ LET args == InstructionHere.args
     IN /\ code' = [code EXCEPT ![Part].code =
                      @ \o Append(Loads(args), Code(InstructionHere.op, Values(args, Part)))]
        /\ llvm' = llvm @@ (InstructionHere.result :> Result(Part, Len(code[Part].code) + Len(Loads(args)) + 1))
  /\ lowered' = [lowered EXCEPT ![2] = @ + 1]
  /\ UNCHANGED <<semaVars, stage, irVars, globals>>

EndMain ==
  /\ stage = "main" /\ lowered[2] = Len(globalInit)
  /\ code' = [code EXCEPT ![Entry].code = Append(@, Code("ret", <<Constant>>))]
  /\ stage' = "done"
  /\ UNCHANGED <<semaVars, irVars, llvm, globals, lowered>>

-----------------------------------------------------------------------------

CompileInit ==
  /\ Init
  /\ stage = "sema" /\ operand = <<>>
  /\ declarations = <<>> /\ functions = <<>> /\ globalInit = <<>>
  /\ lists = <<>> /\ at = 0 /\ operands = <<>>
  /\ function = 0 /\ tempCounter = 0
  /\ llvm = <<>> /\ globals = <<>> /\ code = <<>> /\ lowered = <<0, 0>>

Generate ==
  \/ GenerateIR \/ GenDeclare \/ GenExtern \/ GenVariable \/ GenInitialiser \/ GenAssign
  \/ GenReturn \/ GenEvaluate \/ GenNode \/ GenFunction \/ GenEndList
  \/ LowerGlobal \/ DeclareFunctions \/ DeclareFunction \/ LowerFunctions \/ BindParameters
  \/ CreateMain \/ LowerVar \/ LowerStore \/ LowerAddrOf \/ LowerCall \/ LowerRet
  \/ LowerOperator \/ EndMain

Finished == Analysed /\ (error # "none" \/ stage = "done") /\ UNCHANGED vars

CompileNext == (SemaNext /\ UNCHANGED <<stage, irVars, llvmVars>>) \/ Generate \/ Finished
CompileSpec == CompileInit /\ [][CompileNext]_vars
=============================================================================
