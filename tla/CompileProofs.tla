---------------------------- MODULE CompileProofs ----------------------------
(***************************************************************************)
(* Proofs about the two walks of Lowering, for any program: every block      *)
(* ends in its only terminator.  They rest on what ScopesProofs shows of the *)
(* programs the analyser accepts.                                           *)
(***************************************************************************)
EXTENDS ScopesProofs, Compile, FiniteSetTheorems

-----------------------------------------------------------------------------
(* Which blocks end once: the invariant of both walks of Lowering.            *)

IsSeq(s) == s \in Seq({s[i] : i \in DOMAIN s})
NoRet(body) == \A i \in DOMAIN body : body[i].op # "ret"
EndsOnce(body) == body # <<>> /\ \A i \in DOMAIN body : body[i].op = "ret" <=> i = Len(body)

(* Nothing that is lowered follows a RETURN of the list.                     *)
Trailing(l) ==
  \A j, k \in DOMAIN prog[l] :
    prog[l][j].kind = "RETURN" /\ k > j => prog[l][k].kind \in {"DECLARE", "FUNC", "EXTERN"}
Wholly(l, body) == Trailing(l) => EndsOnce(body)
Partly(l, body, i) ==
  Trailing(l) =>
    \A j \in DOMAIN body :
      body[j].op = "ret" => j = Len(body) /\ \E r \in DOMAIN prog[l] : r < i /\ prog[l][r].kind = "RETURN"
Copied(l, body, copy, n) ==
  Trailing(l) => IF n = Len(body) THEN EndsOnce(copy) ELSE NoRet(copy)

(* The IR's functions, and the lists their bodies are of.                   *)
IsBody(body) == IsSeq(body) /\ \A i \in DOMAIN body : IsSeq(body[i].args)
IsFunction(fn) ==
  /\ fn = [symbol |-> fn.symbol, params |-> fn.params, body |-> fn.body]
  /\ IsSeq(fn.params) /\ IsBody(fn.body)
  /\ fn.symbol \in DOMAIN symbols
  /\ \E l \in DOMAIN prog : \E i \in DOMAIN prog[l] :
       prog[l][i].kind = "FUNC" /\ symbols[fn.symbol].decl = Key(l, i)
ListOf(fn) == prog[symbols[fn.symbol].decl[1]][symbols[fn.symbol].decl[2]].body
FunctionsMade ==
  /\ IsSeq(functions) /\ \A f \in DOMAIN functions : IsFunction(functions[f])
  /\ IsBody(globalInit) /\ NoRet(globalInit)

(* The lists being lowered: each but the module's fills a function of its own. *)
FunctionOf(k) == IF k = Len(lists) THEN function ELSE lists[k + 1].function
FrameFills(k) ==
  IF k = 1 THEN lists[k].list = 1 /\ FunctionOf(k) = 0
  ELSE /\ FunctionOf(k) \in DOMAIN functions
       /\ ListOf(functions[FunctionOf(k)]) = lists[k].list
       /\ Partly(lists[k].list, functions[FunctionOf(k)].body, lists[k].at)
StackTyped ==
  /\ lists \in Seq([list : DOMAIN prog, at : Nat \ {0}, function : Nat, temps : Nat])
  /\ function \in Nat /\ tempCounter \in Nat /\ at \in Nat /\ IsSeq(operands)
StackFills ==
  /\ \A k \in DOMAIN lists : FrameFills(k)
  /\ \A j, k \in DOMAIN lists : FunctionOf(j) = FunctionOf(k) => j = k
  /\ \A f \in DOMAIN functions :
       (\A k \in DOMAIN lists : FunctionOf(k) # f) => Wholly(ListOf(functions[f]), functions[f].body)

(* How far the statement at hand is; and the functions a list declares have    *)
(* their objects while it is lowered.                                       *)
AtFits == IF ListEnded THEN at = 0 ELSE at \in 0 .. Len(Node.expr)
ObjectsMade ==
  /\ operand = [s \in DOMAIN symbols |-> operand[s]]
  /\ \A k \in DOMAIN lists : \A i \in DOMAIN prog[lists[k].list] : \A s \in DOMAIN symbols :
       symbols[s].decl = Key(lists[k].list, i) /\ IsFuncDecl(prog[lists[k].list][i]) =>
         operand[s] = Function(s)

WalkInv ==
  /\ StackTyped /\ StackFills /\ FunctionsMade
  /\ IF stage = "ir" THEN lists # <<>> /\ AtFits /\ ObjectsMade ELSE lists = <<>>
  /\ stage = "sema" => functions = <<>> /\ globalInit = <<>> /\ function = 0 /\ at = 0

(* The LLVM functions: those of the IR first, then those that were only        *)
(* declared, and the program's main.                                        *)
IsHead(head) == head = [symbol |-> head.symbol, code |-> head.code] /\ IsSeq(head.code)
HeadsMade ==
  /\ IsSeq(code) /\ lowered \in Nat \X Nat
  /\ \A f \in DOMAIN code :
       /\ IsHead(code[f])
       /\ IF f \in DOMAIN functions THEN code[f].symbol = <<functions[f].symbol>>
          ELSE code[f].symbol = <<>> \/ code[f].code = <<>>
Converted(f) == Wholly(ListOf(functions[f]), code[f].code)
Converting(f, n) ==
  n <= Len(functions[f].body) /\ Copied(ListOf(functions[f]), functions[f].body, code[f].code, n)
NoEntry == \A f \in DOMAIN code : code[f].symbol # <<>>
OneEntry ==
  \E e \in DOMAIN code \ DOMAIN functions : \A f \in DOMAIN code : code[f].symbol = <<>> <=> f = e

CodeInv ==
  /\ HeadsMade
  /\ stage \in {"sema", "ir", "globals"} => code = <<>>
  /\ stage = "functions" => Len(code) = lowered[1] /\ lowered[1] <= Len(functions)
  /\ stage = "bodies" =>
       /\ DOMAIN functions \subseteq DOMAIN code /\ NoEntry /\ lowered[1] <= Len(functions)
       /\ \A f \in DOMAIN functions :
            /\ f < lowered[1] => Converted(f)
            /\ f = lowered[1] => Converting(f, lowered[2])
  /\ stage \in {"main", "done"} =>
       DOMAIN functions \subseteq DOMAIN code /\ OneEntry /\ \A f \in DOMAIN functions : Converted(f)
  /\ stage = "main" => lowered[1] = 0 /\ NoRet(code[Entry].code)
  /\ stage = "done" => EndsOnce(code[Entry].code)

TerminatorInv ==
  /\ stage \in {"sema", "ir", "globals", "functions", "bodies", "main", "done"}
  /\ stage # "sema" => Analysed /\ error = "none"
  /\ WalkInv
  /\ CodeInv

-----------------------------------------------------------------------------
(* Sequences of anything.                                                   *)

(* A sequence over any set is one over its own values.                       *)
LEMMA SeqIsSeq ==
  ASSUME NEW S, NEW s \in Seq(S)
  PROVE  IsSeq(s)
<1>1. s = [i \in 1 .. Len(s) |-> s[i]] /\ Len(s) \in Nat /\ DOMAIN s = 1 .. Len(s)
  OBVIOUS
<1>2. QED
  BY <1>1 DEF IsSeq

(* What a sequence is.                                                      *)
LEMMA SeqFacts ==
  ASSUME NEW s, IsSeq(s)
  PROVE  Len(s) \in Nat /\ DOMAIN s = 1 .. Len(s)
BY DEF IsSeq

(* A function on 1 .. n is a sequence.                                      *)
LEMMA FunctionIsSeq ==
  ASSUME NEW s, NEW n \in Nat, DOMAIN s = 1 .. n, s = [i \in 1 .. n |-> s[i]]
  PROVE  IsSeq(s) /\ Len(s) = n
BY DEF IsSeq

(* Two sequences, one after the other.                                      *)
LEMMA JoinedSeq ==
  ASSUME NEW s, IsSeq(s), NEW t, IsSeq(t)
  PROVE  /\ IsSeq(s \o t) /\ Len(s \o t) = Len(s) + Len(t)
         /\ \A i \in DOMAIN s : (s \o t)[i] = s[i]
         /\ \A i \in DOMAIN t : (s \o t)[Len(s) + i] = t[i]
         /\ \A i \in DOMAIN (s \o t) :
              i \in DOMAIN s \/ (i - Len(s) \in DOMAIN t /\ (s \o t)[i] = t[i - Len(s)])
<1> DEFINE S == {s[i] : i \in DOMAIN s} \cup {t[i] : i \in DOMAIN t}
<1>1. s \in Seq(S) /\ t \in Seq(S)
  BY DEF IsSeq
<1>2. s \o t \in Seq(S)
  BY <1>1
<1> HIDE DEF S
<1>3. IsSeq(s \o t)
  BY <1>2, SeqIsSeq
<1>4. QED
  BY <1>1, <1>3

(* One value more.                                                          *)
LEMMA AppendedSeq ==
  ASSUME NEW s, IsSeq(s), NEW x
  PROVE  /\ IsSeq(Append(s, x)) /\ Len(Append(s, x)) = Len(s) + 1
         /\ Append(s, x)[Len(s) + 1] = x /\ \A i \in DOMAIN s : Append(s, x)[i] = s[i]
         /\ DOMAIN Append(s, x) = DOMAIN s \cup {Len(s) + 1} /\ Len(s) + 1 \notin DOMAIN s
<1> DEFINE S == {s[i] : i \in DOMAIN s} \cup {x}
<1>1. s \in Seq(S) /\ x \in S
  BY DEF IsSeq
<1> HIDE DEF S
<1>2. Append(s, x) \in Seq(S)
  BY <1>1
<1>3. IsSeq(Append(s, x))
  BY <1>2, SeqIsSeq
<1>4. QED
  BY <1>1, <1>3

(* Part of a sequence, wherever its ends are.                               *)
LEMMA PartIsSeq ==
  ASSUME NEW s, NEW m \in Int, NEW n \in Int
  PROVE  IsSeq(SubSeq(s, m, n))
<1> DEFINE S == {s[i] : i \in m .. n}
<1>1. \A i \in m .. n : s[i] \in S
  OBVIOUS
<1> HIDE DEF S
<1>2. SubSeq(s, m, n) \in Seq(S)
  BY <1>1, SubSeqProperties
<1>3. QED
  BY <1>2, SeqIsSeq

(* Instructions behind others: what they are and whether they end the block.  *)
LEMMA AppendedBody ==
  ASSUME NEW s, IsSeq(s), NEW instr
  PROVE  /\ NoRet(s) /\ instr.op # "ret" => NoRet(Append(s, instr))
         /\ NoRet(s) /\ instr.op = "ret" => EndsOnce(Append(s, instr))
<1>1. /\ \A i \in DOMAIN Append(s, instr) : i \in DOMAIN s \/ i = Len(s) + 1
      /\ Append(s, instr)[Len(s) + 1] = instr /\ \A i \in DOMAIN s : Append(s, instr)[i] = s[i]
      /\ Len(Append(s, instr)) = Len(s) + 1 /\ Len(s) + 1 \notin DOMAIN s
      /\ Len(s) + 1 \in DOMAIN Append(s, instr)
  BY AppendedSeq
<1>2. ASSUME NoRet(s), instr.op # "ret" PROVE NoRet(Append(s, instr))
  BY <1>1, <1>2 DEF NoRet
<1>3. ASSUME NoRet(s), instr.op = "ret" PROVE EndsOnce(Append(s, instr))
  <2>1. Append(s, instr) # <<>>
    BY <1>1
  <2>2. \A i \in DOMAIN Append(s, instr) : Append(s, instr)[i].op = "ret" <=> i = Len(s) + 1
    BY <1>1, <1>3 DEF NoRet
  <2>3. QED
    BY <1>1, <2>1, <2>2 DEF EndsOnce
<1>4. QED
  BY <1>2, <1>3

(* The same for several.                                                    *)
LEMMA JoinedBody ==
  ASSUME NEW s, IsSeq(s), NEW t, IsSeq(t), NoRet(s)
  PROVE  /\ NoRet(t) => NoRet(s \o t)
         /\ EndsOnce(t) => EndsOnce(s \o t)
<1>1. /\ IsSeq(s \o t) /\ Len(s \o t) = Len(s) + Len(t)
      /\ \A i \in DOMAIN s : (s \o t)[i] = s[i]
      /\ \A i \in DOMAIN t : (s \o t)[Len(s) + i] = t[i]
      /\ \A i \in DOMAIN (s \o t) :
           i \in DOMAIN s \/ (i - Len(s) \in DOMAIN t /\ (s \o t)[i] = t[i - Len(s)])
  BY JoinedSeq
<1>2. ASSUME NoRet(t) PROVE NoRet(s \o t)
  BY <1>1, <1>2 DEF NoRet
<1>3. ASSUME EndsOnce(t) PROVE EndsOnce(s \o t)
  <2>1. /\ Len(s) \in Nat /\ DOMAIN s = 1 .. Len(s) /\ Len(t) \in Nat /\ DOMAIN t = 1 .. Len(t)
        /\ DOMAIN (s \o t) = 1 .. Len(s) + Len(t)
    BY <1>1, SeqFacts
  <2>2. Len(t) # 0
    BY <1>3, <2>1 DEF EndsOnce, IsSeq
  <2>3. s \o t # <<>>
    BY <2>1, <2>2
  <2>4. ASSUME NEW i \in DOMAIN (s \o t) PROVE (s \o t)[i].op = "ret" <=> i = Len(s) + Len(t)
    <3>1. CASE i \in DOMAIN s
      BY <1>1, <2>1, <2>2, <3>1 DEF NoRet
    <3>2. CASE i - Len(s) \in DOMAIN t /\ (s \o t)[i] = t[i - Len(s)]
      <4>1. t[i - Len(s)].op = "ret" <=> i - Len(s) = Len(t)
        BY <1>3, <3>2 DEF EndsOnce
      <4>2. i \in Nat
        BY <2>1
      <4>3. QED
        BY <2>1, <3>2, <4>1, <4>2
    <3>3. QED
      BY <1>1, <3>1, <3>2
  <2>5. QED
    BY <1>1, <2>3, <2>4 DEF EndsOnce
<1>4. QED
  BY <1>2, <1>3

(* The loads before an instruction, and the instruction.                     *)
LEMMA LoadsBody ==
  ASSUME NEW args, IsSeq(args)
  PROVE  IsSeq(Loads(args)) /\ NoRet(Loads(args))
<1> DEFINE n == ReadsUpTo(args, Len(args))
<1>1. n \in Nat
  <2>1. Len(args) \in Nat
    BY SeqFacts
  <2>2. IsFiniteSet(1 .. Len(args))
    BY <2>1, FS_Interval
  <2>3. {j \in 1 .. Len(args) : IsRead(args[j])} \subseteq 1 .. Len(args)
    OBVIOUS
  <2>4. IsFiniteSet({j \in 1 .. Len(args) : IsRead(args[j])})
    BY <2>2, <2>3, FS_Subset
  <2>5. QED
    BY <2>4, FS_CardinalityType DEF ReadsUpTo
<1>2. DOMAIN Loads(args) = 1 .. n /\ Loads(args) = [j \in 1 .. n |-> Loads(args)[j]]
  BY DEF Loads
<1>3. \A j \in 1 .. n : Loads(args)[j].op = "load"
  BY DEF Loads, Code
<1> HIDE DEF n
<1>4. QED
  BY <1>1, <1>2, <1>3, FunctionIsSeq DEF NoRet

(* The instruction ends the block only if it is a return.                     *)
LEMMA InstructionBody ==
  ASSUME NEW args, IsSeq(args), NEW op, NEW values
  PROVE  /\ IsSeq(Append(Loads(args), Code(op, values)))
         /\ op # "ret" => NoRet(Append(Loads(args), Code(op, values)))
         /\ op = "ret" => EndsOnce(Append(Loads(args), Code(op, values)))
<1>1. IsSeq(Loads(args)) /\ NoRet(Loads(args))
  BY LoadsBody
<1>2. Code(op, values).op = op
  BY DEF Code
<1>3. QED
  BY <1>1, <1>2, AppendedSeq, AppendedBody

-----------------------------------------------------------------------------
(* The analysis is over, and its program accepted, when the walks begin.      *)

SemaOver == Analysed /\ error = "none"

(* Nothing of the analysis happens any more.                                *)
LEMMA SemaIsOver == SemaOver => ~SemaNext
BY DEF SemaOver, Analysed, SemaNext, Analyse, DeclareNext, DefineNext, VisitDeclare, BeginDim, EndDim,
       RefuseReturn, EndStatement, VisitNode, VisitFunction, BeginExtern, DeclareExtern, EndLinkage,
       DefineExtern, EndExtern, EndList, Unwind, Going, Visiting

SemaHolds == ScopesInv /\ ResolutionInv /\ AcceptanceInv

(* The places of an accepted program fit, and its declarations have symbols.  *)
LEMMA OverFits ==
  ASSUME SemaHolds, SemaOver, NEW l \in DOMAIN prog
  PROVE  /\ listTable[l] # 0
         /\ \A i \in DOMAIN prog[l] : PlaceFits(prog, l, i) /\ HasSymbols(l, i)
<1>1. PICK done \in SUBSET DOMAIN prog : Left(done)
  BY DEF SemaHolds, SemaOver, AcceptanceInv, Accepting, PlacesPassed
<1>2. done = DOMAIN prog
  BY <1>1, AllLeft DEF Left, SemaHolds, SemaOver, Analysed, ScopesInv, Typed
<1>3. QED
  BY <1>1, <1>2 DEF Left, Passed

(* What the rules of the analysis say of a place of an accepted program.        *)
LEMMA OverFacts ==
  ASSUME SemaHolds, SemaOver, NEW l \in DOMAIN prog, NEW i \in DOMAIN prog[l]
  PROVE  /\ prog[l][i].kind = "RETURN" => l # 1
         /\ IsDecl(prog[l][i]) =>
              SymbolOf(Key(l, i)) \in DOMAIN symbols /\ symbols[SymbolOf(Key(l, i))].decl = Key(l, i)
         /\ prog[l][i].kind = "FUNC" =>
              \A k \in DOMAIN prog[l][i].params :
                /\ SymbolOf(<<l, i, 0, k>>) \in DOMAIN symbols
                /\ symbols[SymbolOf(<<l, i, 0, k>>)].decl = <<l, i, 0, k>>
<1>1. PlaceFits(prog, l, i) /\ HasSymbols(l, i)
  BY OverFits
<1>2. prog[l][i].kind = "RETURN" => l # 1
  BY <1>1 DEF PlaceFits, ReturnFits
<1>3. IsDecl(prog[l][i]) =>
        SymbolOf(Key(l, i)) \in DOMAIN symbols /\ symbols[SymbolOf(Key(l, i))].decl = Key(l, i)
  BY <1>1, SymbolOfIs DEF HasSymbols
<1>4. ASSUME prog[l][i].kind = "FUNC", NEW k \in DOMAIN prog[l][i].params
      PROVE  SymbolsOf(<<l, i, 0, k>>) # {}
  <2> DEFINE b == prog[l][i].body
  <2>1. b \in DOMAIN prog /\ Parameters(prog, b) = {<<l, i, 0, j>> : j \in DOMAIN prog[l][i].params}
    BY <1>4, BodyFacts, HomeIs DEF SemaHolds, ScopesInv, Typed
  <2>2. listTable[b] # 0
    BY <2>1, OverFits
  <2>3. ParametersMade(b)
    BY <2>1, <2>2 DEF SemaHolds, SemaOver, ResolutionInv, Searched, TablesHold
  <2>4. QED
    BY <1>4, <2>1, <2>3 DEF ParametersMade
<1>5. QED
  BY <1>2, <1>3, <1>4, SymbolOfIs

(* A symbol that is a function of the module is one of those declared there.   *)
LEMMA ModuleObjects ==
  ASSUME SemaHolds, SemaOver, NEW s \in DOMAIN symbols, NEW i \in DOMAIN prog[1],
         symbols[s].decl = Key(1, i), IsFuncDecl(prog[1][i])
  PROVE  symbols[s].role = "function" /\ symbols[s].decl[1] = 1 /\ symbols[s].decl[3] = 0
<1>1. symbols[s].role = RoleOf(prog, symbols[s].decl)
  BY DEF SemaHolds, SemaOver, AcceptanceInv, Accepting, SymbolsTold, SymbolTold
<1>2. /\ symbols[s].decl[1] = 1 /\ symbols[s].decl[2] = i
      /\ symbols[s].decl[3] = 0 /\ symbols[s].decl[4] = 0
  BY DEF Key
<1>3. QED
  BY <1>1, <1>2 DEF RoleOf, DeclOf

(* What the statements of the program are.                                   *)
LEMMA ProgramFacts ==
  ASSUME SemaHolds, NEW l \in DOMAIN prog
  PROVE  /\ DOMAIN prog = 1 .. Len(prog) /\ Len(prog) \in Nat \ {0}
         /\ DOMAIN prog[l] = 1 .. Len(prog[l]) /\ Len(prog[l]) \in Nat
         /\ \A i \in DOMAIN prog[l] :
              /\ prog[l][i] \in Statements /\ prog[l][i].expr \in Exprs
              /\ Len(prog[l][i].expr) \in Nat /\ DOMAIN prog[l][i].expr = 1 .. Len(prog[l][i].expr)
              /\ prog[l][i].kind \in {"DECLARE", "FUNC", "EXTERN"} => Len(prog[l][i].expr) = 0
              /\ prog[l][i].kind \in {"DIM", "DECLARE", "FUNC", "RETURN", "EXPR", "ASSIGN", "EXTERN"}
<1>1. IsProgram(prog)
  BY DEF SemaHolds, ScopesInv, Typed
<1>2. \A i \in DOMAIN prog[l] : prog[l][i] \in Statements
  BY <1>1, StatementFacts
<1>3. ASSUME NEW i \in DOMAIN prog[l]
      PROVE  prog[l][i].kind \in {"DECLARE", "FUNC", "EXTERN"} => Len(prog[l][i].expr) = 0
  <2>1. Len(prog[l][i].expr) \in Nat /\ DOMAIN prog[l][i].expr = 1 .. Len(prog[l][i].expr)
    BY <1>2, ExpressionFacts
  <2>2. prog[l][i].kind \in {"DECLARE", "FUNC", "EXTERN"} => DOMAIN prog[l][i].expr = {}
    BY <1>2, ExpressionFacts
  <2> DEFINE n == Len(prog[l][i].expr)
  <2>3. n \in Nat /\ (prog[l][i].kind \in {"DECLARE", "FUNC", "EXTERN"} => 1 .. n = {})
    BY <2>1, <2>2
  <2> HIDE DEF n
  <2>4. QED
    BY <2>3 DEF n
<1>4. ASSUME NEW i \in DOMAIN prog[l]
      PROVE  /\ prog[l][i].expr \in Exprs
             /\ Len(prog[l][i].expr) \in Nat /\ DOMAIN prog[l][i].expr = 1 .. Len(prog[l][i].expr)
             /\ prog[l][i].kind \in {"DIM", "DECLARE", "FUNC", "RETURN", "EXPR", "ASSIGN", "EXTERN"}
  BY <1>2, ExpressionFacts
<1>5. /\ DOMAIN prog = 1 .. Len(prog) /\ Len(prog) \in Nat \ {0}
      /\ DOMAIN prog[l] = 1 .. Len(prog[l]) /\ Len(prog[l]) \in Nat
  BY <1>1, StatementFacts
<1>6. QED
  BY <1>2, <1>3, <1>4, <1>5

-----------------------------------------------------------------------------
(* The walk of the tree.                                                    *)

Compiling == SemaHolds /\ WalkInv /\ stage = "ir" /\ SemaOver

(* The statement at hand.                                                   *)
LEMMA TopFacts ==
  ASSUME Compiling
  PROVE  /\ Len(lists) \in Nat \ {0} /\ DOMAIN lists = 1 .. Len(lists) /\ Len(lists) \in DOMAIN lists
         /\ \A k \in DOMAIN lists :
              lists[k].list \in DOMAIN prog /\ lists[k].at \in Nat \ {0}
                /\ lists[k].function \in Nat /\ lists[k].temps \in Nat
         /\ List = lists[Len(lists)] /\ List.list \in DOMAIN prog /\ List.at \in Nat \ {0}
         /\ ~ListEnded => List.at \in DOMAIN prog[List.list] /\ Node \in Statements
<1>1. lists \in Seq([list : DOMAIN prog, at : Nat \ {0}, function : Nat, temps : Nat]) /\ lists # <<>>
  BY DEF Compiling, WalkInv, StackTyped
<1>2. Len(lists) \in Nat \ {0} /\ DOMAIN lists = 1 .. Len(lists) /\ Len(lists) \in DOMAIN lists
  BY <1>1
<1>3. \A k \in DOMAIN lists :
        lists[k].list \in DOMAIN prog /\ lists[k].at \in Nat \ {0}
          /\ lists[k].function \in Nat /\ lists[k].temps \in Nat
  <2> DEFINE S == [list : DOMAIN prog, at : Nat \ {0}, function : Nat, temps : Nat]
  <2>1. lists \in Seq(S)
    BY <1>1
  <2> HIDE DEF S
  <2>2. \A k \in DOMAIN lists : lists[k] \in S
    BY <2>1
  <2>3. QED
    BY <2>2 DEF S
<1>4. List = lists[Len(lists)] /\ List.list \in DOMAIN prog /\ List.at \in Nat \ {0}
  BY <1>2, <1>3 DEF List
<1>5. ASSUME ~ListEnded PROVE List.at \in DOMAIN prog[List.list] /\ Node \in Statements
  <2>1. /\ DOMAIN prog[List.list] = 1 .. Len(prog[List.list]) /\ Len(prog[List.list]) \in Nat
        /\ \A i \in DOMAIN prog[List.list] : prog[List.list][i] \in Statements
    BY <1>4, ProgramFacts DEF Compiling
  <2>2. List.at \in DOMAIN prog[List.list]
    BY <1>4, <1>5, <2>1 DEF ListEnded
  <2>3. QED
    BY <2>1, <2>2 DEF Node
<1>6. QED
  BY <1>2, <1>3, <1>4, <1>5

(* Its expression, and the nodes left to visit.                              *)
LEMMA TopNode ==
  ASSUME Compiling, ~ListEnded
  PROVE  /\ Len(Node.expr) \in Nat /\ at \in 0 .. Len(Node.expr)
         /\ Node.kind \in {"DECLARE", "FUNC", "EXTERN"} => Len(Node.expr) = 0
         /\ ~NodesDone => /\ at + 1 \in 1 .. Len(Node.expr)
                          /\ Node.expr[at + 1].op # "ret" /\ Node.expr[at + 1].takes \in Nat
<1>1. List.list \in DOMAIN prog /\ List.at \in DOMAIN prog[List.list]
  BY TopFacts
<1>2. Compiling => SemaHolds
  BY DEF Compiling
<1>3. /\ Node.expr \in Exprs /\ Len(Node.expr) \in Nat /\ DOMAIN Node.expr = 1 .. Len(Node.expr)
      /\ Node.kind \in {"DECLARE", "FUNC", "EXTERN"} => Len(Node.expr) = 0
  BY <1>1, <1>2, ProgramFacts DEF Node
<1>4. at \in 0 .. Len(Node.expr)
  BY DEF Compiling, WalkInv, AtFits
<1>5. ASSUME ~NodesDone
      PROVE  /\ at + 1 \in 1 .. Len(Node.expr)
             /\ Node.expr[at + 1].op # "ret" /\ Node.expr[at + 1].takes \in Nat
  <2>1. at + 1 \in 1 .. Len(Node.expr)
    BY <1>3, <1>4, <1>5 DEF NodesDone
  <2> DEFINE e == Node.expr[at + 1]
  <2>2. e \in [op : Operations, takes : Nat] \cup [op : Operations, takes : Nat, name : STRING]
    BY <1>3, <2>1 DEF Exprs
  <2>3. e.op # "ret" /\ e.takes \in Nat
    <3> HIDE DEF e
    <3>1. QED
      BY <2>2 DEF Operations
  <2>4. QED
    BY <2>1, <2>3
<1>6. QED
  BY <1>3, <1>4, <1>5

(* What a step does that stays in its list: it may go on to the next statement, *)
(* it may emit an instruction, and it takes no function its object.           *)
StaysAt == UNCHANGED lists /\ at' \in 0 .. Len(Node.expr) /\ IsSeq(operands')
Emitting ==
  \E instr :
    /\ Node.kind \in {"DIM", "ASSIGN", "RETURN", "EXPR"}
    /\ IsSeq(instr.args) /\ Emit(instr)
    /\ instr.op = "ret" => Node.kind = "RETURN" /\ NextStatement
ObjectsKept ==
  /\ operand' = [s \in DOMAIN symbols |-> operand'[s]]
  /\ \A s \in DOMAIN symbols : \A l \in DOMAIN prog : \A i \in DOMAIN prog[l] :
       symbols[s].decl = Key(l, i) /\ IsFuncDecl(prog[l][i]) /\ operand[s] = Function(s) =>
         operand'[s] = Function(s)
WalkStep ==
  /\ ~ListEnded /\ UNCHANGED <<semaVars, stage, function>> /\ tempCounter' \in Nat
  /\ NextStatement \/ StaysAt
  /\ UNCHANGED <<functions, globalInit>> \/ Emitting
  /\ ObjectsKept

(* Nothing takes an object from a function when no object changes.             *)
LEMMA SameObjects ==
  ASSUME WalkInv, stage = "ir", UNCHANGED operand
  PROVE  ObjectsKept
BY DEF ObjectsKept, WalkInv, ObjectsMade

(* The statements that emit nothing.                                         *)
LEMMA QuietSteps ==
  ASSUME Compiling, GenDeclare \/ GenEvaluate \/ GenExtern
  PROVE  WalkStep
<1>1. tempCounter \in Nat /\ WalkInv /\ stage = "ir"
  BY DEF Compiling, WalkInv, StackTyped
<1>2. CASE GenDeclare \/ GenEvaluate
  <2>1. UNCHANGED operand
    BY <1>2 DEF GenDeclare, GenEvaluate
  <2>2. ObjectsKept
    BY <1>1, <2>1, SameObjects
  <2>3. QED
    BY <1>1, <1>2, <2>2 DEF GenDeclare, GenEvaluate, WalkStep, Lowers
<1>3. CASE GenExtern
  <2>1. operand = [s \in DOMAIN symbols |-> operand[s]]
    BY <1>1 DEF WalkInv, ObjectsMade
  <2>2. operand' = [s \in DOMAIN operand |->
                     IF \E k \in DOMAIN Node.decls : symbols[s].decl = <<List.list, List.at, k, 0>>
                     THEN Function(s) ELSE operand[s]]
    BY <1>3 DEF GenExtern
  <2>3. ObjectsKept
    BY <2>1, <2>2 DEF ObjectsKept
  <2>4. QED
    BY <1>1, <1>3, <2>3 DEF GenExtern, WalkStep, Lowers
<1>4. QED
  BY <1>2, <1>3

(* A store and a return.                                                    *)
LEMMA StoreSteps ==
  ASSUME Compiling, GenInitialiser \/ GenAssign \/ GenReturn
  PROVE  WalkStep
<1>1. tempCounter \in Nat /\ WalkInv /\ stage = "ir" /\ IsSeq(operands)
  BY DEF Compiling, WalkInv, StackTyped
<1>2. ObjectsKept
  BY <1>1, SameObjects DEF GenInitialiser, GenAssign, GenReturn
<1>3. \A a, b : IsSeq(StoreInstr(a, b).args) /\ StoreInstr(a, b).op # "ret"
  <2> TAKE a, b
  <2>1. StoreInstr(a, b).args = <<b, a>> /\ StoreInstr(a, b).op = "store"
    BY DEF StoreInstr, Instruction
  <2>2. <<b, a>> \in Seq({a, b})
    OBVIOUS
  <2>3. QED
    BY <2>1, <2>2, SeqIsSeq
<1>4. RetInstr(operands).args = operands
  BY DEF RetInstr, Instruction
<1>5. Emitting
  <2>1. CASE GenInitialiser
    <3>1. Node.kind = "DIM" /\ Emit(StoreInstr(operand[Declared], operands[1]))
      BY <2>1 DEF GenInitialiser, Lowers, Node
    <3>2. QED
      BY <1>3, <3>1 DEF Emitting
  <2>2. CASE GenAssign
    <3>1. Node.kind = "ASSIGN" /\ Emit(StoreInstr(operands[1], operands[2]))
      BY <2>2 DEF GenAssign, Lowers, Node
    <3>2. QED
      BY <1>3, <3>1 DEF Emitting
  <2>3. CASE GenReturn
    <3>1. Node.kind = "RETURN" /\ Emit(RetInstr(operands)) /\ NextStatement
      BY <2>3 DEF GenReturn, Lowers, Node
    <3>2. IsSeq(RetInstr(operands).args)
      BY <1>1, <1>4
    <3>3. QED
      BY <3>1, <3>2 DEF Emitting
  <2>4. QED
    BY <2>1, <2>2, <2>3
<1>6. QED
  BY <1>1, <1>2, <1>5 DEF GenInitialiser, GenAssign, GenReturn, WalkStep, Lowers

(* A variable.                                                              *)
LEMMA VariableStep ==
  ASSUME Compiling, GenVariable
  PROVE  WalkStep
<1>1. tempCounter \in Nat /\ WalkInv /\ stage = "ir" /\ IsSeq(operands)
  BY DEF Compiling, WalkInv, StackTyped
<1>2. ~ListEnded /\ Node.kind = "DIM"
  BY DEF GenVariable, Lowers, Node
<1>3. /\ List.list \in DOMAIN prog /\ List.at \in DOMAIN prog[List.list]
      /\ prog[List.list][List.at].kind = "DIM"
  BY <1>2, TopFacts DEF Node
<1>4. Declared = SymbolOf(Key(List.list, List.at)) /\ symbols[Declared].decl = Key(List.list, List.at)
  BY <1>3, OverFacts DEF Compiling, IsDecl, Declared, Key
<1>5. ObjectsKept
  <2>1. operand' = [operand EXCEPT ![Declared] = Variable(Declared)]
        /\ operand = [s \in DOMAIN symbols |-> operand[s]]
    BY <1>1 DEF GenVariable, WalkInv, ObjectsMade
  <2>2. ASSUME NEW s \in DOMAIN symbols, NEW l \in DOMAIN prog, NEW i \in DOMAIN prog[l],
               symbols[s].decl = Key(l, i), IsFuncDecl(prog[l][i])
        PROVE  s # Declared
    <3>1. SUFFICES ASSUME s = Declared PROVE FALSE
      OBVIOUS
    <3>2. l = List.list /\ i = List.at
      BY <1>4, <2>2, <3>1 DEF Key
    <3>3. QED
      BY <1>3, <2>2, <3>2 DEF IsFuncDecl
  <2>3. \A s \in DOMAIN symbols : s # Declared => operand'[s] = operand[s]
    BY <2>1
  <2>4. operand' = [s \in DOMAIN symbols |-> operand'[s]]
    BY <2>1
  <2>5. QED
    BY <2>2, <2>3, <2>4 DEF ObjectsKept
<1>6. Emitting
  <2>1. VarInstr(Declared).args = <<>> /\ VarInstr(Declared).op = "var"
    BY DEF VarInstr, Instruction
  <2>2. IsSeq(<<>>)
    BY DEF IsSeq
  <2>3. QED
    BY <1>2, <2>1, <2>2 DEF GenVariable, Emitting
<1>7. at \in 0 .. Len(Node.expr)
  BY <1>2, TopNode
<1>8. NextStatement \/ StaysAt
  BY <1>1, <1>7 DEF GenVariable, StaysAt
<1>9. QED
  BY <1>1, <1>2, <1>5, <1>6, <1>8 DEF GenVariable, WalkStep

(* A node.                                                                  *)
LEMMA NodeStep ==
  ASSUME Compiling, GenNode
  PROVE  WalkStep
<1>1. tempCounter \in Nat /\ WalkInv /\ stage = "ir" /\ IsSeq(operands) /\ Len(operands) \in Nat
  BY SeqFacts DEF Compiling, WalkInv, StackTyped
<1>2. ~ListEnded /\ Node.kind \in {"DIM", "EXPR", "ASSIGN", "RETURN"} /\ ~NodesDone
  BY DEF GenNode, Lowers, Node
<1> DEFINE e == Node.expr[at + 1]
           rest == SubSeq(operands, 1, Len(operands) - e.takes)
           args == SubSeq(operands, Len(operands) - e.takes + 1, Len(operands))
           tmp == Temporary(tempCounter, function, Len(Body(function)) + 1)
<1>3. at + 1 \in 1 .. Len(Node.expr) /\ e.op # "ret" /\ e.takes \in Nat
  BY <1>2, TopNode
<1>4. IsSeq(rest) /\ IsSeq(args)
  <2>1. Len(operands) - e.takes \in Int /\ Len(operands) - e.takes + 1 \in Int /\ Len(operands) \in Int
    BY <1>1, <1>3
  <2>2. QED
    BY <2>1, PartIsSeq
<1>5. ObjectsKept
  BY <1>1, SameObjects DEF GenNode
<1>6. /\ at' = at + 1
      /\ \/ /\ \E x : operands' = Append(operands, x)
            /\ UNCHANGED <<tempCounter, functions, globalInit>>
         \/ UNCHANGED <<operands, tempCounter, functions, globalInit>>
         \/ /\ Emit(ExprInstr(e.op, tmp, args)) /\ tempCounter' = tempCounter + 1
            /\ operands' = Append(rest, tmp)
  BY DEF GenNode
<1>7. ExprInstr(e.op, tmp, args).args = args /\ ExprInstr(e.op, tmp, args).op = e.op
  BY DEF ExprInstr, Instruction
<1> HIDE DEF e, rest, args, tmp
<1>8. IsSeq(operands') /\ tempCounter' \in Nat
  <2>1. \A x : IsSeq(Append(operands, x)) /\ IsSeq(Append(rest, x))
    BY <1>1, <1>4, AppendedSeq
  <2>2. CASE (\E x : operands' = Append(operands, x)) /\ UNCHANGED <<tempCounter, functions, globalInit>>
    <3>1. PICK x : operands' = Append(operands, x)
      BY <2>2
    <3>2. QED
      BY <1>1, <2>1, <2>2, <3>1
  <2>3. CASE UNCHANGED <<operands, tempCounter, functions, globalInit>>
    BY <1>1, <2>3
  <2>4. CASE operands' = Append(rest, tmp) /\ tempCounter' = tempCounter + 1
    BY <1>1, <2>1, <2>4
  <2>5. QED
    BY <1>6, <2>2, <2>3, <2>4
<1>9. UNCHANGED <<functions, globalInit>> \/ Emitting
  BY <1>2, <1>3, <1>4, <1>6, <1>7 DEF Emitting
<1>10. UNCHANGED <<semaVars, stage, lists, function>>
  BY DEF GenNode
<1>11. at' \in 0 .. Len(Node.expr)
  <2> DEFINE n == Len(Node.expr)
  <2>1. n \in Nat
    BY <1>2, TopNode
  <2>2. at + 1 \in 1 .. n /\ at' = at + 1
    BY <1>3, <1>6
  <2> HIDE DEF n
  <2>3. at' \in 0 .. n
    BY <2>1, <2>2
  <2>4. QED
    BY <2>3 DEF n
<1>12. QED
  BY <1>2, <1>5, <1>8, <1>9, <1>10, <1>11 DEF WalkStep, StaysAt

(* What the walk does to the stack: it moves on in the innermost list.        *)
LEMMA WalkShape ==
  ASSUME Compiling, WalkStep
  PROVE  /\ StackTyped' /\ lists' # <<>> /\ DOMAIN lists' = DOMAIN lists /\ Len(lists') = Len(lists)
         /\ \A k \in DOMAIN lists :
              /\ lists'[k].list = lists[k].list /\ lists'[k].function = lists[k].function
              /\ lists'[k].at \in Nat /\ lists'[k].at >= lists[k].at
         /\ NextStatement => lists'[Len(lists)].at = lists[Len(lists)].at + 1
<1> DEFINE S == [list : DOMAIN prog, at : Nat \ {0}, function : Nat, temps : Nat]
<1>1. /\ lists \in Seq(S) /\ Len(lists) \in Nat \ {0} /\ DOMAIN lists = 1 .. Len(lists)
      /\ function \in Nat /\ tempCounter' \in Nat /\ UNCHANGED <<function, prog>>
  BY TopFacts DEF Compiling, WalkInv, StackTyped, WalkStep, semaVars
<1>2. \A k \in DOMAIN lists : lists[k] \in S
  <2> HIDE DEF S
  <2>1. QED
    BY <1>1
<1>3. CASE NextStatement
  <2> DEFINE n == Len(lists)
             top == [lists[n] EXCEPT !.at = @ + 1]
  <2>1. lists' = [lists EXCEPT ![n] = top] /\ at' = 0 /\ operands' = <<>>
    BY <1>3 DEF NextStatement
  <2>2. n \in DOMAIN lists /\ lists[n] \in S
    BY <1>1, <1>2
  <2>3. /\ top \in S /\ top.list = lists[n].list /\ top.function = lists[n].function
        /\ top.at = lists[n].at + 1 /\ lists[n].at \in Nat
    BY <2>2
  <2>4. IsSeq(operands')
    BY <2>1 DEF IsSeq
  <2> HIDE DEF S, top, n
  <2>5. lists' \in Seq(S) /\ DOMAIN lists' = DOMAIN lists /\ Len(lists') = Len(lists)
    BY <1>1, <2>1, <2>2, <2>3
  <2>6. lists'[n] = top /\ \A k \in DOMAIN lists : k # n => lists'[k] = lists[k]
    BY <1>1, <2>1, <2>2
  <2>7. \A k \in DOMAIN lists : lists[k].at \in Nat
    BY <1>2 DEF S
  <2>8. \A k \in DOMAIN lists :
          /\ lists'[k].list = lists[k].list /\ lists'[k].function = lists[k].function
          /\ lists'[k].at \in Nat /\ lists'[k].at >= lists[k].at
    <3> TAKE k \in DOMAIN lists
    <3>1. CASE k = n
      BY <2>3, <2>6, <3>1
    <3>2. CASE k # n
      BY <2>6, <2>7, <3>2
    <3>3. QED
      BY <3>1, <3>2
  <2>9. lists' # <<>>
    BY <1>1, <2>5
  <2>10. lists'[n].at = lists[n].at + 1
    BY <2>3, <2>6
  <2>11. StackTyped'
    BY <1>1, <2>1, <2>4, <2>5 DEF StackTyped, S
  <2>12. QED
    BY <2>5, <2>8, <2>9, <2>10, <2>11 DEF n
<1>4. CASE StaysAt
  <2>1. lists' = lists /\ IsSeq(operands') /\ at' \in Nat
    BY <1>4, TopNode DEF StaysAt, WalkStep
  <2>2. StackTyped'
    BY <1>1, <2>1 DEF StackTyped
  <2>3. \A k \in DOMAIN lists : lists[k].at \in Nat /\ lists[k].at >= lists[k].at
    BY <1>2
  <2>4. ~NextStatement \/ lists'[Len(lists)].at = lists[Len(lists)].at + 1
    <3>1. SUFFICES ASSUME NextStatement PROVE lists'[Len(lists)].at = lists[Len(lists)].at + 1
      OBVIOUS
    <3> DEFINE n == Len(lists)
    <3>2. n \in DOMAIN lists /\ lists[n] \in S
      BY <1>1, <1>2
    <3>3. lists' = [lists EXCEPT ![n].at = @ + 1]
      BY <3>1 DEF NextStatement
    <3>4. lists'[n] = [lists[n] EXCEPT !.at = @ + 1]
      <4> HIDE DEF n, S
      <4>1. QED
        BY <3>2, <3>3
    <3>5. lists'[n].at = lists[n].at + 1
      BY <3>2, <3>4
    <3>6. QED
      BY <3>5
  <2>5. lists # <<>>
    BY <1>1
  <2>6. QED
    BY <2>1, <2>2, <2>3, <2>4, <2>5
<1>5. QED
  BY <1>3, <1>4 DEF WalkStep

(* And the functions the lists fill are the same.                            *)
LEMMA WalkFunctions ==
  ASSUME Compiling, WalkStep, NEW k \in DOMAIN lists
  PROVE  FunctionOf(k)' = FunctionOf(k)
<1>1. /\ Len(lists') = Len(lists) /\ Len(lists) \in Nat \ {0} /\ DOMAIN lists = 1 .. Len(lists)
      /\ \A j \in DOMAIN lists : lists'[j].function = lists[j].function
      /\ function' = function
  BY WalkShape, TopFacts DEF WalkStep
<1>2. CASE k = Len(lists)
  BY <1>1, <1>2 DEF FunctionOf
<1>3. CASE k # Len(lists)
  <2>1. k + 1 \in DOMAIN lists
    BY <1>1, <1>3
  <2>2. QED
    BY <1>1, <1>3, <2>1 DEF FunctionOf
<1>4. QED
  BY <1>2, <1>3

(* And the statement at hand is visited as far as before, or from its begin.   *)
LEMMA WalkAt ==
  ASSUME Compiling, WalkStep
  PROVE  AtFits'
<1>1. CASE StaysAt
  <2>1. UNCHANGED <<prog, lists>> /\ at' \in 0 .. Len(Node.expr) /\ ~ListEnded
    BY <1>1 DEF StaysAt, WalkStep, semaVars
  <2>2. ListEnded' = ListEnded /\ Node' = Node
    BY <2>1 DEF ListEnded, Node, List
  <2>3. QED
    BY <2>1, <2>2 DEF AtFits
<1>2. CASE NextStatement
  <2>1. at' = 0 /\ prog' = prog
    BY <1>2 DEF NextStatement, WalkStep, semaVars
  <2> DEFINE l == lists'[Len(lists')].list
             i == lists'[Len(lists')].at
  <2>2. l \in DOMAIN prog /\ i \in Nat /\ i > 0
    <3>1. Len(lists) \in DOMAIN lists
      BY TopFacts
    <3>2. Len(lists') = Len(lists) /\ lists'[Len(lists)].list = lists[Len(lists)].list
          /\ lists'[Len(lists)].at \in Nat /\ lists'[Len(lists)].at >= lists[Len(lists)].at
      BY <3>1, WalkShape
    <3>3. lists[Len(lists)].list \in DOMAIN prog /\ lists[Len(lists)].at \in Nat \ {0}
      BY <3>1, TopFacts
    <3>4. QED
      BY <3>2, <3>3
  <2>3. DOMAIN prog[l] = 1 .. Len(prog[l]) /\ Len(prog[l]) \in Nat
        /\ \A j \in DOMAIN prog[l] : Len(prog[l][j].expr) \in Nat
    BY <2>2, ProgramFacts DEF Compiling
  <2>4. (ListEnded' <=> i > Len(prog[l])) /\ (i \in DOMAIN prog[l] => Node' = prog[l][i])
    BY <2>1 DEF ListEnded, Node, List
  <2> HIDE DEF l, i
  <2>5. ~ListEnded' => i \in DOMAIN prog[l]
    BY <2>2, <2>3, <2>4
  <2>6. ~ListEnded' => Len(Node'.expr) \in Nat
    BY <2>3, <2>4, <2>5
  <2>7. QED
    BY <2>1, <2>6 DEF AtFits
<1>3. QED
  BY <1>1, <1>2 DEF WalkStep

(* An instruction of a statement of its own list.                            *)
LEMMA PartlyEmits ==
  ASSUME NEW l, NEW i \in DOMAIN prog[l], i \in Nat, NEW n \in Nat, NEW body, IsSeq(body), NEW instr,
         DOMAIN prog[l] \subseteq Nat,
         Partly(l, body, i), prog[l][i].kind \in {"DIM", "ASSIGN", "RETURN", "EXPR"},
         instr.op = "ret" => prog[l][i].kind = "RETURN" /\ n = i + 1
  PROVE  Partly(l, Append(body, instr), n)
<1>1. SUFFICES ASSUME Trailing(l), NEW j \in DOMAIN Append(body, instr), Append(body, instr)[j].op = "ret"
               PROVE  /\ j = Len(Append(body, instr))
                      /\ \E r \in DOMAIN prog[l] : r < n /\ prog[l][r].kind = "RETURN"
  BY DEF Partly
<1>2. /\ Len(Append(body, instr)) = Len(body) + 1 /\ Append(body, instr)[Len(body) + 1] = instr
      /\ \A k \in DOMAIN body : Append(body, instr)[k] = body[k]
      /\ DOMAIN Append(body, instr) = DOMAIN body \cup {Len(body) + 1}
  BY AppendedSeq
<1>3. CASE j \in DOMAIN body
  <2>1. PICK r \in DOMAIN prog[l] : r < i /\ prog[l][r].kind = "RETURN"
    BY <1>1, <1>2, <1>3 DEF Partly
  <2>2. i > r
    BY <2>1
  <2>3. prog[l][i].kind \in {"DECLARE", "FUNC", "EXTERN"}
    BY <1>1, <2>1, <2>2 DEF Trailing
  <2>4. QED
    BY <2>3
<1>4. CASE j = Len(body) + 1
  <2>1. instr.op = "ret"
    BY <1>1, <1>2, <1>4
  <2>2. prog[l][i].kind = "RETURN" /\ n = i + 1 /\ i < n
    BY <2>1
  <2>3. QED
    BY <1>2, <1>4, <2>2
<1>5. QED
  BY <1>2, <1>3, <1>4

(* The list moves on.                                                       *)
LEMMA PartlyStays ==
  ASSUME NEW l, NEW i \in Nat, NEW n \in Nat, n >= i, NEW body, DOMAIN prog[l] \subseteq Nat, Partly(l, body, i)
  PROVE  Partly(l, body, n)
<1>1. \A r \in DOMAIN prog[l] : r < i => r < n
  OBVIOUS
<1>2. QED
  BY <1>1 DEF Partly

(* An instruction more.                                                     *)
LEMMA EmittedBody ==
  ASSUME NEW body, IsBody(body), NEW instr, IsSeq(instr.args)
  PROVE  IsBody(Append(body, instr))
<1>1. IsSeq(body)
  BY DEF IsBody
<1>2. /\ IsSeq(Append(body, instr)) /\ Append(body, instr)[Len(body) + 1] = instr
      /\ \A i \in DOMAIN body : Append(body, instr)[i] = body[i]
      /\ DOMAIN Append(body, instr) = DOMAIN body \cup {Len(body) + 1}
  BY <1>1, AppendedSeq
<1>3. \A i \in DOMAIN Append(body, instr) : IsSeq(Append(body, instr)[i].args)
  BY <1>2 DEF IsBody
<1>4. QED
  BY <1>2, <1>3 DEF IsBody

(* The innermost list is the module's, or fills a function.                  *)
LEMMA TopFills ==
  ASSUME Compiling
  PROVE  /\ function \notin DOMAIN functions => Len(lists) = 1 /\ List.list = 1 /\ function = 0
         /\ function \in DOMAIN functions =>
              /\ Len(lists) # 1 /\ function # 0 /\ ListOf(functions[function]) = List.list
              /\ Partly(List.list, functions[function].body, List.at)
         /\ DOMAIN functions = 1 .. Len(functions) /\ Len(functions) \in Nat
<1>1. FrameFills(Len(lists)) /\ Len(lists) \in DOMAIN lists /\ List = lists[Len(lists)]
  BY TopFacts DEF Compiling, WalkInv, StackFills
<1>2. FunctionOf(Len(lists)) = function
  BY DEF FunctionOf
<1>3. DOMAIN functions = 1 .. Len(functions) /\ Len(functions) \in Nat
  BY SeqFacts DEF Compiling, WalkInv, FunctionsMade
<1>4. 0 \notin DOMAIN functions
  BY <1>3
<1>5. QED
  BY <1>1, <1>2, <1>3, <1>4 DEF FrameFills

(* Functions and the module's own body grow by what the statement emits.      *)
LEMMA WalkGrows ==
  ASSUME Compiling, WalkStep
  PROVE  /\ FunctionsMade' /\ DOMAIN functions' = DOMAIN functions
         /\ \A f \in DOMAIN functions :
              /\ functions'[f].symbol = functions[f].symbol
              /\ f # function => functions'[f] = functions[f]
         /\ function \in DOMAIN functions =>
              \/ functions'[function].body = functions[function].body
              \/ \E instr :
                   /\ functions'[function].body = Append(functions[function].body, instr)
                   /\ Node.kind \in {"DIM", "ASSIGN", "RETURN", "EXPR"}
                   /\ instr.op = "ret" => Node.kind = "RETURN" /\ NextStatement
<1>1. FunctionsMade /\ UNCHANGED <<prog, symbols>>
  BY DEF Compiling, WalkInv, WalkStep, semaVars
<1>2. CASE UNCHANGED <<functions, globalInit>>
  <2>1. FunctionsMade'
    BY <1>1, <1>2 DEF FunctionsMade, IsFunction
  <2>2. QED
    BY <1>2, <2>1
<1>3. CASE Emitting
  <2>1. PICK instr :
          /\ Node.kind \in {"DIM", "ASSIGN", "RETURN", "EXPR"}
          /\ IsSeq(instr.args) /\ Emit(instr)
          /\ instr.op = "ret" => Node.kind = "RETURN" /\ NextStatement
    BY <1>3 DEF Emitting
  <2>2. CASE function \in DOMAIN functions
    <3>1. functions' = [functions EXCEPT ![function].body = Append(@, instr)] /\ globalInit' = globalInit
      BY <2>1, <2>2, TopFills DEF Emit
    <3> DEFINE was == functions[function]
               is == [was EXCEPT !.body = Append(@, instr)]
    <3>2. functions' = [functions EXCEPT ![function] = is]
      BY <3>1
    <3>3. was = [symbol |-> was.symbol, params |-> was.params, body |-> was.body] /\ IsBody(was.body)
      BY <1>1, <2>2 DEF FunctionsMade, IsFunction
    <3>4. is.symbol = was.symbol /\ is.params = was.params /\ is.body = Append(was.body, instr)
          /\ is = [symbol |-> is.symbol, params |-> is.params, body |-> is.body]
      <4> HIDE DEF was
      <4>1. QED
        BY <3>3
    <3>5. IsBody(is.body)
      BY <2>1, <3>3, <3>4, EmittedBody
    <3>6. IsFunction(is)
      BY <1>1, <2>2, <3>4, <3>5 DEF FunctionsMade, IsFunction
    <3> HIDE DEF is
    <3>7. IsSeq(functions') /\ DOMAIN functions' = DOMAIN functions
      <4>1. functions \in Seq({functions[f] : f \in DOMAIN functions})
        BY <1>1 DEF FunctionsMade, IsSeq
      <4> DEFINE S == {functions[f] : f \in DOMAIN functions} \cup {is}
      <4>2. functions \in Seq(S) /\ is \in S
        BY <4>1
      <4> HIDE DEF S
      <4>3. functions' \in Seq(S) /\ DOMAIN functions' = DOMAIN functions
        BY <2>2, <3>2, <4>2
      <4>4. QED
        BY <4>3, SeqIsSeq
    <3>8. functions'[function] = is /\ \A f \in DOMAIN functions : f # function => functions'[f] = functions[f]
      BY <2>2, <3>2
    <3>9. \A f \in DOMAIN functions' : IsFunction(functions'[f])
      BY <1>1, <3>6, <3>7, <3>8 DEF FunctionsMade
    <3>10. FunctionsMade'
      BY <1>1, <3>1, <3>7, <3>9 DEF FunctionsMade, IsFunction
    <3>11. functions'[function].body = Append(functions[function].body, instr)
      BY <3>4, <3>8
    <3>12. QED
      BY <2>1, <2>2, <3>4, <3>7, <3>8, <3>10, <3>11
  <2>3. CASE function \notin DOMAIN functions
    <3>1. function = 0 /\ List.list = 1
      BY <2>3, TopFills
    <3>2. functions' = functions /\ (globalInit' = globalInit \/ globalInit' = Append(globalInit, instr))
      BY <2>1, <3>1 DEF Emit
    <3>3. Node.kind # "RETURN"
      <4>1. List.list \in DOMAIN prog /\ List.at \in DOMAIN prog[List.list]
        BY TopFacts DEF WalkStep
      <4>2. QED
        BY <3>1, <4>1, OverFacts DEF Compiling, Node
    <3>4. IsBody(Append(globalInit, instr)) /\ NoRet(Append(globalInit, instr))
      BY <1>1, <2>1, <3>3, EmittedBody, AppendedBody DEF FunctionsMade, IsBody
    <3>5. IsBody(globalInit') /\ NoRet(globalInit')
      BY <1>1, <3>2, <3>4 DEF FunctionsMade
    <3>6. FunctionsMade'
      BY <1>1, <3>2, <3>5 DEF FunctionsMade, IsFunction
    <3>7. QED
      BY <2>3, <3>2, <3>6
  <2>4. QED
    BY <2>2, <2>3
<1>4. QED
  BY <1>2, <1>3 DEF WalkStep

(* The lists go on filling their functions.                                  *)
LEMMA WalkFills ==
  ASSUME Compiling, WalkStep
  PROVE  StackFills'
<1>1. /\ UNCHANGED <<prog, symbols, function>> /\ DOMAIN functions' = DOMAIN functions
      /\ DOMAIN lists' = DOMAIN lists /\ Len(lists') = Len(lists)
      /\ \A k \in DOMAIN lists :
           /\ lists'[k].list = lists[k].list /\ lists'[k].at \in Nat /\ lists'[k].at >= lists[k].at
           /\ FunctionOf(k)' = FunctionOf(k)
  BY WalkShape, WalkFunctions, WalkGrows DEF WalkStep, semaVars
<1>2. /\ \A k \in DOMAIN lists : FrameFills(k)
      /\ \A j, k \in DOMAIN lists : FunctionOf(j) = FunctionOf(k) => j = k
      /\ \A f \in DOMAIN functions :
           (\A k \in DOMAIN lists : FunctionOf(k) # f) => Wholly(ListOf(functions[f]), functions[f].body)
      /\ FunctionOf(Len(lists)) = function /\ Len(lists) \in DOMAIN lists
  BY TopFacts DEF Compiling, WalkInv, StackFills, FunctionOf
<1>3. \A f \in DOMAIN functions :
        /\ ListOf(functions'[f]) = ListOf(functions[f])
        /\ f # function => functions'[f] = functions[f]
  BY WalkGrows DEF ListOf
<1>4. ASSUME NEW k \in DOMAIN lists PROVE FrameFills(k)'
  <2>1. CASE k = 1
    BY <1>1, <1>2, <2>1 DEF FrameFills
  <2>2. CASE k # 1
    <3> DEFINE l == lists[k].list
               f == FunctionOf(k)
               i == lists[k].at
    <3>1. f \in DOMAIN functions /\ ListOf(functions[f]) = l /\ Partly(l, functions[f].body, i)
      BY <1>2, <2>2 DEF FrameFills
    <3>2. l \in DOMAIN prog /\ i \in Nat /\ DOMAIN prog[l] \subseteq Nat
      <4>1. l \in DOMAIN prog /\ i \in Nat
        BY TopFacts
      <4>2. DOMAIN prog[l] = 1 .. Len(prog[l]) /\ Len(prog[l]) \in Nat
        BY <4>1, ProgramFacts DEF Compiling
      <4>3. QED
        BY <4>1, <4>2
    <3>3. Partly(l, functions'[f].body, lists'[k].at)
      <4>1. CASE functions'[f].body = functions[f].body
        <5>1. lists'[k].at \in Nat /\ lists'[k].at >= i
          BY <1>1
        <5> HIDE DEF l, f, i
        <5>2. QED
          BY <3>1, <3>2, <4>1, <5>1, PartlyStays
      <4>2. CASE functions'[f].body # functions[f].body
        <5>1. f = function
          BY <1>3, <3>1, <4>2
        <5>2. k = Len(lists)
          BY <1>2, <5>1
        <5>3. l = List.list /\ i = List.at
          BY <5>2 DEF List
        <5>4. PICK instr :
                /\ functions'[f].body = Append(functions[f].body, instr)
                /\ Node.kind \in {"DIM", "ASSIGN", "RETURN", "EXPR"}
                /\ instr.op = "ret" => Node.kind = "RETURN" /\ NextStatement
          BY <3>1, <4>2, <5>1, WalkGrows
        <5>5. Node = prog[l][i] /\ i \in DOMAIN prog[l]
          BY <5>3, TopFacts DEF WalkStep, Node
        <5>6. NextStatement => lists'[k].at = i + 1
          BY <5>2, WalkShape
        <5>7. IsSeq(functions[f].body)
          BY <3>1 DEF Compiling, WalkInv, FunctionsMade, IsFunction, IsBody
        <5>8. lists'[k].at \in Nat
          BY <1>1
        <5> HIDE DEF l, f, i
        <5>9. Partly(l, Append(functions[f].body, instr), lists'[k].at)
          BY <3>1, <3>2, <5>4, <5>5, <5>6, <5>7, <5>8, PartlyEmits
        <5>10. QED
          BY <5>4, <5>9
      <4>3. QED
        BY <4>1, <4>2
    <3>4. FunctionOf(k)' = f /\ lists'[k].list = l
      BY <1>1
    <3>5. ListOf(functions'[f]) = l
      BY <1>3, <3>1
    <3> HIDE DEF l, f, i
    <3>6. QED
      BY <1>1, <2>2, <3>1, <3>3, <3>4, <3>5 DEF FrameFills, Partly, Trailing, ListOf
  <2>3. QED
    BY <2>1, <2>2
<1>5. ASSUME NEW g \in DOMAIN functions', \A k \in DOMAIN lists' : FunctionOf(k)' # g
      PROVE  Wholly(ListOf(functions[g]), functions[g].body)'
  <2>1. g \in DOMAIN functions /\ \A k \in DOMAIN lists : FunctionOf(k) # g
    BY <1>1, <1>5
  <2>2. Wholly(ListOf(functions[g]), functions[g].body) /\ functions'[g] = functions[g]
    BY <1>2, <1>3, <2>1
  <2>3. ListOf(functions[g])' = ListOf(functions[g])
    BY <1>1, <2>2 DEF ListOf
  <2>4. Trailing(ListOf(functions[g]))' <=> Trailing(ListOf(functions[g]))
    BY <1>1, <2>3 DEF Trailing
  <2>5. EndsOnce(functions[g].body)' <=> EndsOnce(functions[g].body)
    BY <2>2 DEF EndsOnce
  <2>6. QED
    BY <2>2, <2>4, <2>5 DEF Wholly
<1>6. \A j, k \in DOMAIN lists' : FunctionOf(j)' = FunctionOf(k)' => j = k
  BY <1>1, <1>2
<1>7. QED
  BY <1>1, <1>4, <1>5, <1>6 DEF StackFills

(* A statement within its list.                                             *)
LEMMA WalkKeeps ==
  ASSUME Compiling, WalkStep
  PROVE  WalkInv'
<1>1. /\ StackTyped' /\ lists' # <<>> /\ DOMAIN lists' = DOMAIN lists
      /\ \A k \in DOMAIN lists : lists'[k].list = lists[k].list
      /\ UNCHANGED <<prog, symbols, stage>> /\ stage = "ir"
  BY WalkShape DEF WalkStep, semaVars, Compiling
<1>2. AtFits' /\ StackFills' /\ FunctionsMade'
  BY WalkAt, WalkFills, WalkGrows
<1>3. ObjectsMade'
  <2>1. ObjectsMade /\ ObjectsKept
    BY DEF Compiling, WalkInv, WalkStep
  <2>2. \A k \in DOMAIN lists : lists[k].list \in DOMAIN prog
    BY TopFacts
  <2>3. QED
    BY <1>1, <2>1, <2>2 DEF ObjectsMade, ObjectsKept
<1>4. QED
  BY <1>1, <1>2, <1>3 DEF WalkInv

(* At the begin of a statement.                                              *)
LEMMA AtZero ==
  ASSUME SemaHolds, UNCHANGED prog, StackTyped', lists' # <<>>, at' = 0
  PROVE  AtFits'
<1> DEFINE S == [list : DOMAIN prog, at : Nat \ {0}, function : Nat, temps : Nat]
           top == lists'[Len(lists')]
<1>1. lists' \in Seq(S)
  BY DEF StackTyped
<1>2. top \in S
  <2> HIDE DEF S
  <2>1. QED
    BY <1>1
<1>3. top.list \in DOMAIN prog /\ top.at \in Nat /\ top.at > 0
  BY <1>2
<1> DEFINE l == top.list
           i == top.at
<1>4. DOMAIN prog[l] = 1 .. Len(prog[l]) /\ Len(prog[l]) \in Nat
      /\ \A j \in DOMAIN prog[l] : Len(prog[l][j].expr) \in Nat
  BY <1>3, ProgramFacts
<1>5. (ListEnded' <=> i > Len(prog[l])) /\ (i \in DOMAIN prog[l] => Node' = prog[l][i])
  BY DEF ListEnded, Node, List
<1>6. l \in DOMAIN prog /\ i \in Nat /\ i > 0
  BY <1>3
<1> HIDE DEF l, i, top, S
<1>7. ~ListEnded' => i \in DOMAIN prog[l]
  BY <1>4, <1>5, <1>6
<1>8. ~ListEnded' => Len(Node'.expr) \in Nat
  BY <1>4, <1>5, <1>7
<1>9. QED
  BY <1>8 DEF AtFits

(* A function statement: what it is and what it adds.                         *)
LEMMA FunctionMade ==
  ASSUME Compiling, GenFunction
  PROVE  \E fn :
           /\ functions' = Append(functions, fn) /\ IsFunction(fn)
           /\ ListOf(fn) = Node.body /\ fn.body = <<>> /\ Node.body \in DOMAIN prog
<1>1. ~ListEnded /\ Node.kind = "FUNC"
  BY DEF GenFunction, Lowers, Node
<1> DEFINE l == List.list
           i == List.at
           s == Declared
           ids == [k \in DOMAIN Node.params |-> SymbolOf(<<List.list, List.at, 0, k>>)]
           params == [k \in DOMAIN ids |-> Variable(ids[k])]
           fn == [symbol |-> operand[s].symbol, params |-> params, body |-> <<>>]
<1>2. l \in DOMAIN prog /\ i \in DOMAIN prog[l] /\ Node = prog[l][i] /\ Node \in Statements
  BY <1>1, TopFacts DEF Node
<1>3. s \in DOMAIN symbols /\ symbols[s].decl = Key(l, i)
  BY <1>1, <1>2, OverFacts DEF Compiling, IsDecl, Declared, Key
<1>4. operand[s] = Function(s)
  <2>1. Len(lists) \in DOMAIN lists /\ lists[Len(lists)] = List
    BY TopFacts
  <2>2. IsFuncDecl(prog[l][i])
    BY <1>1, <1>2 DEF IsFuncDecl
  <2>3. QED
    BY <1>2, <1>3, <2>1, <2>2 DEF Compiling, WalkInv, ObjectsMade
<1>5. functions' = Append(functions, fn)
  BY DEF GenFunction
<1>6. fn.symbol = s /\ fn.params = params /\ fn.body = <<>>
      /\ fn = [symbol |-> fn.symbol, params |-> fn.params, body |-> fn.body]
  BY <1>4 DEF Function
<1>7. IsSeq(params)
  <2>1. Node.params \in Seq(STRING)
    BY <1>1, <1>2, KindFacts DEF IsFuncDecl
  <2> DEFINE n == Len(Node.params)
  <2>2. n \in Nat /\ DOMAIN params = 1 .. n /\ params = [k \in 1 .. n |-> params[k]]
    BY <2>1
  <2> HIDE DEF n, params
  <2>3. QED
    BY <2>2, FunctionIsSeq
<1>8. IsBody(<<>>)
  BY DEF IsBody, IsSeq
<1>9. /\ symbols[s].decl[1] = l /\ symbols[s].decl[2] = i
      /\ \E m \in DOMAIN prog : \E j \in DOMAIN prog[m] :
           prog[m][j].kind = "FUNC" /\ symbols[s].decl = Key(m, j)
  BY <1>1, <1>2, <1>3 DEF Key
<1>10. Node.body \in DOMAIN prog
  <2>1. IsProgram(prog)
    BY DEF Compiling, SemaHolds, ScopesInv, Typed
  <2>2. QED
    BY <1>1, <1>2, <2>1, BodyFacts
<1> HIDE DEF fn, params, s, l, i
<1>11. IsFunction(fn)
  BY <1>3, <1>6, <1>7, <1>8, <1>9 DEF IsFunction
<1>12. ListOf(fn) = Node.body
  BY <1>2, <1>6, <1>9 DEF ListOf
<1>13. QED
  BY <1>5, <1>6, <1>10, <1>11, <1>12

(* The functions that were there stay as they are.                           *)
LEMMA FunctionJoins ==
  ASSUME FunctionsMade, NEW fn, IsFunction(fn), functions' = Append(functions, fn),
         UNCHANGED <<prog, symbols, globalInit>>
  PROVE  /\ FunctionsMade' /\ Len(functions) \in Nat /\ DOMAIN functions = 1 .. Len(functions)
         /\ DOMAIN functions' = DOMAIN functions \cup {Len(functions) + 1}
         /\ functions'[Len(functions) + 1] = fn
         /\ \A f \in DOMAIN functions : functions'[f] = functions[f]
<1>1. IsSeq(functions)
  BY DEF FunctionsMade
<1>2. /\ IsSeq(functions') /\ functions'[Len(functions) + 1] = fn
      /\ \A f \in DOMAIN functions : functions'[f] = functions[f]
      /\ DOMAIN functions' = DOMAIN functions \cup {Len(functions) + 1}
      /\ Len(functions) \in Nat /\ DOMAIN functions = 1 .. Len(functions)
  BY <1>1, AppendedSeq, SeqFacts
<1>3. \A f \in DOMAIN functions' : IsFunction(functions'[f])
  BY <1>2 DEF FunctionsMade
<1>4. FunctionsMade'
  BY <1>2, <1>3 DEF FunctionsMade, IsFunction
<1>5. QED
  BY <1>2, <1>4

(* The body of a function has the objects of the functions it declares, and    *)
(* its parameters take nobody's.                                            *)
LEMMA FunctionObjects ==
  ASSUME Compiling, GenFunction
  PROVE  /\ operand' = [s \in DOMAIN symbols |-> operand'[s]]
         /\ \A s \in DOMAIN symbols : \A l \in DOMAIN prog : \A i \in DOMAIN prog[l] :
              /\ symbols[s].decl = Key(l, i) /\ IsFuncDecl(prog[l][i])
              /\ operand[s] = Function(s) \/ l = Node.body
              => operand'[s] = Function(s)
<1> DEFINE ids == [k \in DOMAIN Node.params |-> SymbolOf(<<List.list, List.at, 0, k>>)]
<1>1. operand = [s \in DOMAIN symbols |-> operand[s]]
  BY DEF Compiling, WalkInv, ObjectsMade
<1>2. operand' = [s \in DOMAIN operand |->
                   IF \E k \in DOMAIN ids : ids[k] = s THEN Variable(s) ELSE Forward(Node.body)[s]]
  BY DEF GenFunction
<1>3. operand' = [s \in DOMAIN symbols |-> operand'[s]]
  BY <1>1, <1>2
<1>4. ASSUME NEW s \in DOMAIN symbols, NEW l \in DOMAIN prog, NEW i \in DOMAIN prog[l],
             symbols[s].decl = Key(l, i), IsFuncDecl(prog[l][i]),
             operand[s] = Function(s) \/ l = Node.body
      PROVE  operand'[s] = Function(s)
  <2>1. ASSUME NEW k \in DOMAIN Node.params PROVE ids[k] # s
    <3>1. ~ListEnded /\ Node.kind = "FUNC"
      BY DEF GenFunction, Lowers, Node
    <3>2. List.list \in DOMAIN prog /\ List.at \in DOMAIN prog[List.list] /\ Node = prog[List.list][List.at]
      BY <3>1, TopFacts DEF Node
    <3>3. symbols[SymbolOf(<<List.list, List.at, 0, k>>)].decl = <<List.list, List.at, 0, k>>
      BY <2>1, <3>1, <3>2, OverFacts DEF Compiling
    <3>4. k # 0
      <4>1. Node.params \in Seq(STRING)
        BY <3>1, <3>2, TopFacts, KindFacts DEF IsFuncDecl
      <4>2. QED
        BY <2>1, <4>1
    <3>5. Key(l, i)[4] = 0 /\ <<List.list, List.at, 0, k>>[4] = k
      BY DEF Key
    <3>6. ids[k] = SymbolOf(<<List.list, List.at, 0, k>>)
      BY <2>1
    <3> HIDE DEF ids
    <3>7. QED
      BY <1>4, <3>3, <3>4, <3>5, <3>6
  <2>2. operand'[s] = Forward(Node.body)[s]
    BY <1>1, <1>2, <2>1
  <2>3. Forward(Node.body)[s] =
          IF \E j \in DOMAIN prog[Node.body] :
               IsFuncDecl(prog[Node.body][j]) /\ symbols[s].decl = <<Node.body, j, 0, 0>>
          THEN Function(s) ELSE operand[s]
    BY <1>1 DEF Forward
  <2>4. QED
    BY <1>4, <2>2, <2>3 DEF Key
<1>5. QED
  BY <1>3, <1>4

(* A function statement.                                                    *)
LEMMA FunctionKeeps ==
  ASSUME Compiling, GenFunction
  PROVE  WalkInv'
<1>1a. PICK n : n = Len(lists)
  OBVIOUS
<1>1b. PICK new : new = Len(functions) + 1
  OBVIOUS
<1>1. PICK fn :
        /\ functions' = Append(functions, fn) /\ IsFunction(fn)
        /\ ListOf(fn) = Node.body /\ fn.body = <<>> /\ Node.body \in DOMAIN prog
  BY FunctionMade
<1> DEFINE S == [list : DOMAIN prog, at : Nat \ {0}, function : Nat, temps : Nat]
           frame == [list |-> Node.body, at |-> 1, function |-> function, temps |-> tempCounter]
<1>2. /\ UNCHANGED <<prog, symbols, globalInit, at, operands, stage>> /\ stage = "ir"
      /\ lists' = Append(lists, frame) /\ function' = new /\ tempCounter' = 0
  BY <1>1b DEF GenFunction, semaVars, Compiling
<1>3. /\ FunctionsMade' /\ Len(functions) \in Nat /\ DOMAIN functions = 1 .. Len(functions)
      /\ DOMAIN functions' = DOMAIN functions \cup {new}
      /\ functions'[new] = fn /\ \A f \in DOMAIN functions : functions'[f] = functions[f]
  BY <1>1b, <1>1, <1>2, FunctionJoins DEF Compiling, WalkInv
<1>4. /\ lists \in Seq(S) /\ function \in Nat /\ tempCounter \in Nat /\ at \in Nat /\ IsSeq(operands)
      /\ n \in Nat \ {0} /\ DOMAIN lists = 1 .. n
  BY <1>1a, TopFacts DEF Compiling, WalkInv, StackTyped
<1>5. frame \in S /\ frame.list = Node.body /\ frame.at = 1 /\ frame.function = function
  BY <1>1, <1>4
<1>6. at = 0
  <2>1. ~ListEnded /\ Node.kind = "FUNC"
    BY DEF GenFunction, Lowers, Node
  <2>2. at \in 0 .. Len(Node.expr) /\ Len(Node.expr) = 0
    BY <2>1, TopNode
  <2>3. QED
    BY <2>2
<1> HIDE DEF S, frame
<1>7. /\ lists' \in Seq(S) /\ Len(lists') = n + 1 /\ DOMAIN lists' = 1 .. n + 1
      /\ lists'[n + 1] = frame /\ \A k \in 1 .. n : lists'[k] = lists[k]
  BY <1>1a, <1>2, <1>4, <1>5
<1>8. new \in Nat /\ new \notin DOMAIN functions
  BY <1>1b, <1>3
<1>9. StackTyped' /\ lists' # <<>>
  BY <1>2, <1>4, <1>7, <1>8 DEF StackTyped, S
<1>10. AtFits'
  BY <1>2, <1>6, <1>9, AtZero DEF Compiling
<1>11. \A k \in 1 .. n : FunctionOf(k)' = FunctionOf(k)
  <2> TAKE k \in 1 .. n
  <2>1. k + 1 \in 1 .. n + 1 /\ k # n + 1
    BY <1>4
  <2>2. FunctionOf(k)' = lists'[k + 1].function
    BY <1>7, <2>1 DEF FunctionOf
  <2>3. CASE k = n
    BY <1>1a, <1>5, <1>7, <2>2, <2>3 DEF FunctionOf
  <2>4. CASE k # n
    <3>1. k + 1 \in 1 .. n
      BY <1>4, <2>4
    <3>2. QED
      BY <1>1a, <1>7, <2>2, <2>4, <3>1 DEF FunctionOf
  <2>5. QED
    BY <2>3, <2>4
<1>12. FunctionOf(n + 1)' = new
  BY <1>2, <1>7 DEF FunctionOf
<1>13. StackFills'
  <2>1. /\ \A k \in DOMAIN lists : FrameFills(k)
        /\ \A j, k \in DOMAIN lists : FunctionOf(j) = FunctionOf(k) => j = k
        /\ \A f \in DOMAIN functions :
             (\A k \in DOMAIN lists : FunctionOf(k) # f) => Wholly(ListOf(functions[f]), functions[f].body)
    BY DEF Compiling, WalkInv, StackFills
  <2>2. ASSUME NEW k \in DOMAIN lists PROVE FrameFills(k)'
    <3>1. lists'[k] = lists[k] /\ FunctionOf(k)' = FunctionOf(k) /\ FrameFills(k)
      BY <1>4, <1>7, <1>11, <2>1
    <3>2. CASE k = 1
      BY <3>1, <3>2 DEF FrameFills
    <3>3. CASE k # 1
      <4>1. /\ FunctionOf(k) \in DOMAIN functions
            /\ ListOf(functions[FunctionOf(k)]) = lists[k].list
            /\ Partly(lists[k].list, functions[FunctionOf(k)].body, lists[k].at)
        BY <3>1, <3>3 DEF FrameFills
      <4>2. functions'[FunctionOf(k)] = functions[FunctionOf(k)] /\ FunctionOf(k) \in DOMAIN functions'
        BY <1>3, <4>1
      <4>3. QED
        BY <1>2, <3>1, <3>3, <4>1, <4>2 DEF FrameFills, Partly, Trailing, ListOf
    <3>4. QED
      BY <3>2, <3>3
  <2>3. FrameFills(n + 1)'
    <3>1. lists'[n + 1].list = Node.body /\ n + 1 # 1 /\ new \in DOMAIN functions'
      BY <1>3, <1>4, <1>5, <1>7
    <3>2. Partly(Node.body, <<>>, 1)'
      BY DEF Partly
    <3>3. ListOf(fn)' = Node.body
      BY <1>1, <1>2 DEF ListOf
    <3>4. functions'[new] = fn /\ fn.body = <<>> /\ FunctionOf(n + 1)' = new /\ lists'[n + 1].at = 1
      BY <1>1, <1>3, <1>5, <1>7, <1>12
    <3>5. ListOf(functions[new])' = Node.body
      BY <3>3, <3>4 DEF ListOf
    <3>6. Partly(lists[n + 1].list, functions[new].body, lists[n + 1].at)'
      BY <3>1, <3>4 DEF Partly
    <3>7. QED
      BY <3>1, <3>4, <3>5, <3>6 DEF FrameFills
  <2>4. \A k \in DOMAIN lists : FunctionOf(k) # new
    <3>1. ASSUME NEW k \in DOMAIN lists PROVE FunctionOf(k) = 0 \/ FunctionOf(k) \in DOMAIN functions
      BY <2>1 DEF FrameFills
    <3>2. new # 0
      BY <1>1b, <1>3
    <3>3. QED
      BY <1>8, <3>1, <3>2
  <2>5. \A k \in DOMAIN lists' : k \in DOMAIN lists \/ k = n + 1
    BY <1>4, <1>7
  <2>6. \A j, k \in DOMAIN lists' : FunctionOf(j)' = FunctionOf(k)' => j = k
    <3> TAKE j, k \in DOMAIN lists'
    <3>1. /\ j \in DOMAIN lists => FunctionOf(j)' = FunctionOf(j) /\ FunctionOf(j) # new
          /\ k \in DOMAIN lists => FunctionOf(k)' = FunctionOf(k) /\ FunctionOf(k) # new
      BY <1>4, <1>11, <2>4
    <3>2. QED
      BY <1>12, <2>1, <2>5, <3>1
  <2>7. ASSUME NEW g \in DOMAIN functions', \A k \in DOMAIN lists' : FunctionOf(k)' # g
        PROVE  Wholly(ListOf(functions[g]), functions[g].body)'
    <3>1. n + 1 \in DOMAIN lists' /\ DOMAIN lists \subseteq DOMAIN lists'
      BY <1>4, <1>7
    <3>2. g # new /\ g \in DOMAIN functions
      BY <1>3, <1>12, <2>7, <3>1
    <3>3. \A k \in DOMAIN lists : FunctionOf(k) # g
      BY <1>4, <1>11, <2>7, <3>1
    <3>4. Wholly(ListOf(functions[g]), functions[g].body) /\ functions'[g] = functions[g]
      BY <1>3, <2>1, <3>2, <3>3
    <3>5. ListOf(functions[g])' = ListOf(functions[g])
      BY <1>2, <3>4 DEF ListOf
    <3>6. Trailing(ListOf(functions[g]))' <=> Trailing(ListOf(functions[g]))
      BY <1>2, <3>5 DEF Trailing
    <3>7. EndsOnce(functions[g].body)' <=> EndsOnce(functions[g].body)
      BY <3>4 DEF EndsOnce
    <3>8. QED
      BY <3>4, <3>6, <3>7 DEF Wholly
  <2>8. \A k \in DOMAIN lists' : FrameFills(k)'
    BY <2>2, <2>3, <2>5
  <2>9. QED
    BY <2>6, <2>7, <2>8 DEF StackFills
<1>14. ObjectsMade'
  <2>1. ASSUME NEW k \in DOMAIN lists', NEW i \in DOMAIN prog[lists'[k].list], NEW s \in DOMAIN symbols,
               symbols[s].decl = Key(lists'[k].list, i), IsFuncDecl(prog[lists'[k].list][i])
        PROVE  operand'[s] = Function(s)
    <3>1. CASE k = n + 1
      <4>1. lists'[k].list = Node.body
        BY <1>5, <1>7, <3>1
      <4>2. QED
        BY <1>1, <2>1, <4>1, FunctionObjects
    <3>2. CASE k \in DOMAIN lists
      <4>1. lists'[k] = lists[k] /\ lists[k].list \in DOMAIN prog
        BY <1>4, <1>7, <3>2, TopFacts
      <4>2. operand[s] = Function(s)
        BY <2>1, <3>2, <4>1 DEF Compiling, WalkInv, ObjectsMade
      <4>3. QED
        BY <2>1, <4>1, <4>2, FunctionObjects
    <3>3. QED
      BY <1>4, <1>7, <3>1, <3>2
  <2>2. operand' = [s \in DOMAIN symbols |-> operand'[s]]
    BY FunctionObjects
  <2>3. \A k \in DOMAIN lists' : \A i \in DOMAIN prog'[lists'[k].list] : \A s \in DOMAIN symbols' :
          symbols'[s].decl = Key(lists'[k].list, i) /\ IsFuncDecl(prog'[lists'[k].list][i]) =>
            operand'[s] = Function(s)
    BY <1>2, <2>1
  <2>4. operand' = [s \in DOMAIN symbols' |-> operand'[s]]
    BY <1>2, <2>2
  <2>5. QED
    BY <2>3, <2>4 DEF ObjectsMade
<1>15. QED
  BY <1>2, <1>3, <1>9, <1>10, <1>13, <1>14 DEF WalkInv

(* The terminator a body gets at its end is its only one.                    *)
LEMMA TerminatedBody ==
  ASSUME NEW l, NEW i, NEW body, IsBody(body), Partly(l, body, i)
  PROVE  IsBody(Terminated(body)) /\ Wholly(l, Terminated(body))
<1>1. RetInstr(<<>>).args = <<>> /\ RetInstr(<<>>).op = "ret" /\ IsSeq(<<>>) /\ IsSeq(body)
  BY DEF RetInstr, Instruction, IsSeq, IsBody
<1>2. CASE IsTerminated(body)
  <2>1. Terminated(body) = body
    BY <1>2 DEF Terminated
  <2>2. body # <<>> /\ body[Len(body)].op = "ret"
    BY <1>2 DEF IsTerminated, IsTerminator
  <2>3. Wholly(l, body)
    BY <2>2 DEF Wholly, Partly, EndsOnce
  <2>4. QED
    BY <2>1, <2>3
<1>3. CASE ~IsTerminated(body)
  <2>1. Terminated(body) = Append(body, RetInstr(<<>>))
    BY <1>3 DEF Terminated
  <2>2. IsBody(Terminated(body))
    BY <1>1, <2>1, EmittedBody
  <2>3. ASSUME Trailing(l) PROVE NoRet(body)
    <3>1. SUFFICES ASSUME NEW j \in DOMAIN body, body[j].op = "ret" PROVE FALSE
      BY DEF NoRet
    <3>2. j = Len(body)
      BY <2>3, <3>1 DEF Partly
    <3>3. body # <<>>
      BY <3>1
    <3>4. QED
      BY <1>3, <3>1, <3>2, <3>3 DEF IsTerminated, IsTerminator
  <2>4. Wholly(l, Terminated(body))
    BY <1>1, <2>1, <2>3, AppendedBody DEF Wholly
  <2>5. QED
    BY <2>2, <2>4
<1>4. QED
  BY <1>2, <1>3

(* At the end of a list its function is whole, the others stay as they are.    *)
LEMMA EndedFunctions ==
  ASSUME Compiling, GenEndList
  PROVE  /\ FunctionsMade' /\ DOMAIN functions' = DOMAIN functions
         /\ \A f \in DOMAIN functions :
              /\ functions'[f].symbol = functions[f].symbol
              /\ f # function => functions'[f] = functions[f]
              /\ f = function => Wholly(ListOf(functions[f]), functions'[f].body)
<1>1. FunctionsMade /\ UNCHANGED <<prog, symbols, globalInit>>
  BY DEF Compiling, WalkInv, GenEndList, semaVars
<1>2. CASE function \notin DOMAIN functions
  <2>1. functions' = functions
    BY <1>2, TopFills DEF GenEndList
  <2>2. QED
    BY <1>1, <1>2, <2>1 DEF FunctionsMade, IsFunction
<1>3. CASE function \in DOMAIN functions
  <2> DEFINE was == functions[function]
             is == [was EXCEPT !.body = Terminated(@)]
  <2>1. functions' = [functions EXCEPT ![function] = is]
    BY <1>3, TopFills DEF GenEndList
  <2>2. was = [symbol |-> was.symbol, params |-> was.params, body |-> was.body] /\ IsBody(was.body)
    BY <1>1, <1>3 DEF FunctionsMade, IsFunction
  <2>3. is.symbol = was.symbol /\ is.params = was.params /\ is.body = Terminated(was.body)
        /\ is = [symbol |-> is.symbol, params |-> is.params, body |-> is.body]
    <3> HIDE DEF was
    <3>1. QED
      BY <2>2
  <2>4. IsBody(is.body) /\ Wholly(ListOf(was), is.body)
    <3>1. Partly(ListOf(was), was.body, List.at)
      BY <1>3, TopFills
    <3> HIDE DEF was, is
    <3>2. QED
      BY <2>2, <2>3, <3>1, TerminatedBody
  <2>5. IsFunction(is)
    BY <1>1, <1>3, <2>3, <2>4 DEF FunctionsMade, IsFunction
  <2> HIDE DEF is
  <2>6. IsSeq(functions') /\ DOMAIN functions' = DOMAIN functions
    <3>1. functions \in Seq({functions[f] : f \in DOMAIN functions})
      BY <1>1 DEF FunctionsMade, IsSeq
    <3> DEFINE S == {functions[f] : f \in DOMAIN functions} \cup {is}
    <3>2. functions \in Seq(S) /\ is \in S
      BY <3>1
    <3> HIDE DEF S
    <3>3. functions' \in Seq(S) /\ DOMAIN functions' = DOMAIN functions
      BY <1>3, <2>1, <3>2
    <3>4. QED
      BY <3>3, SeqIsSeq
  <2>7. functions'[function] = is /\ \A f \in DOMAIN functions : f # function => functions'[f] = functions[f]
    BY <1>3, <2>1
  <2>8. \A f \in DOMAIN functions' : IsFunction(functions'[f])
    BY <1>1, <2>5, <2>6, <2>7 DEF FunctionsMade
  <2>9. FunctionsMade'
    BY <1>1, <2>6, <2>8 DEF FunctionsMade, IsFunction
  <2>10. QED
    BY <2>3, <2>4, <2>6, <2>7, <2>9
<1>4. QED
  BY <1>2, <1>3

(* The stack without its innermost list.                                     *)
LEMMA EndedStack ==
  ASSUME Compiling, GenEndList, Len(lists) # 1
  PROVE  /\ StackTyped' /\ lists' # <<>> /\ stage' = "ir"
         /\ Len(lists') = Len(lists) - 1 /\ DOMAIN lists' = 1 .. Len(lists) - 1
         /\ \A k \in 1 .. Len(lists) - 1 :
              /\ lists'[k].list = lists[k].list /\ FunctionOf(k)' = FunctionOf(k)
              /\ lists'[k].at \in Nat /\ lists'[k].at >= lists[k].at
<1> DEFINE S == [list : DOMAIN prog, at : Nat \ {0}, function : Nat, temps : Nat]
           outer == SubSeq(lists, 1, Len(lists) - 1)
<1>1. PICK n : n = Len(lists)
  OBVIOUS
<1>2. /\ lists \in Seq(S) /\ IsSeq(operands) /\ at \in Nat /\ n \in Nat /\ n > 1 /\ DOMAIN lists = 1 .. n
      /\ List = lists[n] /\ List.function \in Nat /\ List.temps \in Nat
  BY <1>1, TopFacts DEF Compiling, WalkInv, StackTyped
<1>3. /\ UNCHANGED <<prog, at, operands>> /\ function' = List.function /\ tempCounter' = List.temps
      /\ lists' = IF outer = <<>> THEN outer ELSE [outer EXCEPT ![Len(outer)].at = @ + 1]
      /\ stage' = IF outer = <<>> THEN "globals" ELSE stage
  BY DEF GenEndList, semaVars, RestoredCounter
<1>4. outer \in Seq(S) /\ Len(outer) = n - 1 /\ DOMAIN outer = 1 .. n - 1
      /\ \A k \in 1 .. n - 1 : outer[k] = lists[k]
  <2> HIDE DEF S
  <2>1. QED
    BY <1>1, <1>2
<1>5. outer # <<>> /\ n - 1 \in 1 .. n - 1
  <2> HIDE DEF outer
  <2>1. QED
    BY <1>2, <1>4
<1>6. \A k \in 1 .. n : lists[k] \in S
  <2> HIDE DEF S
  <2>1. QED
    BY <1>2
<1> DEFINE top == [lists[n - 1] EXCEPT !.at = @ + 1]
<1>7. lists[n - 1] \in S
  <2>1. n - 1 \in 1 .. n
    BY <1>2
  <2>2. QED
    BY <1>6, <2>1
<1>8. /\ top \in S /\ top.list = lists[n - 1].list /\ top.function = lists[n - 1].function
      /\ top.at = lists[n - 1].at + 1 /\ lists[n - 1].at \in Nat
  BY <1>7
<1> HIDE DEF outer
<1>9. lists' = [outer EXCEPT ![n - 1] = top]
  BY <1>3, <1>4, <1>5
<1> HIDE DEF top, S
<1>10. /\ lists' \in Seq(S) /\ Len(lists') = n - 1 /\ DOMAIN lists' = 1 .. n - 1
       /\ lists'[n - 1] = top /\ \A k \in 1 .. n - 1 : k # n - 1 => lists'[k] = lists[k]
  BY <1>4, <1>5, <1>8, <1>9
<1>11. StackTyped'
  BY <1>2, <1>3, <1>10 DEF StackTyped, S
<1>12. ASSUME NEW k \in 1 .. n - 1
       PROVE  /\ lists'[k].list = lists[k].list /\ FunctionOf(k)' = FunctionOf(k)
              /\ lists'[k].at \in Nat /\ lists'[k].at >= lists[k].at
  <2>1. k # n /\ k + 1 \in 1 .. n /\ (k # n - 1 => k + 1 \in 1 .. n - 1)
    BY <1>2
  <2>2. lists'[k].list = lists[k].list /\ lists'[k].at \in Nat /\ lists'[k].at >= lists[k].at
    <3>1. CASE k = n - 1
      BY <1>8, <1>10, <3>1
    <3>2. CASE k # n - 1
      <4>1. lists[k] \in S
        BY <1>2, <1>6
      <4>2. lists[k].at \in Nat
        BY <4>1 DEF S
      <4>3. QED
        BY <1>10, <3>2, <4>2
    <3>3. QED
      BY <3>1, <3>2
  <2>3. FunctionOf(k) = lists[k + 1].function
    BY <1>1, <2>1 DEF FunctionOf
  <2>4. CASE k = n - 1
    <3>1. k + 1 = n
      BY <1>2, <2>4
    <3>2. FunctionOf(k)' = function'
      BY <1>10, <2>4 DEF FunctionOf
    <3>3. lists[k + 1].function = function'
      BY <1>2, <1>3, <3>1
    <3>4. QED
      BY <2>2, <2>3, <3>2, <3>3
  <2>5. CASE k # n - 1
    <3>1. FunctionOf(k)' = lists'[k + 1].function
      BY <1>10, <2>5 DEF FunctionOf
    <3>2. lists'[k + 1].function = lists[k + 1].function
      <4>1. CASE k + 1 = n - 1
        BY <1>8, <1>10, <4>1
      <4>2. CASE k + 1 # n - 1
        BY <1>10, <2>1, <2>5, <4>2
      <4>3. QED
        BY <4>1, <4>2
    <3>3. QED
      BY <2>2, <2>3, <3>1, <3>2
  <2>6. QED
    BY <2>2, <2>4, <2>5
<1>13. lists' # <<>> /\ stage' = "ir"
  BY <1>2, <1>3, <1>5, <1>10 DEF Compiling
<1>14. QED
  BY <1>1, <1>10, <1>11, <1>12, <1>13

(* The end of a list.                                                       *)
LEMMA ListEndKeeps ==
  ASSUME Compiling, GenEndList
  PROVE  WalkInv'
<1>1. /\ UNCHANGED <<prog, symbols, operand, at, operands>> /\ stage = "ir" /\ ListEnded
      /\ ObjectsMade /\ at = 0
  BY DEF GenEndList, semaVars, Compiling, WalkInv, AtFits
<1>2. /\ FunctionsMade' /\ DOMAIN functions' = DOMAIN functions
      /\ \A f \in DOMAIN functions :
           /\ ListOf(functions'[f]) = ListOf(functions[f])
           /\ f # function => functions'[f] = functions[f]
           /\ f = function => Wholly(ListOf(functions[f]), functions'[f].body)
  BY EndedFunctions DEF ListOf
<1>3. /\ \A k \in DOMAIN lists : FrameFills(k)
      /\ \A j, k \in DOMAIN lists : FunctionOf(j) = FunctionOf(k) => j = k
      /\ \A f \in DOMAIN functions :
           (\A k \in DOMAIN lists : FunctionOf(k) # f) => Wholly(ListOf(functions[f]), functions[f].body)
  BY DEF Compiling, WalkInv, StackFills
<1>4. FunctionOf(Len(lists)) = function /\ Len(lists) \in DOMAIN lists
      /\ Len(lists) \in Nat \ {0} /\ DOMAIN lists = 1 .. Len(lists)
  BY TopFacts DEF FunctionOf
<1>5. PICK n : n = Len(lists)
  OBVIOUS
<1>6. ASSUME NEW f \in DOMAIN functions, \A k \in 1 .. n - 1 : FunctionOf(k) # f
      PROVE  Wholly(ListOf(functions[f]), functions[f].body)'
  <2>1. Wholly(ListOf(functions[f]), functions'[f].body)
    <3>1. CASE f = function
      BY <1>2, <3>1
    <3>2. CASE f # function
      <4>1. \A k \in DOMAIN lists : k \in 1 .. n - 1 \/ k = n
        BY <1>4, <1>5
      <4>2. \A k \in DOMAIN lists : FunctionOf(k) # f
        BY <1>4, <1>5, <1>6, <3>2, <4>1
      <4>3. QED
        BY <1>2, <1>3, <3>2, <4>2
    <3>3. QED
      BY <3>1, <3>2
  <2>2. ListOf(functions[f])' = ListOf(functions[f])
    BY <1>1, <1>2 DEF ListOf
  <2>3. Trailing(ListOf(functions[f]))' <=> Trailing(ListOf(functions[f]))
    BY <1>1, <2>2 DEF Trailing
  <2>4. EndsOnce(functions[f].body)' <=> EndsOnce(functions'[f].body)
    BY DEF EndsOnce
  <2>5. QED
    BY <2>1, <2>3, <2>4 DEF Wholly
<1>7. CASE n = 1
  <2>1. SubSeq(lists, 1, Len(lists) - 1) = <<>>
    BY <1>5, <1>7
  <2>2. lists' = <<>> /\ stage' = "globals" /\ function' = List.function /\ tempCounter' = List.temps
    BY <2>1 DEF GenEndList, RestoredCounter
  <2>3. StackTyped'
    <3>1. List.function \in Nat /\ List.temps \in Nat
      BY TopFacts
    <3>2. at \in Nat /\ IsSeq(operands)
      BY DEF Compiling, WalkInv, StackTyped
    <3>3. QED
      BY <1>1, <2>2, <3>1, <3>2 DEF StackTyped
  <2>4. \A f \in DOMAIN functions : Wholly(ListOf(functions[f]), functions[f].body)'
    <3>1. 1 .. n - 1 = {}
      BY <1>7
    <3>2. QED
      BY <1>6, <3>1
  <2>5. StackFills'
    BY <1>2, <2>2, <2>4 DEF StackFills
  <2>6. QED
    BY <1>2, <2>2, <2>3, <2>5 DEF WalkInv
<1>8. CASE n # 1
  <2>1. /\ StackTyped' /\ lists' # <<>> /\ stage' = "ir"
        /\ DOMAIN lists' = 1 .. n - 1
        /\ \A k \in 1 .. n - 1 :
             /\ lists'[k].list = lists[k].list /\ FunctionOf(k)' = FunctionOf(k)
             /\ lists'[k].at \in Nat /\ lists'[k].at >= lists[k].at
    BY <1>5, <1>8, EndedStack
  <2>2. \A k \in 1 .. n - 1 : k \in DOMAIN lists /\ k # n
    <3>1. n \in Nat \ {0} /\ DOMAIN lists = 1 .. n
      BY <1>4, <1>5
    <3>2. QED
      BY <3>1
  <2>3. AtFits'
    BY <1>1, <2>1, AtZero DEF Compiling
  <2>4. ASSUME NEW k \in 1 .. n - 1 PROVE FrameFills(k)'
    <3>1. CASE k = 1
      BY <1>3, <2>1, <2>2, <3>1 DEF FrameFills
    <3>2. CASE k # 1
      <4> DEFINE l == lists[k].list
                 f == FunctionOf(k)
                 i == lists[k].at
                 body == functions[f].body
      <4>1. f \in DOMAIN functions /\ ListOf(functions[f]) = l /\ Partly(l, body, i)
        BY <1>3, <2>2, <3>2 DEF FrameFills
      <4>2. f # function
        BY <1>3, <1>4, <1>5, <2>2
      <4>3. functions'[f] = functions[f]
        BY <1>2, <4>1, <4>2
      <4>4. l \in DOMAIN prog /\ i \in Nat /\ DOMAIN prog[l] \subseteq Nat
        <5>1. l \in DOMAIN prog /\ i \in Nat
          BY <2>2, TopFacts
        <5>2. DOMAIN prog[l] = 1 .. Len(prog[l]) /\ Len(prog[l]) \in Nat
          BY <5>1, ProgramFacts DEF Compiling
        <5>3. QED
          BY <5>1, <5>2
      <4>5. Partly(l, body, lists'[k].at)
        <5>1. lists'[k].at \in Nat /\ lists'[k].at >= i
          BY <2>1
        <5> HIDE DEF l, f, i, body
        <5>2. QED
          BY <4>1, <4>4, <5>1, PartlyStays
      <4>6. Partly(lists[k].list, functions[FunctionOf(k)].body, lists[k].at)'
        <5>1. FunctionOf(k)' = f /\ lists'[k].list = l /\ functions'[f].body = body
          BY <2>1, <4>3
        <5> HIDE DEF l, f, i, body
        <5>2. QED
          BY <1>1, <4>5, <5>1 DEF Partly, Trailing
      <4>7. ListOf(functions[FunctionOf(k)])' = lists'[k].list
        BY <1>1, <2>1, <4>1, <4>3 DEF ListOf
      <4>8. FunctionOf(k)' \in DOMAIN functions'
        BY <1>2, <2>1, <4>1
      <4> HIDE DEF l, f, i, body
      <4>9. QED
        BY <3>2, <4>6, <4>7, <4>8 DEF FrameFills
    <3>3. QED
      BY <3>1, <3>2
  <2>5. \A j, k \in DOMAIN lists' : FunctionOf(j)' = FunctionOf(k)' => j = k
    BY <1>3, <2>1, <2>2
  <2>6. ASSUME NEW g \in DOMAIN functions', \A k \in DOMAIN lists' : FunctionOf(k)' # g
        PROVE  Wholly(ListOf(functions[g]), functions[g].body)'
    <3>1. g \in DOMAIN functions /\ \A k \in 1 .. n - 1 : FunctionOf(k) # g
      BY <1>2, <2>1, <2>6
    <3>2. QED
      BY <1>6, <3>1
  <2>7. StackFills'
    BY <2>1, <2>4, <2>5, <2>6 DEF StackFills
  <2>8. ObjectsMade'
    BY <1>1, <2>1, <2>2 DEF ObjectsMade
  <2>9. QED
    BY <1>2, <2>1, <2>3, <2>7, <2>8 DEF WalkInv
<1>9. QED
  BY <1>7, <1>8

(* The walk begins.                                                         *)
LEMMA BeginKeeps ==
  ASSUME SemaHolds, WalkInv, GenerateIR
  PROVE  WalkInv' /\ SemaOver
<1>1. SemaOver
  BY DEF GenerateIR, SemaOver
<1> DEFINE S == [list : DOMAIN prog, at : Nat \ {0}, function : Nat, temps : Nat]
           frame == [list |-> 1, at |-> 1, function |-> function, temps |-> tempCounter]
<1>2. /\ UNCHANGED <<prog, symbols, functions, globalInit, at, operands, function, tempCounter>>
      /\ stage' = "ir" /\ lists' = <<frame>>
      /\ functions = <<>> /\ function = 0 /\ at = 0 /\ FunctionsMade /\ StackTyped
      /\ operand' = [s \in DOMAIN symbols |->
                       IF symbols[s].role = "function" /\ symbols[s].decl[1] = 1 /\ symbols[s].decl[3] = 0
                       THEN Function(s) ELSE NoValue]
  BY DEF GenerateIR, semaVars, WalkInv
<1>3. 1 \in DOMAIN prog
  <2>1. IsProgram(prog)
    BY DEF SemaHolds, ScopesInv, Typed
  <2>2. DOMAIN prog = 1 .. Len(prog) /\ Len(prog) \in Nat \ {0}
    BY <2>1 DEF IsProgram
  <2>3. QED
    BY <2>2
<1>4. frame \in S /\ frame.list = 1
  BY <1>2, <1>3 DEF StackTyped
<1> HIDE DEF S, frame
<1>5. lists' \in Seq(S) /\ Len(lists') = 1 /\ DOMAIN lists' = {1} /\ lists'[1] = frame
  BY <1>2, <1>4
<1>6. StackTyped' /\ lists' # <<>>
  BY <1>2, <1>5 DEF StackTyped, S
<1>7. AtFits'
  BY <1>2, <1>6, AtZero
<1>8. FunctionsMade'
  BY <1>2 DEF FunctionsMade, IsFunction
<1>9. StackFills'
  <2>1. FunctionOf(1)' = 0
    BY <1>2, <1>5 DEF FunctionOf
  <2>2. FrameFills(1)'
    BY <1>4, <1>5, <2>1 DEF FrameFills
  <2>3. DOMAIN functions' = {}
    BY <1>2
  <2>4. QED
    BY <1>5, <2>2, <2>3 DEF StackFills
<1>10. ObjectsMade'
  <2>1. ASSUME NEW i \in DOMAIN prog[1], NEW s \in DOMAIN symbols,
               symbols[s].decl = Key(1, i), IsFuncDecl(prog[1][i])
        PROVE  operand'[s] = Function(s)
    BY <1>1, <1>2, <2>1, ModuleObjects
  <2>2. operand' = [s \in DOMAIN symbols |-> operand'[s]]
    BY <1>2
  <2>3. QED
    BY <1>2, <1>4, <1>5, <2>1, <2>2 DEF ObjectsMade
<1>11. QED
  BY <1>1, <1>2, <1>6, <1>7, <1>8, <1>9, <1>10 DEF WalkInv

-----------------------------------------------------------------------------
(* The walk of the instructions.                                            *)

AreHeads(heads) == IsSeq(heads) /\ \A f \in DOMAIN heads : IsHead(heads[f])

(* What a step does to the LLVM functions: one may get other instructions, and *)
(* declarations may join them.                                              *)
HeadsGrow(f) ==
  /\ AreHeads(code') /\ DOMAIN code \subseteq DOMAIN code'
  /\ \A g \in DOMAIN code :
       code'[g].symbol = code[g].symbol /\ (g # f => code'[g].code = code[g].code)
  /\ \A g \in DOMAIN code' \ DOMAIN code : code'[g].symbol # <<>> /\ code'[g].code = <<>>

(* A function with other instructions.                                       *)
LEMMA HeadChanges ==
  ASSUME NEW there, AreHeads(there), NEW f \in DOMAIN there, NEW c, IsSeq(c),
         NEW after, after = [there EXCEPT ![f].code = c]
  PROVE  /\ AreHeads(after) /\ DOMAIN after = DOMAIN there
         /\ after[f].code = c
         /\ \A g \in DOMAIN there :
              after[g].symbol = there[g].symbol /\ (g # f => after[g].code = there[g].code)
<1> DEFINE was == there[f]
           is == [was EXCEPT !.code = c]
<1>1. was = [symbol |-> was.symbol, code |-> was.code] /\ IsSeq(there)
  BY DEF IsHead, AreHeads
<1>2. after = [there EXCEPT ![f] = is]
  OBVIOUS
<1>3. is.symbol = was.symbol /\ is.code = c /\ is = [symbol |-> is.symbol, code |-> is.code]
  <2> HIDE DEF was
  <2>1. QED
    BY <1>1
<1>4. IsHead(is)
  BY <1>3 DEF IsHead
<1> HIDE DEF is
<1>5. IsSeq(after) /\ DOMAIN after = DOMAIN there
  <2> DEFINE S == {there[g] : g \in DOMAIN there} \cup {is}
  <2>1. there \in Seq(S) /\ is \in S
    BY <1>1 DEF IsSeq
  <2> HIDE DEF S
  <2>2. after \in Seq(S) /\ DOMAIN after = DOMAIN there
    BY <1>2, <2>1
  <2>3. QED
    BY <2>2, SeqIsSeq
<1>6. after[f] = is /\ \A g \in DOMAIN there : g # f => after[g] = there[g]
  BY <1>2
<1>7. AreHeads(after)
  BY <1>4, <1>5, <1>6 DEF AreHeads
<1>8. \A g \in DOMAIN there :
        after[g].symbol = there[g].symbol /\ (g # f => after[g].code = there[g].code)
  BY <1>3, <1>6
<1>9. QED
  BY <1>3, <1>5, <1>6, <1>7, <1>8

(* A function more.                                                         *)
LEMMA HeadJoins ==
  ASSUME NEW there, AreHeads(there), NEW head, IsHead(head)
  PROVE  /\ AreHeads(Append(there, head))
         /\ DOMAIN Append(there, head) = DOMAIN there \cup {Len(there) + 1} /\ Len(there) + 1 \notin DOMAIN there
         /\ Append(there, head)[Len(there) + 1] = head /\ Len(Append(there, head)) = Len(there) + 1
         /\ \A g \in DOMAIN there : Append(there, head)[g] = there[g]
<1>1. /\ IsSeq(Append(there, head)) /\ Append(there, head)[Len(there) + 1] = head
      /\ DOMAIN Append(there, head) = DOMAIN there \cup {Len(there) + 1} /\ Len(there) + 1 \notin DOMAIN there
      /\ Len(Append(there, head)) = Len(there) + 1
      /\ \A g \in DOMAIN there : Append(there, head)[g] = there[g]
  BY AppendedSeq DEF AreHeads
<1>2. QED
  BY <1>1 DEF AreHeads

(* Heads as they are made.                                                   *)
LEMMA NewHead ==
  ASSUME NEW s
  PROVE  LET head == [symbol |-> s, code |-> <<>>]
         IN IsHead(head) /\ head.symbol = s /\ head.code = <<>>
BY DEF IsHead, IsSeq

(* A declaration.                                                           *)
LEMMA DeclaredHead ==
  ASSUME NEW s
  PROVE  IsHead(NewFunction(s)) /\ NewFunction(s).symbol = <<s>> /\ NewFunction(s).code = <<>>
BY NewHead DEF NewFunction

(* The steps of an instruction.                                             *)
LowerSteps == LowerVar \/ LowerStore \/ LowerAddrOf \/ LowerCall \/ LowerRet \/ LowerOperator

(* The function gets instructions that end it only if the instruction does.    *)
LEMMA InstructionLowers ==
  ASSUME AreHeads(code), Part \in DOMAIN code,
         IsSeq(InstructionHere.args), LowerSteps
  PROVE  /\ HeadsGrow(Part)
         /\ NoRet(code[Part].code) =>
              IF InstructionHere.op = "ret" THEN EndsOnce(code'[Part].code) ELSE NoRet(code'[Part].code)
<1> DEFINE here == InstructionHere
           was == code[Part].code
<1>1. IsSeq(was)
  BY DEF AreHeads, IsHead
<1>2. ASSUME NEW there, AreHeads(there),
             DOMAIN code \subseteq DOMAIN there, \A g \in DOMAIN code : there[g] = code[g],
             \A g \in DOMAIN there \ DOMAIN code : there[g].symbol # <<>> /\ there[g].code = <<>>,
             NEW c, IsSeq(c), code' = [there EXCEPT ![Part].code = c]
      PROVE  HeadsGrow(Part) /\ code'[Part].code = c
  <2> DEFINE f == Part
  <2>0. PICK after : after = code'
    OBVIOUS
  <2>1. f \in DOMAIN there /\ after = [there EXCEPT ![f].code = c]
    BY <1>2, <2>0
  <2> HIDE DEF f
  <2>2. /\ AreHeads(after) /\ DOMAIN after = DOMAIN there
        /\ after[f].code = c
        /\ \A g \in DOMAIN there :
             after[g].symbol = there[g].symbol /\ (g # f => after[g].code = there[g].code)
    <3>1. AreHeads(there) /\ IsSeq(c)
      BY <1>2
    <3>2. AreHeads(after)
      BY <2>1, <3>1, HeadChanges
    <3>3. DOMAIN after = DOMAIN there /\ after[f].code = c
      BY <2>1, <3>1, HeadChanges
    <3>4. \A g \in DOMAIN there : after[g].symbol = there[g].symbol
      BY <2>1, <3>1, HeadChanges
    <3>5. \A g \in DOMAIN there : g # f => after[g].code = there[g].code
      BY <2>1, <3>1, HeadChanges
    <3>6. QED
      BY <3>2, <3>3, <3>4, <3>5
  <2>3. QED
    BY <1>2, <2>0, <2>2 DEF HeadsGrow, f
<1>3. ASSUME NEW x, IsSeq(x), NEW there,
             AreHeads(there),
             DOMAIN code \subseteq DOMAIN there, \A g \in DOMAIN code : there[g] = code[g],
             \A g \in DOMAIN there \ DOMAIN code : there[g].symbol # <<>> /\ there[g].code = <<>>,
             code' = [there EXCEPT ![Part].code = @ \o x],
             IF here.op = "ret" THEN EndsOnce(x) ELSE NoRet(x)
      PROVE  /\ HeadsGrow(Part)
             /\ NoRet(was) =>
                  IF here.op = "ret" THEN EndsOnce(code'[Part].code) ELSE NoRet(code'[Part].code)
  <2>1. there[Part].code = was
    BY <1>3
  <2>2. code' = [there EXCEPT ![Part].code = was \o x]
    BY <1>3, <2>1
  <2>3. IsSeq(was \o x)
    BY <1>1, <1>3, JoinedSeq
  <2>4. HeadsGrow(Part) /\ code'[Part].code = was \o x
    BY <1>2, <1>3, <2>2, <2>3
  <2>5. NoRet(was) => (NoRet(x) => NoRet(was \o x)) /\ (EndsOnce(x) => EndsOnce(was \o x))
    BY <1>1, <1>3, JoinedBody
  <2>6. QED
    BY <1>3, <2>4, <2>5
<1>4. \A g \in DOMAIN code \ DOMAIN code : code[g].symbol # <<>> /\ code[g].code = <<>>
  OBVIOUS
<1>5. CASE LowerVar
  <2> DEFINE c == Append(was, Code("alloca", <<>>))
  <2>1. code' = [code EXCEPT ![Part].code = c] /\ here.op # "ret"
    BY <1>5 DEF LowerVar
  <2>2. Code("alloca", <<>>).op # "ret"
    BY DEF Code
  <2>3. IsSeq(c) /\ (NoRet(was) => NoRet(c))
    BY <1>1, <2>2, AppendedSeq, AppendedBody
  <2> HIDE DEF c
  <2>4. HeadsGrow(Part) /\ code'[Part].code = c
    BY <1>2, <1>4, <2>1, <2>3
  <2>5. QED
    BY <2>1, <2>3, <2>4
<1>6. CASE LowerStore
  <2> DEFINE src == <<here.args[1]>>
             values == Append(Values(src, Part), Lowered(here.args[2]))
             x == Append(Loads(src), Code("store", values))
  <2>1. code' = [code EXCEPT ![Part].code = @ \o x] /\ here.op # "ret"
    BY <1>6 DEF LowerStore
  <2>2. IsSeq(src)
    <3>1. src \in Seq({here.args[1]})
      OBVIOUS
    <3>2. QED
      BY <3>1, SeqIsSeq
  <2> HIDE DEF src, values
  <2>3. IsSeq(x) /\ NoRet(x)
    BY <2>2, InstructionBody
  <2> HIDE DEF x
  <2>4. QED
    BY <1>3, <1>4, <2>1, <2>3
<1>7. CASE LowerAddrOf
  <2>1. code' = code /\ here.op # "ret"
    BY <1>7 DEF LowerAddrOf
  <2>2. QED
    BY <2>1 DEF HeadsGrow
<1>8. CASE LowerCall
  <2> DEFINE callee == here.args[1]
             args == SubSeq(here.args, 2, Len(here.args))
             there == IF callee \in DOMAIN llvm THEN code ELSE Append(code, NewFunction(callee.symbol))
             f == IF callee \in DOMAIN llvm THEN llvm[callee] ELSE LlvmFunction(Len(code) + 1)
             values == <<f>> \o Values(args, Part)
             x == Append(Loads(args), Code("call", values))
  <2>1. code' = [there EXCEPT ![Part].code = @ \o x] /\ here.op # "ret"
    BY <1>8 DEF LowerCall
  <2>2. IsSeq(args)
    <3>1. Len(here.args) \in Int
      BY SeqFacts
    <3>2. QED
      BY <3>1, PartIsSeq
  <2> HIDE DEF values
  <2>3. IsSeq(x) /\ NoRet(x)
    <3> HIDE DEF args
    <3>1. QED
      BY <2>2, InstructionBody
  <2>4. /\ AreHeads(there)
        /\ DOMAIN code \subseteq DOMAIN there /\ \A g \in DOMAIN code : there[g] = code[g]
        /\ \A g \in DOMAIN there \ DOMAIN code : there[g].symbol # <<>> /\ there[g].code = <<>>
    <3>1. CASE callee \in DOMAIN llvm
      BY <1>4, <3>1
    <3>2. CASE callee \notin DOMAIN llvm
      <4> DEFINE head == NewFunction(callee.symbol)
                 s == callee.symbol
      <4>1. IsHead(head) /\ head.symbol = <<s>> /\ head.code = <<>>
        BY DeclaredHead
      <4>2. <<s>> # <<>>
        OBVIOUS
      <4>3. there = Append(code, head)
        BY <3>2
      <4> HIDE DEF head, there, s
      <4>4. AreHeads(there)
        BY <4>1, <4>3, HeadJoins
      <4>5. DOMAIN there = DOMAIN code \cup {Len(code) + 1}
        BY <4>1, <4>3, HeadJoins
      <4>6. \A g \in DOMAIN code : there[g] = code[g]
        BY <4>1, <4>3, HeadJoins
      <4>7. there[Len(code) + 1] = head
        BY <4>1, <4>3, HeadJoins
      <4>8. QED
        BY <4>1, <4>2, <4>4, <4>5, <4>6, <4>7
    <3>3. QED
      BY <3>1, <3>2
  <2> HIDE DEF x, there
  <2>5. QED
    BY <1>3, <2>1, <2>3, <2>4
<1>9. CASE LowerRet
  <2> DEFINE args == here.args
             falls == args = <<>> /\ DeclOf(prog, symbols[functions[lowered[1]].symbol].decl).returns
             values == IF falls THEN <<Constant>> ELSE Values(args, Part)
             x == Append(Loads(args), Code("ret", values))
  <2>1. code' = [code EXCEPT ![Part].code = @ \o x] /\ here.op = "ret"
    BY <1>9 DEF LowerRet
  <2> HIDE DEF values
  <2>2. IsSeq(x) /\ EndsOnce(x)
    BY InstructionBody
  <2> HIDE DEF x
  <2>3. QED
    BY <1>3, <1>4, <2>1, <2>2
<1>10. CASE LowerOperator
  <2> DEFINE args == here.args
             values == Values(args, Part)
             op == here.op
             x == Append(Loads(args), Code(op, values))
  <2>1. code' = [code EXCEPT ![Part].code = @ \o x] /\ op # "ret"
    BY <1>10 DEF LowerOperator
  <2> HIDE DEF values
  <2>2. IsSeq(x) /\ NoRet(x)
    <3> HIDE DEF op
    <3>1. QED
      BY <2>1, InstructionBody
  <2> HIDE DEF x
  <2>3. QED
    BY <1>3, <1>4, <2>1, <2>2
<1>11. QED
  BY <1>5, <1>6, <1>7, <1>8, <1>9, <1>10 DEF LowerSteps

(* What the functions of the IR are when the walk of the tree is over.         *)
LEMMA WalkOver ==
  ASSUME WalkInv, stage # "ir"
  PROVE  /\ IsSeq(functions) /\ DOMAIN functions = 1 .. Len(functions) /\ Len(functions) \in Nat
         /\ IsBody(globalInit) /\ NoRet(globalInit)
         /\ \A f \in DOMAIN functions :
              /\ IsSeq(functions[f].params) /\ IsBody(functions[f].body)
              /\ IsSeq(functions[f].body) /\ Len(functions[f].body) \in Nat
              /\ DOMAIN functions[f].body = 1 .. Len(functions[f].body)
              /\ Wholly(ListOf(functions[f]), functions[f].body)
<1>1. lists = <<>> /\ StackFills /\ FunctionsMade
  BY DEF WalkInv
<1>2. DOMAIN lists = {}
  BY <1>1
<1>3. \A f \in DOMAIN functions : Wholly(ListOf(functions[f]), functions[f].body)
  BY <1>1, <1>2 DEF StackFills
<1>4. \A f \in DOMAIN functions : IsSeq(functions[f].params) /\ IsBody(functions[f].body)
  BY <1>1 DEF FunctionsMade, IsFunction
<1>5. IsSeq(functions) /\ DOMAIN functions = 1 .. Len(functions) /\ Len(functions) \in Nat
      /\ IsBody(globalInit) /\ NoRet(globalInit)
  BY <1>1, SeqFacts DEF FunctionsMade
<1>6. \A f \in DOMAIN functions :
        IsSeq(functions[f].body) /\ Len(functions[f].body) \in Nat
          /\ DOMAIN functions[f].body = 1 .. Len(functions[f].body)
  BY <1>4, SeqFacts DEF IsBody
<1>7. QED
  BY <1>3, <1>4, <1>5, <1>6

(* The walk of the tree stays over.                                          *)
LEMMA WalkStays ==
  ASSUME WalkInv, UNCHANGED <<semaVars, irVars>>,
         stage \notin {"sema", "ir"}, stage' \notin {"sema", "ir"}
  PROVE  WalkInv'
<1>1. /\ UNCHANGED <<prog, symbols, functions, globalInit, lists, at, operands, function, tempCounter>>
      /\ lists = <<>>
  BY DEF semaVars, irVars, WalkInv
<1>2. StackTyped'
  BY <1>1 DEF WalkInv, StackTyped
<1>3. FunctionsMade'
  BY <1>1 DEF WalkInv, FunctionsMade, IsFunction
<1>4. StackFills'
  <2>1. DOMAIN lists = {}
    BY <1>1
  <2>2. ASSUME NEW f \in DOMAIN functions PROVE Wholly(ListOf(functions[f]), functions[f].body)'
    <3>1. Wholly(ListOf(functions[f]), functions[f].body)
      BY <2>1 DEF WalkInv, StackFills
    <3>2. ListOf(functions[f])' = ListOf(functions[f])
      BY <1>1 DEF ListOf
    <3>3. Trailing(ListOf(functions[f]))' <=> Trailing(ListOf(functions[f]))
      BY <1>1, <3>2 DEF Trailing
    <3>4. EndsOnce(functions[f].body)' <=> EndsOnce(functions[f].body)
      BY <1>1 DEF EndsOnce
    <3>5. QED
      BY <3>1, <3>3, <3>4 DEF Wholly
  <2>3. QED
    BY <1>1, <2>1, <2>2 DEF StackFills
<1>5. QED
  BY <1>1, <1>2, <1>3, <1>4 DEF WalkInv

(* Before a function is declared.                                            *)
LEMMA NoHeads ==
  /\ code = <<>> /\ lowered \in Nat \X Nat => HeadsMade
  /\ code' = <<>> /\ lowered' \in Nat \X Nat => HeadsMade'
<1>1. IsSeq(<<>>) /\ DOMAIN <<>> = {}
  BY DEF IsSeq
<1>2. QED
  BY <1>1 DEF HeadsMade

(* A function keeps what was done of it.                                     *)
LEMMA ConvertedStays ==
  ASSUME NEW f \in DOMAIN functions, UNCHANGED <<prog, symbols, functions>>,
         code'[f].code = code[f].code
  PROVE  /\ Converted(f)' <=> Converted(f)
         /\ \A n : Converting(f, n)' <=> Converting(f, n)
<1>1. ListOf(functions[f])' = ListOf(functions[f])
  BY DEF ListOf
<1>2. Trailing(ListOf(functions[f]))' <=> Trailing(ListOf(functions[f]))
  BY <1>1 DEF Trailing
<1>3. EndsOnce(code[f].code)' <=> EndsOnce(code[f].code)
  BY DEF EndsOnce
<1>4. NoRet(code[f].code)' <=> NoRet(code[f].code)
  BY DEF NoRet
<1>5. Converted(f)' <=> Converted(f)
  BY <1>2, <1>3 DEF Converted, Wholly
<1>6. \A n : Converting(f, n)' <=> Converting(f, n)
  BY <1>2, <1>3, <1>4 DEF Converting, Copied
<1>7. QED
  BY <1>5, <1>6

(* All of a function's instructions.                                         *)
LEMMA ConvertedAll ==
  ASSUME NEW f \in DOMAIN functions, Converting(f, Len(functions[f].body))
  PROVE  Converted(f)
BY DEF Converting, Converted, Copied, Wholly

(* The steps before the instructions.                                        *)
LEMMA FirstKeeps ==
  ASSUME WalkInv, CodeInv, LowerGlobal \/ DeclareFunctions
  PROVE  CodeInv' /\ WalkInv' /\ UNCHANGED semaVars /\ stage' \in {"globals", "functions"}
<1>1. stage = "globals" /\ code = <<>> /\ lowered \in Nat \X Nat
  BY DEF LowerGlobal, DeclareFunctions, CodeInv, HeadsMade
<1>2. lowered[1] \in Nat
  BY <1>1
<1>3. /\ UNCHANGED <<semaVars, irVars, code>> /\ lowered' \in Nat \X Nat
      /\ stage' = "globals" \/ (stage' = "functions" /\ lowered' = <<0, 0>>)
  BY <1>1, <1>2 DEF LowerGlobal, DeclareFunctions
<1>4. stage' \in {"globals", "functions"} /\ stage' \notin {"sema", "ir"} /\ stage \notin {"sema", "ir"}
  BY <1>1, <1>3
<1>5. WalkInv'
  BY <1>3, <1>4, WalkStays
<1>6. HeadsMade'
  BY <1>1, <1>3, NoHeads
<1>7. Len(functions) \in Nat /\ functions' = functions
  BY <1>1, <1>3, WalkOver DEF irVars
<1>8. stage' = "functions" => Len(code') = lowered'[1] /\ lowered'[1] <= Len(functions')
  BY <1>1, <1>3, <1>7
<1>9. CodeInv'
  BY <1>1, <1>3, <1>4, <1>6, <1>8 DEF CodeInv
<1>10. QED
  BY <1>3, <1>4, <1>5, <1>9

(* The functions' declarations.                                              *)
LEMMA DeclareKeeps ==
  ASSUME WalkInv, CodeInv, DeclareFunction
  PROVE  CodeInv' /\ WalkInv' /\ UNCHANGED semaVars /\ stage' = "functions"
<1> DEFINE new == lowered[1] + 1
           head == NewFunction(functions[new].symbol)
<1>1. stage = "functions" /\ HeadsMade /\ Len(code) = lowered[1] /\ lowered[1] <= Len(functions)
      /\ lowered[1] < Len(functions)
  BY DEF DeclareFunction, CodeInv
<1>2. UNCHANGED <<semaVars, stage, irVars>> /\ code' = Append(code, head) /\ lowered' = <<new, 0>>
  BY DEF DeclareFunction
<1>3. WalkInv' /\ UNCHANGED functions
  BY <1>1, <1>2, WalkStays DEF irVars
<1>4. DOMAIN functions = 1 .. Len(functions) /\ Len(functions) \in Nat
  BY <1>1, WalkOver
<1>5. lowered[1] \in Nat /\ new \in Nat /\ new \in DOMAIN functions /\ new <= Len(functions)
  BY <1>1, <1>4 DEF HeadsMade
<1>6. IsHead(head) /\ head.symbol = <<functions[new].symbol>> /\ head.code = <<>>
  BY DeclaredHead
<1>7. AreHeads(code)
  BY <1>1 DEF HeadsMade, AreHeads
<1> HIDE DEF head
<1>8. /\ AreHeads(code') /\ DOMAIN code' = DOMAIN code \cup {new} /\ code'[new] = head /\ Len(code') = new
      /\ \A g \in DOMAIN code : code'[g] = code[g]
  BY <1>1, <1>2, <1>6, <1>7, HeadJoins
<1> HIDE DEF new
<1>9. HeadsMade'
  <2>1. lowered' \in Nat \X Nat
    BY <1>2, <1>5
  <2>2. ASSUME NEW f \in DOMAIN code'
        PROVE  IF f \in DOMAIN functions THEN code'[f].symbol = <<functions[f].symbol>>
               ELSE code'[f].symbol = <<>> \/ code'[f].code = <<>>
    <3>1. CASE f = new
      BY <1>5, <1>6, <1>8, <3>1
    <3>2. CASE f \in DOMAIN code
      BY <1>1, <1>8, <3>2 DEF HeadsMade
    <3>3. QED
      BY <1>8, <3>1, <3>2
  <2>3. QED
    BY <1>3, <1>8, <2>1, <2>2 DEF HeadsMade, AreHeads
<1>10. Len(code') = lowered'[1] /\ lowered'[1] <= Len(functions') /\ stage' = "functions"
  BY <1>1, <1>2, <1>3, <1>5, <1>8
<1>11. CodeInv'
  BY <1>9, <1>10 DEF CodeInv
<1>12. QED
  BY <1>2, <1>3, <1>10, <1>11

(* All are declared.                                                        *)
LEMMA BodiesBegin ==
  ASSUME WalkInv, CodeInv, LowerFunctions
  PROVE  CodeInv' /\ WalkInv' /\ UNCHANGED semaVars /\ stage' = "bodies"
<1>1. stage = "functions" /\ HeadsMade /\ Len(code) = Len(functions)
  BY DEF LowerFunctions, CodeInv
<1>2. UNCHANGED <<semaVars, irVars, code>> /\ stage' = "bodies" /\ lowered' = <<0, 0>>
  BY DEF LowerFunctions
<1>3. WalkInv' /\ UNCHANGED functions
  BY <1>1, <1>2, WalkStays DEF irVars
<1>4. DOMAIN functions = 1 .. Len(functions) /\ Len(functions) \in Nat
  BY <1>1, WalkOver
<1>5. DOMAIN code = DOMAIN functions
  BY <1>1, <1>4, SeqFacts DEF HeadsMade
<1>6. HeadsMade'
  BY <1>1, <1>2, <1>3 DEF HeadsMade
<1>7. NoEntry'
  <2>1. \A f \in DOMAIN code : code[f].symbol = <<functions[f].symbol>>
    BY <1>1, <1>5 DEF HeadsMade
  <2>2. \A s : <<s>> # <<>>
    OBVIOUS
  <2>3. QED
    BY <1>2, <2>1, <2>2 DEF NoEntry
<1>8. lowered'[1] = 0 /\ \A f \in DOMAIN functions : ~(f < 0) /\ f # 0
  BY <1>2, <1>4
<1>9. CodeInv'
  BY <1>2, <1>3, <1>4, <1>5, <1>6, <1>7, <1>8 DEF CodeInv
<1>10. QED
  BY <1>2, <1>3, <1>9

(* The function whose instructions are lowered.                              *)
LEMMA PartFacts ==
  ASSUME WalkInv, CodeInv, Pending
  PROVE  /\ Part \in DOMAIN code /\ AreHeads(code) /\ IsSeq(InstructionHere.args)
         /\ lowered[1] \in Nat /\ lowered[2] \in Nat /\ stage \in {"bodies", "main"}
         /\ stage = "bodies" =>
              /\ Part \in DOMAIN functions /\ Part = lowered[1]
              /\ lowered[2] < Len(functions[Part].body)
              /\ InstructionHere = functions[Part].body[lowered[2] + 1]
         /\ stage = "main" => InstructionHere.op # "ret" /\ Part = Entry
<1>1. stage \in {"bodies", "main"} /\ lowered \in Nat \X Nat /\ AreHeads(code)
  BY DEF Pending, CodeInv, HeadsMade, AreHeads
<1>2. lowered[1] \in Nat /\ lowered[2] \in Nat /\ lowered[2] < Len(Body(lowered[1]))
  BY <1>1 DEF Pending
<1> DEFINE n == lowered[2]
           body == Body(lowered[1])
<1>3. ASSUME IsBody(body) PROVE IsSeq(InstructionHere.args) /\ n + 1 \in DOMAIN body
  <2>1. IsSeq(body)
    BY <1>3 DEF IsBody
  <2>2. Len(body) \in Nat /\ DOMAIN body = 1 .. Len(body)
    BY <2>1, SeqFacts
  <2> HIDE DEF n, body
  <2>3. n + 1 \in DOMAIN body
    BY <1>2, <2>2 DEF n, body
  <2>4. QED
    BY <1>3, <2>3 DEF InstructionHere, IsBody, n, body
<1>4. CASE stage = "bodies"
  <2>1. lowered[1] # 0 /\ lowered[1] <= Len(functions) /\ DOMAIN functions \subseteq DOMAIN code
    BY <1>4 DEF Pending, CodeInv
  <2>2. DOMAIN functions = 1 .. Len(functions) /\ Len(functions) \in Nat
    BY <1>4, WalkOver
  <2>3. lowered[1] \in DOMAIN functions
    BY <1>2, <2>1, <2>2
  <2>4. Part = lowered[1] /\ body = functions[lowered[1]].body
    BY <1>4, <2>1 DEF Part, Body
  <2>5. IsBody(body)
    BY <1>4, <2>3, <2>4, WalkOver
  <2>6. QED
    BY <1>1, <1>2, <1>3, <1>4, <2>1, <2>3, <2>4, <2>5 DEF InstructionHere
<1>5. CASE stage = "main"
  <2>1. lowered[1] = 0 /\ OneEntry
    BY <1>5 DEF CodeInv
  <2>2. body = globalInit /\ IsBody(globalInit) /\ NoRet(globalInit) /\ Part = Entry
    BY <1>5, <2>1, WalkOver DEF Body, Part
  <2>3. InstructionHere.op # "ret"
    BY <1>3, <2>1, <2>2 DEF NoRet, InstructionHere
  <2>4. Entry \in DOMAIN code
    BY <2>1 DEF OneEntry, Entry
  <2>5. QED
    BY <1>1, <1>2, <1>3, <1>5, <2>2, <2>3, <2>4
<1>6. QED
  BY <1>1, <1>4, <1>5

(* Other functions get instructions, none becomes another's.                  *)
LEMMA GrowsMade ==
  ASSUME WalkInv, stage # "ir", HeadsMade, UNCHANGED functions, lowered' \in Nat \X Nat,
         NEW f, HeadsGrow(f), DOMAIN functions \subseteq DOMAIN code,
         f \notin DOMAIN functions => code[f].symbol = <<>>
  PROVE  HeadsMade' /\ DOMAIN functions' \subseteq DOMAIN code'
<1>1. /\ AreHeads(code') /\ DOMAIN code \subseteq DOMAIN code'
      /\ \A g \in DOMAIN code :
           code'[g].symbol = code[g].symbol /\ (g # f => code'[g].code = code[g].code)
      /\ \A g \in DOMAIN code' \ DOMAIN code : code'[g].symbol # <<>> /\ code'[g].code = <<>>
  BY DEF HeadsGrow
<1>2. ASSUME NEW g \in DOMAIN code'
      PROVE  IF g \in DOMAIN functions THEN code'[g].symbol = <<functions[g].symbol>>
             ELSE code'[g].symbol = <<>> \/ code'[g].code = <<>>
  <2>1. CASE g \in DOMAIN code
    BY <1>1, <2>1 DEF HeadsMade
  <2>2. CASE g \notin DOMAIN code
    BY <1>1, <2>2
  <2>3. QED
    BY <2>1, <2>2
<1>3. QED
  BY <1>1, <1>2 DEF HeadsMade, AreHeads

(* The program's main is the same.                                           *)
LEMMA EntryStays ==
  ASSUME OneEntry, UNCHANGED functions, NEW f, HeadsGrow(f)
  PROVE  OneEntry' /\ Entry' = Entry /\ Entry \in DOMAIN code \ DOMAIN functions /\ code[Entry].symbol = <<>>
<1>1. PICK e \in DOMAIN code \ DOMAIN functions : \A g \in DOMAIN code : code[g].symbol = <<>> <=> g = e
  BY DEF OneEntry
<1>2. Entry = e
  BY <1>1 DEF Entry
<1>3. e \in DOMAIN code' /\ \A g \in DOMAIN code' : code'[g].symbol = <<>> <=> g = e
  BY <1>1 DEF HeadsGrow
<1>4. Entry' = e
  BY <1>3 DEF Entry
<1>5. OneEntry'
  BY <1>1, <1>3 DEF OneEntry
<1>6. QED
  BY <1>1, <1>2, <1>4, <1>5

(* An instruction is lowered.                                                *)
LEMMA LowerKeeps ==
  ASSUME WalkInv, CodeInv, LowerSteps
  PROVE  CodeInv' /\ WalkInv' /\ UNCHANGED semaVars /\ stage' = stage /\ stage \in {"bodies", "main"}
<1>1. Pending /\ UNCHANGED <<semaVars, stage, irVars>> /\ lowered' = [lowered EXCEPT ![2] = @ + 1]
  BY DEF LowerSteps, LowerVar, LowerStore, LowerAddrOf, LowerCall, LowerRet, LowerOperator
<1>2. /\ Part \in DOMAIN code /\ AreHeads(code) /\ IsSeq(InstructionHere.args)
      /\ lowered[1] \in Nat /\ lowered[2] \in Nat /\ stage \in {"bodies", "main"}
      /\ stage = "bodies" =>
           /\ Part \in DOMAIN functions /\ Part = lowered[1]
           /\ lowered[2] < Len(functions[Part].body)
           /\ InstructionHere = functions[Part].body[lowered[2] + 1]
      /\ stage = "main" => InstructionHere.op # "ret" /\ Part = Entry
  BY <1>1, PartFacts
<1>3. /\ HeadsGrow(Part)
      /\ NoRet(code[Part].code) =>
           IF InstructionHere.op = "ret" THEN EndsOnce(code'[Part].code) ELSE NoRet(code'[Part].code)
  BY <1>2, InstructionLowers
<1>4. WalkInv' /\ UNCHANGED <<prog, symbols, functions>>
  BY <1>1, <1>2, WalkStays DEF irVars, semaVars
<1>5. lowered' \in Nat \X Nat /\ lowered'[1] = lowered[1] /\ lowered'[2] = lowered[2] + 1
  <2>1. lowered \in Nat \X Nat
    BY DEF CodeInv, HeadsMade
  <2>2. QED
    BY <1>1, <2>1
<1>6. HeadsMade /\ DOMAIN functions \subseteq DOMAIN code
  BY <1>2 DEF CodeInv
<1>7. CASE stage = "bodies"
  <2> DEFINE p == Part
             n == lowered[2]
             body == functions[p].body
             l == ListOf(functions[p])
  <2>1. HeadsMade' /\ DOMAIN functions' \subseteq DOMAIN code'
    BY <1>2, <1>3, <1>4, <1>5, <1>6, <1>7, GrowsMade
  <2>2. NoEntry'
    BY <1>3, <1>7 DEF CodeInv, NoEntry, HeadsGrow
  <2>3. \A f \in DOMAIN functions : f # p => code'[f].code = code[f].code
    BY <1>3, <1>6 DEF HeadsGrow
  <2>4. \A f \in DOMAIN functions : f < lowered[1] => Converted(f)'
    <3>1. SUFFICES ASSUME NEW f \in DOMAIN functions, f < lowered[1] PROVE Converted(f)'
      OBVIOUS
    <3>2. f # p
      BY <1>2, <1>7, <3>1
    <3>3. Converted(f)
      BY <1>7, <3>1 DEF CodeInv
    <3>4. QED
      BY <1>4, <2>3, <3>2, <3>3, ConvertedStays
  <2>5. n < Len(body) /\ InstructionHere = body[n + 1] /\ Converting(p, n) /\ p \in DOMAIN functions /\ n \in Nat
    BY <1>2, <1>7 DEF CodeInv
  <2>6. Len(body) \in Nat /\ DOMAIN body = 1 .. Len(body) /\ Wholly(l, body)
    BY <1>7, <2>5, WalkOver
  <2>7. n + 1 <= Len(body) /\ n + 1 \in DOMAIN body /\ n # Len(body)
    <3> DEFINE m == Len(body)
    <3>1. n \in Nat /\ m \in Nat /\ n < m /\ DOMAIN body = 1 .. m
      BY <2>5, <2>6
    <3> HIDE DEF n, body, m
    <3>2. n + 1 <= m /\ n + 1 \in 1 .. m /\ n # m
      BY <3>1
    <3>3. QED
      BY <3>1, <3>2 DEF m
  <2>8. ASSUME Trailing(l)
        PROVE  IF n + 1 = Len(body) THEN EndsOnce(code'[p].code) ELSE NoRet(code'[p].code)
    <3>1. NoRet(code[p].code)
      BY <2>5, <2>7, <2>8 DEF Converting, Copied
    <3>2. EndsOnce(body)
      BY <2>6, <2>8 DEF Wholly
    <3>3. InstructionHere.op = "ret" <=> n + 1 = Len(body)
      BY <2>5, <2>7, <3>2 DEF EndsOnce
    <3>4. QED
      BY <1>3, <3>1, <3>3
  <2>9. lowered'[2] = n + 1 /\ lowered'[1] = p
    BY <1>2, <1>5, <1>7
  <2>10. \A f \in DOMAIN functions : f = lowered'[1] => Converting(f, lowered[2])'
    <3>1. SUFFICES ASSUME NEW f \in DOMAIN functions, f = lowered'[1] PROVE Converting(f, lowered[2])'
      OBVIOUS
    <3>2. f = p
      BY <2>9, <3>1
    <3>3. ListOf(functions[f])' = l /\ functions'[f].body = body
      BY <1>4, <3>2 DEF ListOf
    <3>4. Trailing(ListOf(functions[f]))' <=> Trailing(l)
      BY <1>4, <3>3 DEF Trailing
    <3>5. code'[f].code = code'[p].code
      BY <3>2
    <3> HIDE DEF p, n, body, l
    <3>6. Copied(ListOf(functions[f]), functions[f].body, code[f].code, lowered[2])'
      BY <2>8, <2>9, <3>3, <3>4, <3>5 DEF Copied, EndsOnce, NoRet
    <3>7. QED
      BY <2>7, <2>9, <3>3, <3>6 DEF Converting
  <2>11. stage' = "bodies" /\ lowered'[1] <= Len(functions')
    BY <1>1, <1>4, <1>5, <1>7 DEF CodeInv
  <2>12. \A f \in DOMAIN functions' :
           /\ f < lowered'[1] => Converted(f)'
           /\ f = lowered'[1] => Converting(f, lowered[2])'
    BY <1>4, <1>5, <2>4, <2>10
  <2>13. CodeInv'
    BY <2>1, <2>2, <2>11, <2>12 DEF CodeInv
  <2>14. QED
    BY <1>1, <1>2, <1>4, <2>13
<1>8. CASE stage = "main"
  <2>1. OneEntry /\ NoRet(code[Entry].code) /\ lowered[1] = 0 /\ \A f \in DOMAIN functions : Converted(f)
    BY <1>8 DEF CodeInv
  <2>2. Part = Entry /\ InstructionHere.op # "ret"
    BY <1>2, <1>8
  <2>3. OneEntry' /\ Entry' = Entry /\ Entry \in DOMAIN code \ DOMAIN functions /\ code[Entry].symbol = <<>>
    BY <1>3, <1>4, <2>1, EntryStays
  <2>4. HeadsMade' /\ DOMAIN functions' \subseteq DOMAIN code'
    BY <1>2, <1>3, <1>4, <1>5, <1>6, <2>2, <2>3, GrowsMade
  <2>5. NoRet(code[Entry].code)'
    <3>1. NoRet(code'[Entry].code)
      BY <1>3, <2>1, <2>2
    <3>2. QED
      BY <2>3, <3>1 DEF NoRet
  <2>6. \A f \in DOMAIN functions : code'[f].code = code[f].code
    BY <1>3, <1>6, <2>2, <2>3 DEF HeadsGrow
  <2>7. \A f \in DOMAIN functions' : Converted(f)'
    BY <1>4, <2>1, <2>6, ConvertedStays
  <2>8. stage' = "main" /\ lowered'[1] = 0
    BY <1>1, <1>5, <1>8, <2>1
  <2>9. CodeInv'
    BY <2>3, <2>4, <2>5, <2>7, <2>8 DEF CodeInv
  <2>10. QED
    BY <1>1, <1>2, <1>4, <2>9
<1>9. QED
  BY <1>2, <1>7, <1>8

(* The instructions that store a function's arguments.                        *)
LEMMA BoundBody ==
  ASSUME NEW f, NEW m \in Nat
  PROVE  LET c == [i \in 1 .. 2 * m |->
                     IF i % 2 = 1 THEN Code("alloca", <<>>)
                     ELSE Code("store", <<Argument(f, i \div 2), Result(f, i - 1)>>)]
         IN IsSeq(c) /\ NoRet(c)
<1> DEFINE n == 2 * m
           c == [i \in 1 .. n |->
                   IF i % 2 = 1 THEN Code("alloca", <<>>)
                   ELSE Code("store", <<Argument(f, i \div 2), Result(f, i - 1)>>)]
<1>1. n \in Nat
  OBVIOUS
<1>2. \A a, b : Code(a, b).op = a
  BY DEF Code
<1> HIDE DEF n
<1>3. DOMAIN c = 1 .. n /\ c = [i \in 1 .. n |-> c[i]] /\ \A i \in 1 .. n : c[i].op # "ret"
  BY <1>2
<1> HIDE DEF c
<1>4. IsSeq(c) /\ NoRet(c)
  BY <1>1, <1>3, FunctionIsSeq DEF NoRet
<1>5. QED
  BY <1>4 DEF c, n

(* What is done when a part is.                                              *)
LEMMA PartsDone ==
  ASSUME WalkInv, CodeInv, stage = "bodies", PartDone
  PROVE  /\ lowered[1] \in Nat
         /\ \A f \in DOMAIN functions : f <= lowered[1] => Converted(f)
<1>1. lowered[1] \in Nat /\ \A f \in DOMAIN functions :
        /\ f < lowered[1] => Converted(f)
        /\ f = lowered[1] => Converting(f, lowered[2])
  BY DEF CodeInv, HeadsMade
<1>2. DOMAIN functions = 1 .. Len(functions) /\ Len(functions) \in Nat
  BY WalkOver
<1>3. ASSUME NEW f \in DOMAIN functions, f = lowered[1] PROVE Converted(f)
  <2>1. lowered[1] # 0
    BY <1>2, <1>3
  <2>2. lowered[2] = Len(functions[f].body)
    BY <1>3, <2>1 DEF PartDone
  <2>3. QED
    BY <1>1, <1>3, <2>2, ConvertedAll
<1>4. \A f \in DOMAIN functions : f <= lowered[1] => f < lowered[1] \/ f = lowered[1]
  BY <1>1, <1>2
<1>5. QED
  BY <1>1, <1>3, <1>4

(* A function's parameters.                                                  *)
LEMMA BindKeeps ==
  ASSUME WalkInv, CodeInv, BindParameters
  PROVE  CodeInv' /\ WalkInv' /\ UNCHANGED semaVars /\ stage' = "bodies"
<1>1. stage = "bodies" /\ lowered[1] < Len(functions) /\ PartDone
      /\ HeadsMade /\ NoEntry /\ DOMAIN functions \subseteq DOMAIN code
  BY DEF BindParameters, CodeInv
<1>2. lowered[1] \in Nat /\ \A f \in DOMAIN functions : f <= lowered[1] => Converted(f)
  BY <1>1, PartsDone
<1>3. DOMAIN functions = 1 .. Len(functions) /\ Len(functions) \in Nat
  BY <1>1, WalkOver
<1>4. PICK p : p = lowered[1] + 1
  OBVIOUS
<1>5. p \in DOMAIN functions /\ p \in Nat /\ p <= Len(functions) /\ \A f \in DOMAIN functions : f < p => f <= lowered[1]
  BY <1>1, <1>2, <1>3, <1>4
<1> DEFINE params == functions[p].params
           m == Len(params)
           c == [i \in 1 .. 2 * m |->
                   IF i % 2 = 1 THEN Code("alloca", <<>>)
                   ELSE Code("store", <<Argument(p, i \div 2), Result(p, i - 1)>>)]
<1>6. UNCHANGED <<semaVars, stage, irVars>> /\ code' = [code EXCEPT ![p].code = c] /\ lowered' = <<p, 0>>
  BY <1>4 DEF BindParameters
<1>7. m \in Nat
  BY <1>1, <1>5, WalkOver, SeqFacts
<1> HIDE DEF m
<1>8. IsSeq(c) /\ NoRet(c)
  BY <1>7, BoundBody
<1> HIDE DEF c
<1>9. AreHeads(code) /\ p \in DOMAIN code
  BY <1>1, <1>5 DEF HeadsMade, AreHeads
<1>10. PICK after : after = code'
  OBVIOUS
<1>11. after = [code EXCEPT ![p].code = c]
  BY <1>6, <1>10
<1>12. AreHeads(after) /\ DOMAIN after = DOMAIN code /\ after[p].code = c
  <2>1. AreHeads(after)
    BY <1>8, <1>9, <1>11, HeadChanges
  <2>2. DOMAIN after = DOMAIN code /\ after[p].code = c
    BY <1>8, <1>9, <1>11, HeadChanges
  <2>3. QED
    BY <2>1, <2>2
<1>13. \A g \in DOMAIN code : after[g].symbol = code[g].symbol
  BY <1>8, <1>9, <1>11, HeadChanges
<1>14. \A g \in DOMAIN code : g # p => after[g].code = code[g].code
  BY <1>8, <1>9, <1>11, HeadChanges
<1>15. HeadsGrow(p)
  BY <1>10, <1>12, <1>13, <1>14 DEF HeadsGrow
<1>16. WalkInv' /\ UNCHANGED <<prog, symbols, functions>>
  BY <1>1, <1>6, WalkStays DEF irVars, semaVars
<1>17. lowered' \in Nat \X Nat /\ lowered'[1] = p /\ lowered'[2] = 0
  BY <1>5, <1>6
<1>18. HeadsMade' /\ DOMAIN functions' \subseteq DOMAIN code'
  BY <1>1, <1>5, <1>15, <1>16, <1>17, GrowsMade
<1>19. NoEntry'
  BY <1>1, <1>15 DEF NoEntry, HeadsGrow
<1>20. \A f \in DOMAIN functions : f < p => Converted(f)'
  <2>1. SUFFICES ASSUME NEW f \in DOMAIN functions, f < p PROVE Converted(f)'
    OBVIOUS
  <2>2. Converted(f) /\ f # p
    BY <1>2, <1>3, <1>5, <2>1
  <2>3. code'[f].code = code[f].code
    BY <1>1, <1>10, <1>14, <2>2
  <2>4. QED
    BY <1>16, <2>2, <2>3, ConvertedStays
<1>21. Converting(p, lowered[2])'
  <2> DEFINE body == functions[p].body
             l == ListOf(functions[p])
  <2>1. Len(body) \in Nat /\ IsSeq(body) /\ Wholly(l, body)
    BY <1>1, <1>5, WalkOver
  <2>2. Trailing(l) => 0 # Len(body)
    <3>1. Trailing(l) => body # <<>>
      BY <2>1 DEF Wholly, EndsOnce
    <3>2. Len(body) = 0 => body = <<>>
      <4>1. body \in Seq({body[i] : i \in DOMAIN body})
        BY <2>1 DEF IsSeq
      <4> HIDE DEF body
      <4>2. QED
        BY <4>1
    <3>3. QED
      BY <3>1, <3>2
  <2>3. ListOf(functions[p])' = l /\ functions'[p].body = body
    BY <1>16 DEF ListOf
  <2>4. Trailing(ListOf(functions[p]))' <=> Trailing(l)
    BY <1>16, <2>3 DEF Trailing
  <2>5. code'[p].code = c
    BY <1>10, <1>12
  <2> HIDE DEF body, l
  <2>6. Copied(ListOf(functions[p]), functions[p].body, code[p].code, lowered[2])'
    BY <1>8, <1>17, <2>2, <2>3, <2>4, <2>5 DEF Copied, NoRet
  <2>7. 0 <= Len(body)
    BY <2>1
  <2>8. QED
    BY <1>17, <2>3, <2>6, <2>7 DEF Converting
<1>22. \A f \in DOMAIN functions' :
         /\ f < lowered'[1] => Converted(f)'
         /\ f = lowered'[1] => Converting(f, lowered[2])'
  BY <1>16, <1>17, <1>20, <1>21
<1>23. stage' = "bodies" /\ lowered'[1] <= Len(functions')
  BY <1>1, <1>5, <1>6, <1>16, <1>17
<1>24. CodeInv'
  BY <1>18, <1>19, <1>22, <1>23 DEF CodeInv
<1>25. QED
  BY <1>6, <1>16, <1>23, <1>24

(* The program's main.                                                      *)
LEMMA MainBegins ==
  ASSUME WalkInv, CodeInv, CreateMain
  PROVE  CodeInv' /\ WalkInv' /\ UNCHANGED semaVars /\ stage' = "main"
<1>1. stage = "bodies" /\ lowered[1] = Len(functions) /\ PartDone
      /\ HeadsMade /\ NoEntry /\ DOMAIN functions \subseteq DOMAIN code
  BY DEF CreateMain, CodeInv
<1>2. DOMAIN functions = 1 .. Len(functions) /\ Len(functions) \in Nat
      /\ \A f \in DOMAIN functions : f <= lowered[1] => Converted(f)
  BY <1>1, WalkOver, PartsDone
<1>3. \A f \in DOMAIN functions : Converted(f)
  BY <1>1, <1>2
<1> DEFINE head == [symbol |-> <<>>, code |-> <<>>]
<1>4. PICK e : e = Len(code) + 1
  OBVIOUS
<1>5. UNCHANGED <<semaVars, irVars>> /\ stage' = "main" /\ lowered' = <<0, 0>> /\ code' = Append(code, head)
  BY DEF CreateMain
<1>6. IsHead(head) /\ head.symbol = <<>> /\ head.code = <<>>
  BY NewHead
<1> HIDE DEF head
<1>7. AreHeads(code)
  BY <1>1 DEF HeadsMade, AreHeads
<1>8. /\ AreHeads(code') /\ DOMAIN code' = DOMAIN code \cup {e} /\ e \notin DOMAIN code /\ code'[e] = head
      /\ \A g \in DOMAIN code : code'[g] = code[g]
  BY <1>4, <1>5, <1>6, <1>7, HeadJoins
<1>9. WalkInv' /\ UNCHANGED <<prog, symbols, functions>>
  BY <1>1, <1>5, WalkStays DEF irVars, semaVars
<1>10. HeadsMade' /\ DOMAIN functions' \subseteq DOMAIN code'
  <2>1. lowered' \in Nat \X Nat
    BY <1>5
  <2>2. ASSUME NEW f \in DOMAIN code'
        PROVE  IF f \in DOMAIN functions THEN code'[f].symbol = <<functions[f].symbol>>
               ELSE code'[f].symbol = <<>> \/ code'[f].code = <<>>
    <3>1. CASE f = e
      BY <1>1, <1>6, <1>8, <3>1
    <3>2. CASE f \in DOMAIN code
      BY <1>1, <1>8, <3>2 DEF HeadsMade
    <3>3. QED
      BY <1>8, <3>1, <3>2
  <2>3. QED
    BY <1>1, <1>8, <1>9, <2>1, <2>2 DEF HeadsMade, AreHeads
<1>11. e \in DOMAIN code' \ DOMAIN functions /\ \A f \in DOMAIN code' : code'[f].symbol = <<>> <=> f = e
  BY <1>1, <1>6, <1>8 DEF NoEntry
<1>12. OneEntry'
  BY <1>9, <1>11 DEF OneEntry
<1>13. Entry' = e
  BY <1>11 DEF Entry
<1>14. NoRet(code[Entry].code)'
  <2>1. code'[Entry'].code = <<>>
    BY <1>6, <1>8, <1>13
  <2>2. QED
    BY <2>1 DEF NoRet
<1>15. \A f \in DOMAIN functions' : Converted(f)'
  <2>1. \A f \in DOMAIN functions : code'[f].code = code[f].code
    BY <1>1, <1>8
  <2>2. QED
    BY <1>3, <1>9, <2>1, ConvertedStays
<1>16. lowered'[1] = 0
  BY <1>5
<1>17. CodeInv'
  BY <1>5, <1>10, <1>12, <1>14, <1>15, <1>16 DEF CodeInv
<1>18. QED
  BY <1>5, <1>9, <1>17

(* The end of it.                                                           *)
LEMMA MainEnds ==
  ASSUME WalkInv, CodeInv, EndMain
  PROVE  CodeInv' /\ WalkInv' /\ UNCHANGED semaVars /\ stage' = "done"
<1>1. stage = "main" /\ HeadsMade /\ OneEntry /\ NoRet(code[Entry].code)
      /\ DOMAIN functions \subseteq DOMAIN code /\ \A f \in DOMAIN functions : Converted(f)
  BY DEF EndMain, CodeInv
<1> DEFINE was == code[Entry].code
           c == Append(was, Code("ret", <<Constant>>))
<1>2. UNCHANGED <<semaVars, irVars, lowered>> /\ stage' = "done" /\ code' = [code EXCEPT ![Entry].code = c]
  BY DEF EndMain
<1>3. AreHeads(code) /\ Entry \in DOMAIN code /\ lowered' \in Nat \X Nat
  BY <1>1, <1>2 DEF HeadsMade, AreHeads, OneEntry, Entry
<1>4. IsSeq(was)
  BY <1>3 DEF AreHeads, IsHead
<1>5. Code("ret", <<Constant>>).op = "ret"
  BY DEF Code
<1>6. IsSeq(c) /\ EndsOnce(c)
  BY <1>1, <1>4, <1>5, AppendedSeq, AppendedBody
<1> HIDE DEF c
<1>7. PICK p : p = Entry
  OBVIOUS
<1>8. PICK after : after = code'
  OBVIOUS
<1>9. after = [code EXCEPT ![p].code = c] /\ p \in DOMAIN code
  BY <1>2, <1>3, <1>7, <1>8
<1>10. AreHeads(after) /\ DOMAIN after = DOMAIN code /\ after[p].code = c
  <2>1. AreHeads(after)
    BY <1>3, <1>6, <1>9, HeadChanges
  <2>2. DOMAIN after = DOMAIN code /\ after[p].code = c
    BY <1>3, <1>6, <1>9, HeadChanges
  <2>3. QED
    BY <2>1, <2>2
<1>11. \A g \in DOMAIN code : after[g].symbol = code[g].symbol
  BY <1>3, <1>6, <1>9, HeadChanges
<1>12. \A g \in DOMAIN code : g # p => after[g].code = code[g].code
  BY <1>3, <1>6, <1>9, HeadChanges
<1>13. HeadsGrow(p)
  BY <1>8, <1>10, <1>11, <1>12 DEF HeadsGrow
<1>14. WalkInv' /\ UNCHANGED <<prog, symbols, functions>>
  BY <1>1, <1>2, WalkStays DEF irVars, semaVars
<1>15. OneEntry' /\ Entry' = p /\ p \in DOMAIN code \ DOMAIN functions /\ code[p].symbol = <<>>
  BY <1>1, <1>7, <1>13, <1>14, EntryStays
<1>16. HeadsMade' /\ DOMAIN functions' \subseteq DOMAIN code'
  BY <1>1, <1>3, <1>13, <1>14, <1>15, GrowsMade
<1>17. EndsOnce(code[Entry].code)'
  <2>1. code'[Entry'].code = c
    BY <1>8, <1>10, <1>15
  <2>2. QED
    BY <1>6, <2>1 DEF EndsOnce
<1>18. \A f \in DOMAIN functions' : Converted(f)'
  <2>1. \A f \in DOMAIN functions : code'[f].code = code[f].code
    BY <1>1, <1>8, <1>12, <1>15
  <2>2. QED
    BY <1>1, <1>14, <2>1, ConvertedStays
<1>19. CodeInv'
  BY <1>2, <1>15, <1>16, <1>17, <1>18 DEF CodeInv
<1>20. QED
  BY <1>2, <1>14, <1>19

-----------------------------------------------------------------------------
(* The invariant.                                                           *)

(* It holds at first.                                                       *)
LEMMA TerminatorInit == CompileInit => TerminatorInv
<1>1. SUFFICES ASSUME CompileInit PROVE TerminatorInv
  OBVIOUS
<1>2. /\ stage = "sema" /\ lists = <<>> /\ functions = <<>> /\ globalInit = <<>> /\ operands = <<>>
      /\ function = 0 /\ at = 0 /\ tempCounter = 0 /\ code = <<>> /\ lowered = <<0, 0>>
  BY <1>1 DEF CompileInit
<1>3. IsSeq(<<>>) /\ IsBody(<<>>) /\ NoRet(<<>>) /\ DOMAIN <<>> = {}
  BY DEF IsSeq, IsBody, NoRet
<1>4. StackTyped
  <2>1. lists \in Seq([list : DOMAIN prog, at : Nat \ {0}, function : Nat, temps : Nat])
    BY <1>2
  <2>2. QED
    BY <1>2, <1>3, <2>1 DEF StackTyped
<1>5. StackFills /\ FunctionsMade
  BY <1>2, <1>3 DEF StackFills, FunctionsMade
<1>6. WalkInv
  BY <1>2, <1>4, <1>5 DEF WalkInv
<1>7. lowered \in Nat \X Nat
  BY <1>2
<1>8. CodeInv
  BY <1>2, <1>7, NoHeads DEF CodeInv
<1>9. QED
  BY <1>2, <1>6, <1>8 DEF TerminatorInv

(* Nothing is generated while the analysis goes on.                           *)
LEMMA AnalysisKeeps ==
  ASSUME TerminatorInv, SemaNext, UNCHANGED <<stage, irVars, llvmVars>>
  PROVE  TerminatorInv'
<1>1. stage = "sema"
  BY SemaIsOver DEF TerminatorInv, SemaOver
<1>2. /\ lists = <<>> /\ functions = <<>> /\ globalInit = <<>> /\ function = 0 /\ at = 0
      /\ tempCounter \in Nat /\ IsSeq(operands) /\ code = <<>> /\ lowered \in Nat \X Nat
  BY <1>1 DEF TerminatorInv, WalkInv, StackTyped, CodeInv, HeadsMade
<1>3. /\ stage' = "sema" /\ lists' = <<>> /\ functions' = <<>> /\ globalInit' = <<>> /\ function' = 0 /\ at' = 0
      /\ tempCounter' \in Nat /\ IsSeq(operands') /\ code' = <<>> /\ lowered' \in Nat \X Nat
  BY <1>1, <1>2 DEF irVars, llvmVars
<1>4. IsSeq(<<>>) /\ IsBody(<<>>) /\ NoRet(<<>>) /\ DOMAIN <<>> = {}
  BY DEF IsSeq, IsBody, NoRet
<1>5. StackTyped'
  <2>1. lists' \in Seq([list : DOMAIN prog', at : Nat \ {0}, function : Nat, temps : Nat])
    BY <1>3
  <2>2. QED
    BY <1>3, <2>1 DEF StackTyped
<1>6. StackFills' /\ FunctionsMade'
  BY <1>3, <1>4 DEF StackFills, FunctionsMade
<1>7. WalkInv'
  BY <1>3, <1>5, <1>6 DEF WalkInv
<1>8. CodeInv'
  BY <1>3, NoHeads DEF CodeInv
<1>9. QED
  BY <1>3, <1>7, <1>8 DEF TerminatorInv

(* The walk of the tree.                                                    *)
GenSteps ==
  \/ GenDeclare \/ GenExtern \/ GenVariable \/ GenInitialiser \/ GenAssign
  \/ GenReturn \/ GenEvaluate \/ GenNode

(* A statement, or the begin or end of a list.                               *)
LEMMA TreeKeeps ==
  ASSUME SemaHolds, TerminatorInv, GenerateIR \/ GenSteps \/ GenFunction \/ GenEndList
  PROVE  TerminatorInv'
<1>1. WalkInv /\ CodeInv
  BY DEF TerminatorInv
<1>2. stage \in {"sema", "ir"} /\ UNCHANGED <<semaVars, llvmVars>> /\ stage' \in {stage, "ir", "globals"}
  BY DEF GenSteps, GenerateIR, GenDeclare, GenExtern, GenVariable, GenInitialiser, GenAssign,
         GenReturn, GenEvaluate, GenNode, GenFunction, GenEndList, Lowers
<1>3. WalkInv' /\ SemaOver /\ stage' \in {"ir", "globals"}
  <2>1. CASE GenerateIR
    <3>1. stage' = "ir"
      BY <2>1 DEF GenerateIR
    <3>2. QED
      BY <1>1, <2>1, <3>1, BeginKeeps
  <2>2. ASSUME GenSteps \/ GenFunction \/ GenEndList PROVE Compiling
    <3>1. stage = "ir"
      BY <2>2 DEF GenSteps, GenDeclare, GenExtern, GenVariable, GenInitialiser, GenAssign,
                  GenReturn, GenEvaluate, GenNode, GenFunction, GenEndList, Lowers
    <3>2. SemaOver
      BY <3>1 DEF TerminatorInv, SemaOver
    <3>3. QED
      BY <1>1, <3>1, <3>2 DEF Compiling
  <2>3. Compiling => SemaOver /\ stage = "ir"
    BY DEF Compiling
  <2>4. CASE GenSteps
    <3>1. Compiling
      BY <2>2, <2>4
    <3>2. WalkStep
      BY <2>4, <3>1, QuietSteps, StoreSteps, VariableStep, NodeStep DEF GenSteps
    <3>3. stage' = stage
      BY <3>2 DEF WalkStep
    <3>4. QED
      BY <2>3, <3>1, <3>2, <3>3, WalkKeeps
  <2>5. CASE GenFunction
    <3>1. Compiling
      BY <2>2, <2>5
    <3>2. stage' = stage
      BY <2>5 DEF GenFunction
    <3>3. QED
      BY <2>3, <2>5, <3>1, <3>2, FunctionKeeps
  <2>6. CASE GenEndList
    <3>1. Compiling
      BY <2>2, <2>6
    <3>2. stage' \in {stage, "globals"}
      BY <2>6 DEF GenEndList
    <3>3. QED
      BY <2>3, <2>6, <3>1, <3>2, ListEndKeeps
  <2>7. QED
    BY <2>1, <2>4, <2>5, <2>6
<1>4. code' = <<>> /\ lowered' \in Nat \X Nat
  BY <1>1, <1>2 DEF llvmVars, CodeInv, HeadsMade
<1>5. CodeInv'
  BY <1>3, <1>4, NoHeads DEF CodeInv
<1>6. (Analysed /\ error = "none")'
  BY <1>2, <1>3 DEF SemaOver, Analysed, semaVars
<1>7. QED
  BY <1>3, <1>5, <1>6 DEF TerminatorInv

(* The walk of the instructions.                                            *)
LEMMA CodeKeeps ==
  ASSUME TerminatorInv,
         LowerGlobal \/ DeclareFunctions \/ DeclareFunction \/ LowerFunctions \/ BindParameters
           \/ CreateMain \/ LowerSteps \/ EndMain
  PROVE  TerminatorInv'
<1>1. WalkInv /\ CodeInv
  BY DEF TerminatorInv
<1>2. stage # "sema"
  BY DEF LowerGlobal, DeclareFunctions, DeclareFunction, LowerFunctions, BindParameters, CreateMain, EndMain,
         LowerSteps, LowerVar, LowerStore, LowerAddrOf, LowerCall, LowerRet, LowerOperator, Pending
<1>3. /\ CodeInv' /\ WalkInv' /\ UNCHANGED semaVars
      /\ stage' \in {"globals", "functions", "bodies", "main", "done"}
  <2>1. CASE LowerGlobal \/ DeclareFunctions
    BY <1>1, <2>1, FirstKeeps
  <2>2. CASE DeclareFunction
    BY <1>1, <2>2, DeclareKeeps
  <2>3. CASE LowerFunctions
    BY <1>1, <2>3, BodiesBegin
  <2>4. CASE BindParameters
    BY <1>1, <2>4, BindKeeps
  <2>5. CASE CreateMain
    BY <1>1, <2>5, MainBegins
  <2>6. CASE LowerSteps
    BY <1>1, <2>6, LowerKeeps
  <2>7. CASE EndMain
    BY <1>1, <2>7, MainEnds
  <2>8. QED
    BY <2>1, <2>2, <2>3, <2>4, <2>5, <2>6, <2>7
<1>4. (Analysed /\ error = "none")'
  BY <1>2, <1>3 DEF TerminatorInv, Analysed, semaVars
<1>5. QED
  BY <1>3, <1>4 DEF TerminatorInv

(* Nothing happens.                                                         *)
LEMMA StillKeeps ==
  ASSUME TerminatorInv, UNCHANGED vars
  PROVE  TerminatorInv'
<1>1. UNCHANGED <<semaVars, stage, irVars, llvmVars>>
  BY DEF vars
<1>2. /\ prog' = prog /\ symbols' = symbols /\ frames' = frames /\ error' = error /\ stage' = stage
      /\ operand' = operand /\ functions' = functions /\ globalInit' = globalInit /\ lists' = lists
      /\ at' = at /\ operands' = operands /\ function' = function /\ tempCounter' = tempCounter
      /\ code' = code /\ lowered' = lowered /\ tables' = tables
  BY <1>1 DEF semaVars, irVars, llvmVars
<1>3. \A l : Trailing(l)' <=> Trailing(l)
  BY <1>2 DEF Trailing
<1>4. \A f \in DOMAIN functions : ListOf(functions[f])' = ListOf(functions[f])
  BY <1>2 DEF ListOf
<1>5. StackTyped'
  BY <1>2 DEF TerminatorInv, WalkInv, StackTyped
<1>6. FunctionsMade'
  BY <1>2 DEF TerminatorInv, WalkInv, FunctionsMade, IsFunction
<1>7. \A k \in DOMAIN lists : FunctionOf(k)' = FunctionOf(k)
  BY <1>2 DEF FunctionOf
<1>8. StackFills'
  <2>1. StackFills
    BY DEF TerminatorInv, WalkInv
  <2>2. ASSUME NEW k \in DOMAIN lists PROVE FrameFills(k)'
    <3>1. FrameFills(k) /\ FunctionOf(k)' = FunctionOf(k)
      BY <1>7, <2>1 DEF StackFills
    <3>2. CASE k = 1
      BY <1>2, <3>1, <3>2 DEF FrameFills
    <3>3. CASE k # 1
      <4> DEFINE f == FunctionOf(k)
                 l == lists[k].list
                 body == functions[f].body
                 i == lists[k].at
      <4>1. f \in DOMAIN functions /\ ListOf(functions[f]) = l /\ Partly(l, body, i)
        BY <3>1, <3>3 DEF FrameFills
      <4>2. FunctionOf(k)' = f /\ lists'[k].list = l /\ functions'[f].body = body /\ lists'[k].at = i
        BY <1>2, <3>1
      <4>3. ListOf(functions[FunctionOf(k)])' = l
        BY <1>2, <4>1, <4>2 DEF ListOf
      <4>4. FunctionOf(k)' \in DOMAIN functions'
        BY <1>2, <4>1, <4>2
      <4> HIDE DEF f, l, body, i
      <4>5. Partly(lists[k].list, functions[FunctionOf(k)].body, lists[k].at)'
        BY <1>2, <4>1, <4>2 DEF Partly, Trailing
      <4>6. QED
        BY <3>3, <4>2, <4>3, <4>4, <4>5 DEF FrameFills
    <3>4. QED
      BY <3>2, <3>3
  <2>3. ASSUME NEW f \in DOMAIN functions, \A k \in DOMAIN lists : FunctionOf(k)' # f
        PROVE  Wholly(ListOf(functions[f]), functions[f].body)'
    <3>1. Wholly(ListOf(functions[f]), functions[f].body)
      BY <1>7, <2>1, <2>3 DEF StackFills
    <3>2. Trailing(ListOf(functions[f]))' <=> Trailing(ListOf(functions[f]))
      BY <1>2, <1>4 DEF Trailing
    <3>3. EndsOnce(functions[f].body)' <=> EndsOnce(functions[f].body)
      BY <1>2 DEF EndsOnce
    <3>4. QED
      BY <3>1, <3>2, <3>3 DEF Wholly
  <2>4. \A j, k \in DOMAIN lists : FunctionOf(j)' = FunctionOf(k)' => j = k
    BY <1>7, <2>1 DEF StackFills
  <2>5. QED
    BY <1>2, <2>2, <2>3, <2>4 DEF StackFills
<1>9. stage = "ir" => AtFits' /\ ObjectsMade'
  <2>1. stage = "ir" => AtFits /\ ObjectsMade
    BY DEF TerminatorInv, WalkInv
  <2>2. ListEnded' = ListEnded /\ Node' = Node
    BY <1>2 DEF ListEnded, List, Node
  <2>3. AtFits => AtFits'
    BY <1>2, <2>2 DEF AtFits
  <2>4. ObjectsMade => ObjectsMade'
    BY <1>2 DEF ObjectsMade
  <2>5. QED
    BY <2>1, <2>3, <2>4
<1>10. WalkInv'
  BY <1>2, <1>5, <1>6, <1>8, <1>9 DEF TerminatorInv, WalkInv
<1>11. CodeInv'
  <2>1. HeadsMade' /\ (NoEntry' <=> NoEntry) /\ (OneEntry' <=> OneEntry) /\ Entry' = Entry
    BY <1>2 DEF TerminatorInv, CodeInv, HeadsMade, NoEntry, OneEntry, Entry
  <2>2. (NoRet(code[Entry].code)' <=> NoRet(code[Entry].code))
        /\ (EndsOnce(code[Entry].code)' <=> EndsOnce(code[Entry].code))
    BY <1>2, <2>1 DEF NoRet, EndsOnce
  <2>3. \A f \in DOMAIN functions :
          (Converted(f)' <=> Converted(f)) /\ (Converting(f, lowered[2])' <=> Converting(f, lowered[2]))
    <3>1. SUFFICES ASSUME NEW f \in DOMAIN functions
                   PROVE  /\ Converted(f)' <=> Converted(f)
                          /\ Converting(f, lowered[2])' <=> Converting(f, lowered[2])
      OBVIOUS
    <3>2. PICK n : n = lowered[2]
      OBVIOUS
    <3>3. (Converted(f)' <=> Converted(f)) /\ (Converting(f, n)' <=> Converting(f, n))
      BY <1>2, ConvertedStays
    <3>4. Converting(f, lowered[2])' <=> Converting(f, n)'
      BY <1>2, <3>2 DEF Converting
    <3>5. QED
      BY <3>2, <3>3, <3>4
  <2>4. QED
    BY <1>2, <2>1, <2>2, <2>3 DEF TerminatorInv, CodeInv
<1>12. Analysed' <=> Analysed
  BY <1>2 DEF Analysed
<1>13. QED
  BY <1>2, <1>10, <1>11, <1>12 DEF TerminatorInv

(* Bodies have their only terminator at their end - the IR's once their list    *)
(* ends, the LLVM module's once their instructions are lowered - in every   *)
(* behaviour of the compiler.                                               *)
THEOREM TerminatorInvHolds == CompileSpec => []TerminatorInv
<1>1. CompileInit => TerminatorInv
  BY TerminatorInit
<1>2. ScopesInv /\ ResolutionInv /\ AcceptanceInv /\ TerminatorInv /\ [CompileNext]_vars => TerminatorInv'
  <2> SUFFICES ASSUME ScopesInv, ResolutionInv, AcceptanceInv, TerminatorInv, [CompileNext]_vars
               PROVE  TerminatorInv'
    OBVIOUS
  <2>1. SemaHolds
    BY DEF SemaHolds
  <2>2. CASE SemaNext /\ UNCHANGED <<stage, irVars, llvmVars>>
    BY <2>2, AnalysisKeeps
  <2>3. CASE Generate
    <3>1. \/ GenerateIR \/ GenSteps \/ GenFunction \/ GenEndList
          \/ LowerGlobal \/ DeclareFunctions \/ DeclareFunction \/ LowerFunctions \/ BindParameters
          \/ CreateMain \/ LowerSteps \/ EndMain
      BY <2>3 DEF Generate, GenSteps, LowerSteps
    <3>2. QED
      BY <2>1, <3>1, TreeKeeps, CodeKeeps
  <2>4. CASE UNCHANGED vars
    BY <2>4, StillKeeps
  <2>5. QED
    BY <2>2, <2>3, <2>4 DEF CompileNext, Finished
<1>3. QED
  BY <1>1, <1>2, ScopesInvHolds, ResolutionInvHolds, AcceptanceInvHolds, PTL DEF CompileSpec

(* The LLVM functions of a list are one the IR made of it, or have no body.     *)
LEMMA CodeOfList ==
  ASSUME SemaHolds, SemaOver, WalkInv, HeadsMade, NEW l \in DOMAIN prog, l # 1, NEW f \in CodeOf(l)
  PROVE  IF f \in DOMAIN functions THEN ListOf(functions[f]) = l ELSE code[f].code = <<>>
<1>1. IsProgram(prog)
  BY DEF SemaHolds, ScopesInv, Typed
<1>2. PICK m \in DOMAIN prog : \E i \in DOMAIN prog[m] :
        /\ prog[m][i].kind = "FUNC" /\ prog[m][i].body = l /\ Home(prog, l) = <<m, i>>
  BY <1>1, HomeOf
<1>3. PICK i \in DOMAIN prog[m] :
        /\ prog[m][i].kind = "FUNC" /\ prog[m][i].body = l /\ Home(prog, l) = <<m, i>>
  BY <1>2
<1> DEFINE s == SymbolOf(Key(m, i))
<1>4. symbols[s].decl = Key(m, i)
  BY <1>3, OverFacts DEF IsDecl
<1>5. SymbolOfList(l) = <<s>>
  BY <1>3 DEF SymbolOfList, Key
<1>6. f \in DOMAIN code /\ code[f].symbol = <<s>> /\ <<s>> # <<>>
  BY <1>5 DEF CodeOf
<1>7. CASE f \in DOMAIN functions
  <2>1. functions[f].symbol = s
    <3>1. <<functions[f].symbol>> = <<s>>
      BY <1>6, <1>7 DEF HeadsMade
    <3> HIDE DEF s
    <3>2. QED
      BY <3>1
  <2>2. Key(m, i)[1] = m /\ Key(m, i)[2] = i
    BY DEF Key
  <2>3. QED
    BY <1>3, <1>4, <1>7, <2>1, <2>2 DEF ListOf
<1>8. CASE f \notin DOMAIN functions
  BY <1>6, <1>8 DEF HeadsMade
<1>9. QED
  BY <1>7, <1>8

(* A block ends in its only terminator, unless something that is lowered       *)
(* follows a RETURN: IrGenerator::terminate() finds the block terminated or   *)
(* not, and gen::Generator keeps the blocks as they are.                     *)
THEOREM OneTerminatorHolds == CompileSpec => []OneTerminator
<1>1. ScopesInv /\ ResolutionInv /\ AcceptanceInv /\ TerminatorInv => OneTerminator
  <2>1. SUFFICES ASSUME SemaHolds, TerminatorInv, stage = "done", NEW l \in DOMAIN prog, Trailing(l),
                        NEW f \in CodeOf(l)
                 PROVE  \A i \in DOMAIN code[f].code : code[f].code[i].op = "ret" <=> i = Len(code[f].code)
    BY DEF OneTerminator, Lists, Trailing, SemaHolds
  <2>2. /\ SemaOver /\ WalkInv /\ HeadsMade /\ OneEntry /\ EndsOnce(code[Entry].code)
        /\ \A g \in DOMAIN functions : Converted(g)
    BY <2>1 DEF TerminatorInv, CodeInv, SemaOver
  <2>3. CASE l = 1
    <3>1. f = Entry
      <4>1. f \in DOMAIN code /\ code[f].symbol = <<>>
        BY <2>1, <2>3 DEF CodeOf, SymbolOfList
      <4>2. PICK e \in DOMAIN code \ DOMAIN functions : \A g \in DOMAIN code : code[g].symbol = <<>> <=> g = e
        BY <2>2 DEF OneEntry
      <4>3. Entry = e /\ f = e
        BY <4>1, <4>2 DEF Entry
      <4>4. QED
        BY <4>3
    <3>2. QED
      BY <2>2, <3>1 DEF EndsOnce
  <2>4. CASE l # 1
    <3>1. IF f \in DOMAIN functions THEN ListOf(functions[f]) = l ELSE code[f].code = <<>>
      BY <2>1, <2>2, <2>4, CodeOfList
    <3>2. CASE f \in DOMAIN functions
      BY <2>1, <2>2, <3>1, <3>2 DEF Converted, Wholly, EndsOnce
    <3>3. CASE f \notin DOMAIN functions
      BY <3>1, <3>3
    <3>4. QED
      BY <3>2, <3>3
  <2>5. QED
    BY <2>3, <2>4
<1>2. QED
  BY <1>1, ScopesInvHolds, ResolutionInvHolds, AcceptanceInvHolds, TerminatorInvHolds, PTL
=============================================================================
