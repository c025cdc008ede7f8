----------------------------- MODULE ScopesProofs -----------------------------
(***************************************************************************)
(* Proofs about the analysis, for any program.  Scopes nest, whatever is      *)
(* declared, defined, visited or refused, and linkage stays where EXTERN put *)
(* it.  Whenever a variable gets its symbol, that is the symbol of the       *)
(* declaration the program text says, innermost first.  And, from that,      *)
(* which programs are accepted: those whose text keeps the rules.  The       *)
(* analysis is the first part of a compilation and nothing after it touches  *)
(* its variables, so that the theorems are about whole compilations.         *)
(***************************************************************************)
EXTENDS Lowering, SequenceTheorems, WellFoundedInduction, TLAPS

-----------------------------------------------------------------------------
(* The invariant of scopes.                                                 *)

Key(l, i) == <<l, i, 0, 0>>
Plain(key) == key[3] = 0 /\ key[4] = 0    \* of a declaration in a list of its own

SymbolRecords ==
  [name : STRING, decl : Nat \X Nat \X Nat \X Nat, role : {"function", "variable", "param"},
   extern : {"C", "Default"}, alias : {""} \cup STRING, status : {"Declared", "BeingDefined", "Defined"}]
TableRecords == [parent : Nat, names : [Names -> Nat]]
FrameRecords ==
  [list : DOMAIN prog, at : Nat \ {0}, table : Nat, returns : {"none", "void", "value"}]

Typed ==
  /\ IsProgram(prog)
  /\ symbols \in Seq(SymbolRecords)
  /\ tables \in Seq(TableRecords)
  /\ listTable \in [DOMAIN prog -> 0 .. Len(tables)]
  /\ frames \in Seq(FrameRecords)
  /\ node \in Nat
  /\ table \in 0 .. Len(tables)
  /\ returnType \in {"none", "void", "value"}
  /\ externKind \in {"C", "Default"}
  /\ frames # <<>> => tables # <<>>

(* The frames are those of ever deeper lists, each in its own table, which    *)
(* lies in that of the frame around.                                        *)
InnerTable(f) == IF f = Len(frames) THEN table ELSE frames[f + 1].table

Nested ==
  /\ frames = <<>> => table = 0 /\ returnType = "none"
  /\ frames # <<>> => frames[1].table = 0 /\ frames[1].returns = "none"
  /\ \A f \in DOMAIN frames :
       /\ InnerTable(f) = listTable[frames[f].list] /\ InnerTable(f) # 0
       /\ tables[InnerTable(f)].parent = frames[f].table
  /\ \A f, g \in DOMAIN frames : f < g => frames[f].list < frames[g].list

(* A list's declaration has one symbol, once the list has a table.            *)
DeclaredOnce ==
  /\ \A s, t \in DOMAIN symbols :
       Plain(symbols[s].decl) /\ symbols[s].decl = symbols[t].decl => s = t
  /\ \A s \in DOMAIN symbols :
       Plain(symbols[s].decl) =>
         symbols[s].decl[1] \in DOMAIN prog /\ listTable[symbols[s].decl[1]] # 0

(* Between the visits no function is half defined, and its body has a table, *)
(* in that of the list it stands in, exactly when it is defined.            *)
FunctionDefined(l, i) ==
  LET b == prog[l][i].body
  IN /\ \A s \in SymbolsOf(Key(l, i)) :
          symbols[s].status = "Defined" =>
            listTable[b] # 0 /\ tables[listTable[b]].parent = listTable[l]
     /\ listTable[b] # 0 => \E s \in SymbolsOf(Key(l, i)) : symbols[s].status = "Defined"

BodiesHaveTables ==
  \A l \in DOMAIN prog : \A i \in DOMAIN prog[l] :
    /\ IsFuncDecl(prog[l][i]) /\ error = "none" =>
         \A s \in SymbolsOf(Key(l, i)) : symbols[s].status # "BeingDefined"
    /\ prog[l][i].kind = "FUNC" => FunctionDefined(l, i)

(* How far the visit of a statement is: only into one of a list whose         *)
(* declarations are made; and what that says of an EXTERN block.            *)
AtStatement == Frame.at <= Len(prog[Frame.list])

Staged ==
  /\ frames = <<>> => node = 0
  /\ Going =>
       /\ node # 0 => AtStatement /\ Stmt.kind # "FUNC" /\ Undeclared = {} /\ Undefined = {}
       /\ externKind = "C" <=>
            AtStatement /\ Stmt.kind = "EXTERN" /\ node \in 1 .. Len(Stmt.decls) + 1
       /\ AtStatement /\ Stmt.kind = "EXTERN" =>
            \A k \in DOMAIN Stmt.decls : k < node => SymbolsOf(DeclHere(k)) # {}

ScopesInv == Typed /\ Nested /\ DeclaredOnce /\ BodiesHaveTables /\ Staged /\ LinkageStaysInside

-----------------------------------------------------------------------------
(* The program.                                                             *)

(* The first of some positions is one of them.                               *)
LEMMA FirstIsOne ==
  ASSUME NEW S, S \subseteq Nat, S # {}
  PROVE  First(S) \in S /\ \A j \in S : First(S) <= j
<1> DEFINE Less == {ss \in Nat \X Nat : ss[1] < ss[2]}
<1>1. IsWellFoundedOn(Less, Nat)
  BY NatLessThanWellFounded DEF OpToRel
<1>2. PICK i \in S : \A j \in S : <<j, i>> \notin Less
  <2> HIDE DEF Less
  <2>1. QED
    BY <1>1, WFMin
<1>3. ASSUME NEW j \in S PROVE i <= j
  <2>1. CASE j < i
    <3>1. <<j, i>> \in Less
      BY <2>1
    <3>2. QED
      BY <3>1, <1>2
  <2>2. QED
    BY <2>1
<1>4. \E e \in S : \A j \in S : e <= j
  BY <1>3
<1>5. QED
  BY <1>4 DEF First

(* The statements are where they seem to be.                                  *)
LEMMA StatementFacts ==
  ASSUME IsProgram(prog), NEW l \in DOMAIN prog
  PROVE  /\ DOMAIN prog = 1 .. Len(prog) /\ Len(prog) \in Nat \ {0}
         /\ prog[l] \in Seq(Statements) /\ DOMAIN prog[l] = 1 .. Len(prog[l])
         /\ Len(prog[l]) \in Nat
         /\ \A i \in DOMAIN prog[l] : prog[l][i] \in Statements
<1>1. prog \in Seq(Seq(Statements)) /\ prog # <<>>
  BY DEF IsProgram
<1>2. QED
  BY <1>1

(* What the kinds of statement have.                                         *)
LEMMA KindFacts ==
  ASSUME NEW stmt \in Statements
  PROVE  /\ IsFuncDecl(stmt) => stmt.params \in Seq(STRING) /\ stmt.variadic \in BOOLEAN
         /\ stmt.kind = "FUNC" => stmt.variadic = FALSE
         /\ IsDecl(stmt) => stmt.name \in STRING /\ stmt.source \in STRING
         /\ stmt.kind = "EXTERN" => stmt.decls \in Seq(Prototypes)
BY DEF Statements, Prototypes, IsFuncDecl, IsDecl

(* A prototype is one of the statements.                                      *)
LEMMA PrototypeFacts ==
  ASSUME NEW decl \in Prototypes
  PROVE  decl \in Statements /\ decl.kind = "DECLARE" /\ IsFuncDecl(decl) /\ IsDecl(decl)
BY DEF Statements, Prototypes, IsFuncDecl, IsDecl

(* A function's body is a list after its own, and no other function's.       *)
LEMMA BodyFacts ==
  ASSUME IsProgram(prog), NEW l \in DOMAIN prog, NEW i \in DOMAIN prog[l],
         prog[l][i].kind = "FUNC"
  PROVE  /\ prog[l][i].body \in DOMAIN prog /\ prog[l][i].body > l
         /\ \A m \in DOMAIN prog : \A j \in DOMAIN prog[m] :
              prog[m][j].kind = "FUNC" /\ prog[m][j].body = prog[l][i].body => m = l /\ j = i
<1>1. ASSUME NEW m \in DOMAIN prog, NEW j \in DOMAIN prog[m], prog[m][j].kind = "FUNC"
      PROVE  /\ <<m, j>> \in Functions(prog)
             /\ prog[m][j].body \in m + 1 .. Len(prog)
             /\ \A o \in Functions(prog) : prog[o[1]][o[2]].body = prog[m][j].body => o = <<m, j>>
  <2> DEFINE home == <<m, j>>
  <2>1. home \in Functions(prog)
    BY <1>1 DEF Functions
  <2>2. home[1] = m /\ home[2] = j
    OBVIOUS
  <2>3. /\ prog[home[1]][home[2]].body \in home[1] + 1 .. Len(prog)
        /\ \A o \in Functions(prog) :
             prog[o[1]][o[2]].body = prog[home[1]][home[2]].body => o = home
    <3> HIDE DEF home
    <3>1. QED
      BY <2>1 DEF IsProgram
  <2>4. QED
    BY <2>1, <2>2, <2>3
<1>2. prog[l][i].body \in l + 1 .. Len(prog)
  BY <1>1
<1>3. ASSUME NEW m \in DOMAIN prog, NEW j \in DOMAIN prog[m],
             prog[m][j].kind = "FUNC", prog[m][j].body = prog[l][i].body
      PROVE  m = l /\ j = i
  <2> DEFINE o == <<m, j>>
  <2>1. o \in Functions(prog)
    BY <1>1, <1>3
  <2>2. o[1] = m /\ o[2] = j
    OBVIOUS
  <2>3. prog[o[1]][o[2]].body = prog[l][i].body
    BY <2>2, <1>3
  <2>4. o = <<l, i>>
    <3> HIDE DEF o
    <3>1. QED
      BY <1>1, <2>1, <2>3
  <2>5. QED
    BY <2>4
<1>4. DOMAIN prog = 1 .. Len(prog) /\ Len(prog) \in Nat
  BY StatementFacts
<1>5. QED
  BY <1>2, <1>3, <1>4

-----------------------------------------------------------------------------
(* The frame at hand, and the symbols of declarations.                       *)

(* The frames are frames.                                                    *)
LEMMA FrameFacts ==
  ASSUME Typed, frames # <<>>
  PROVE  /\ Len(frames) \in Nat \ {0} /\ DOMAIN frames = 1 .. Len(frames)
         /\ Len(frames) \in DOMAIN frames /\ 1 \in DOMAIN frames
         /\ \A f \in DOMAIN frames : frames[f] \in FrameRecords
         /\ Frame \in FrameRecords /\ Frame.list \in DOMAIN prog /\ Frame.at \in Nat \ {0}
<1>1. frames \in Seq(FrameRecords)
  BY DEF Typed
<1>2. Len(frames) \in Nat \ {0} /\ DOMAIN frames = 1 .. Len(frames)
  BY <1>1
<1>3. \A f \in DOMAIN frames : frames[f] \in FrameRecords
  BY <1>1
<1>4. Frame \in FrameRecords
  BY <1>2, <1>3 DEF Frame
<1>5. Frame.list \in DOMAIN prog /\ Frame.at \in Nat \ {0}
  BY <1>4 DEF FrameRecords
<1>6. QED
  BY <1>2, <1>3, <1>4, <1>5

(* The statement at hand is one of the list's.                               *)
LEMMA AtStatementFacts ==
  ASSUME Typed, frames # <<>>, AtStatement
  PROVE  /\ Frame.at \in DOMAIN prog[Frame.list] /\ Frame.list \in DOMAIN prog
         /\ Stmt = prog[Frame.list][Frame.at] /\ Stmt \in Statements
<1>1. Frame.list \in DOMAIN prog /\ Frame.at \in Nat \ {0}
  BY FrameFacts
<1>2. /\ DOMAIN prog[Frame.list] = 1 .. Len(prog[Frame.list])
      /\ \A i \in DOMAIN prog[Frame.list] : prog[Frame.list][i] \in Statements
  BY <1>1, StatementFacts DEF Typed
<1>3. Frame.at \in DOMAIN prog[Frame.list]
  BY <1>1, <1>2 DEF AtStatement
<1>4. QED
  BY <1>1, <1>2, <1>3 DEF Stmt

(* A declaration that has a symbol has the symbol it is given.               *)
LEMMA SymbolOfIs ==
  ASSUME NEW key, SymbolsOf(key) # {}
  PROVE  SymbolOf(key) \in DOMAIN symbols /\ symbols[SymbolOf(key)].decl = key
BY DEF SymbolOf, SymbolsOf

(* The symbols are numbered from one.                                        *)
LEMMA SymbolFacts ==
  ASSUME Typed
  PROVE  /\ Len(symbols) \in Nat /\ DOMAIN symbols = 1 .. Len(symbols)
         /\ \A s \in DOMAIN symbols : symbols[s] \in SymbolRecords
BY DEF Typed

(* No symbol changes its declaration, and whatever was in a table's stead     *)
(* before stays a table in the same table.                                  *)
SymbolsGrow ==
  /\ symbols' \in Seq(SymbolRecords)
  /\ DOMAIN symbols \subseteq DOMAIN symbols'
  /\ \A s \in DOMAIN symbols : /\ symbols'[s].decl = symbols[s].decl
                               /\ symbols'[s].extern = symbols[s].extern
                               /\ symbols'[s].alias = symbols[s].alias
                               /\ symbols'[s].role = symbols[s].role
NewSymbols == DOMAIN symbols' \ DOMAIN symbols

TablesGrow ==
  /\ tables' \in Seq(TableRecords)
  /\ Len(tables) <= Len(tables')
  /\ \A t \in DOMAIN tables : t \in DOMAIN tables' /\ tables'[t].parent = tables[t].parent

(* The symbols of a declaration are those it had, if no new one is its.      *)
LEMMA SymbolsStay ==
  ASSUME SymbolsGrow, NEW key, \A s \in NewSymbols : symbols'[s].decl # key
  PROVE  {s \in DOMAIN symbols' : symbols'[s].decl = key} = SymbolsOf(key)
BY DEF SymbolsGrow, NewSymbols, SymbolsOf

(* Nor is the chosen one another.                                            *)
LEMMA SymbolStays ==
  ASSUME SymbolsGrow, NEW key, \A s \in NewSymbols : symbols'[s].decl # key
  PROVE  SymbolsOf(key)' = SymbolsOf(key) /\ SymbolOf(key)' = SymbolOf(key)
<1>1. SymbolsOf(key)' = SymbolsOf(key)
  BY SymbolsStay DEF SymbolsOf
<1>2. QED
  BY <1>1 DEF SymbolOf

(* A new symbol is one.                                                      *)
LEMMA SymbolIsRecord ==
  ASSUME NEW n \in STRING, NEW key \in Nat \X Nat \X Nat \X Nat,
         NEW role \in {"function", "variable", "param"}, NEW linkage \in {"C", "Default"},
         NEW alias \in {""} \cup STRING,
         NEW status \in {"Declared", "BeingDefined", "Defined"}
  PROVE  Symbol(n, key, role, linkage, alias, status) \in SymbolRecords
BY DEF Symbol, SymbolRecords

(* declare, in a table that lacks the name: one more symbol, for this         *)
(* declaration and with the linkage of the moment.                          *)
DeclareEffect(key) ==
  /\ SymbolsGrow /\ TablesGrow /\ Len(tables') = Len(tables)
  /\ NewSymbols = {Len(symbols) + 1}
  /\ \A s \in DOMAIN symbols : symbols'[s] = symbols[s]
  /\ LET new == symbols'[Len(symbols) + 1]
     IN /\ new.decl = key /\ new.extern = externKind /\ new.status = "Declared"
        /\ new.alias # "" => externKind = "C"
  /\ UNCHANGED <<prog, listTable, frames, table, returnType, externKind, error>>

(* A table takes one more name.                                              *)
LEMMA InsertedName ==
  ASSUME tables \in Seq(TableRecords), NEW t \in 1 .. Len(tables), NEW n, NEW s \in Nat,
         tables' = [tables EXCEPT ![t].names[n] = s]
  PROVE  TablesGrow /\ Len(tables') = Len(tables)
<1> DEFINE names == [tables[t].names EXCEPT ![n] = s]
           new == [tables[t] EXCEPT !.names = names]
<1>1. tables[t] \in TableRecords /\ DOMAIN tables = 1 .. Len(tables) /\ Len(tables) \in Nat
  OBVIOUS
<1>2. names \in [Names -> Nat]
  BY <1>1 DEF TableRecords
<1>3. new \in TableRecords /\ new.parent = tables[t].parent
  <2> HIDE DEF names
  <2>1. QED
    BY <1>1, <1>2 DEF TableRecords
<1>4. tables' = [tables EXCEPT ![t] = new]
  OBVIOUS
<1> HIDE DEF new
<1>5. tables' \in Seq(TableRecords) /\ Len(tables') = Len(tables)
  BY <1>1, <1>3, <1>4
<1>6. \A u \in DOMAIN tables : u \in DOMAIN tables' /\ tables'[u].parent = tables[u].parent
  BY <1>1, <1>3, <1>4
<1>7. QED
  BY <1>1, <1>5, <1>6 DEF TablesGrow

(* declare does that or refuses.                                             *)
LEMMA DeclareDoes ==
  ASSUME Typed, table # 0, NEW decl \in Statements, IsDecl(decl),
         NEW key \in Nat \X Nat \X Nat \X Nat, Declare(decl, key)
  PROVE  \/ error' = "redefinition" /\ Contains(table, decl.name)
              /\ UNCHANGED <<prog, symbols, tables, listTable, frames, table, returnType, externKind>>
         \/ ~Contains(table, decl.name) /\ DeclareEffect(key)
<1>1. CASE Contains(table, decl.name)
  BY <1>1 DEF Declare, Refuse
<1>2. CASE ~Contains(table, decl.name)
  <2> DEFINE role == IF IsFuncDecl(decl) THEN "function" ELSE "variable"
             alias == IF externKind = "C" THEN decl.source ELSE ""
             new == Symbol(decl.name, key, role, externKind, alias, "Declared")
  <2>1. /\ symbols' = Append(symbols, new)
        /\ tables' = [tables EXCEPT ![table].names[new.name] = Len(symbols) + 1]
        /\ UNCHANGED <<prog, listTable, frames, table, returnType, externKind, error>>
    BY <1>2 DEF Declare, Insert
  <2> HIDE DEF new
  <2>2. /\ decl.name \in STRING /\ externKind \in {"C", "Default"}
        /\ role \in {"function", "variable", "param"}
        /\ alias \in {""} \cup STRING /\ (alias # "" => externKind = "C")
    <3>1. decl.name \in STRING /\ decl.source \in STRING
      BY KindFacts
    <3>2. externKind \in {"C", "Default"}
      BY DEF Typed
    <3>3. role \in {"function", "variable", "param"}
      OBVIOUS
    <3>4. alias \in {""} \cup STRING /\ (alias # "" => externKind = "C")
      BY <3>1
    <3>5. QED
      BY <3>1, <3>2, <3>3, <3>4
  <2> HIDE DEF role, alias
  <2>3. new \in SymbolRecords
    BY <2>2, SymbolIsRecord DEF new
  <2>4. /\ new.decl = key /\ new.extern = externKind /\ new.status = "Declared"
        /\ new.alias # "" => externKind = "C"
    BY <2>2 DEF Symbol, new
  <2>5. symbols \in Seq(SymbolRecords) /\ Len(symbols) \in Nat /\ DOMAIN symbols = 1 .. Len(symbols)
    BY DEF Typed
  <2>6. /\ symbols' \in Seq(SymbolRecords) /\ Len(symbols') = Len(symbols) + 1
        /\ DOMAIN symbols' = 1 .. Len(symbols) + 1
        /\ \A s \in DOMAIN symbols : symbols'[s] = symbols[s]
        /\ symbols'[Len(symbols) + 1] = new
    BY <2>1, <2>3, <2>5
  <2>7. SymbolsGrow /\ NewSymbols = {Len(symbols) + 1}
    BY <2>5, <2>6 DEF SymbolsGrow, NewSymbols
  <2>8. table \in 1 .. Len(tables) /\ tables \in Seq(TableRecords) /\ Len(symbols) + 1 \in Nat
    BY <2>5 DEF Typed
  <2>9. TablesGrow /\ Len(tables') = Len(tables)
    BY <2>1, <2>8, InsertedName
  <2>10. DeclareEffect(key)
    BY <2>1, <2>4, <2>6, <2>7, <2>9 DEF DeclareEffect
  <2>11. QED
    BY <1>2, <2>10
<1>3. QED
  BY <1>1, <1>2

(* The parameters that fit are the first of them.                            *)
LEMMA FittingFacts ==
  ASSUME NEW params \in Seq(STRING)
  PROVE  Fitting(params) \in 0 .. Len(params)
<1> DEFINE S == {p \in DOMAIN params : \E q \in 1 .. p - 1 : params[q] = params[p]}
<1>1. Len(params) \in Nat /\ DOMAIN params = 1 .. Len(params)
  OBVIOUS
<1>2. CASE \E p \in DOMAIN params : \E q \in 1 .. p - 1 : params[q] = params[p]
  <2>1. S \subseteq Nat /\ S \subseteq 1 .. Len(params) /\ S # {}
    BY <1>1, <1>2
  <2>2. Fitting(params) = First(S) - 1
    BY <1>2 DEF Fitting
  <2> HIDE DEF S
  <2>3. First(S) \in 1 .. Len(params)
    BY <2>1, FirstIsOne
  <2>4. QED
    BY <1>1, <2>2, <2>3
<1>3. CASE ~\E p \in DOMAIN params : \E q \in 1 .. p - 1 : params[q] = params[p]
  BY <1>1, <1>3 DEF Fitting
<1>4. QED
  BY <1>2, <1>3

(* One symbol takes another status.                                          *)
LEMMA MarkedSymbol ==
  ASSUME symbols \in Seq(SymbolRecords), NEW s \in DOMAIN symbols,
         NEW status \in {"Declared", "BeingDefined", "Defined"},
         symbols' = [symbols EXCEPT ![s].status = status]
  PROVE  /\ SymbolsGrow /\ NewSymbols = {}
         /\ \A t \in DOMAIN symbols : t # s => symbols'[t] = symbols[t]
         /\ symbols'[s].status = status
<1> DEFINE mark == [symbols[s] EXCEPT !.status = status]
<1>1. symbols[s] \in SymbolRecords
  OBVIOUS
<1>2. /\ mark \in SymbolRecords /\ mark.status = status
      /\ mark.decl = symbols[s].decl /\ mark.extern = symbols[s].extern
      /\ mark.alias = symbols[s].alias /\ mark.role = symbols[s].role
  BY <1>1 DEF SymbolRecords
<1>3. symbols' = [symbols EXCEPT ![s] = mark]
  OBVIOUS
<1> HIDE DEF mark
<1>4. /\ symbols' \in Seq(SymbolRecords) /\ DOMAIN symbols' = DOMAIN symbols
      /\ symbols'[s] = mark
      /\ \A t \in DOMAIN symbols : t # s => symbols'[t] = symbols[t]
  BY <1>2, <1>3
<1>5. QED
  BY <1>2, <1>4 DEF SymbolsGrow, NewSymbols

(* One symbol takes another status and some more are made.                   *)
LEMMA MarkedSymbols ==
  ASSUME symbols \in Seq(SymbolRecords), NEW s \in DOMAIN symbols,
         NEW status \in {"Declared", "BeingDefined", "Defined"},
         NEW more \in Seq(SymbolRecords),
         symbols' = [symbols EXCEPT ![s].status = status] \o more
  PROVE  /\ SymbolsGrow
         /\ \A t \in DOMAIN symbols : t # s => symbols'[t] = symbols[t]
         /\ symbols'[s].status = status
         /\ \A t \in NewSymbols : \E p \in DOMAIN more : symbols'[t] = more[p]
<1> DEFINE mark == [symbols[s] EXCEPT !.status = status]
           marked == [symbols EXCEPT ![s] = mark]
<1>1. /\ DOMAIN symbols = 1 .. Len(symbols) /\ Len(symbols) \in Nat
      /\ DOMAIN more = 1 .. Len(more) /\ Len(more) \in Nat
      /\ symbols[s] \in SymbolRecords
  OBVIOUS
<1>2. /\ mark \in SymbolRecords /\ mark.status = status
      /\ mark.decl = symbols[s].decl /\ mark.extern = symbols[s].extern
      /\ mark.alias = symbols[s].alias /\ mark.role = symbols[s].role
  BY <1>1 DEF SymbolRecords
<1>3. symbols' = marked \o more
  OBVIOUS
<1> HIDE DEF mark
<1>4. /\ marked \in Seq(SymbolRecords) /\ Len(marked) = Len(symbols) /\ marked[s] = mark
      /\ \A t \in DOMAIN symbols : t # s => marked[t] = symbols[t]
  BY <1>1, <1>2
<1> HIDE DEF marked
<1>5. /\ symbols' \in Seq(SymbolRecords) /\ Len(symbols') = Len(symbols) + Len(more)
      /\ \A i \in 1 .. Len(symbols) + Len(more) :
           symbols'[i] = IF i <= Len(symbols) THEN marked[i] ELSE more[i - Len(symbols)]
  <2>1. /\ marked \o more \in Seq(SymbolRecords)
        /\ Len(marked \o more) = Len(marked) + Len(more)
        /\ \A i \in 1 .. Len(marked) + Len(more) :
             (marked \o more)[i] = IF i <= Len(marked) THEN marked[i] ELSE more[i - Len(marked)]
    BY <1>4, ConcatProperties, Zenon
  <2>2. QED
    BY <1>3, <1>4, <2>1
<1>6. DOMAIN symbols' = 1 .. Len(symbols) + Len(more)
  BY <1>1, <1>5
<1>7. \A t \in DOMAIN symbols : symbols'[t] = marked[t]
  BY <1>1, <1>5
<1>8. ASSUME NEW t \in NewSymbols PROVE \E p \in DOMAIN more : symbols'[t] = more[p]
  <2>1. t \in Len(symbols) + 1 .. Len(symbols) + Len(more)
    BY <1>1, <1>6 DEF NewSymbols
  <2>2. t - Len(symbols) \in DOMAIN more /\ symbols'[t] = more[t - Len(symbols)]
    BY <1>1, <1>5, <2>1
  <2>3. QED
    BY <2>2
<1>9. DOMAIN symbols \subseteq DOMAIN symbols'
  BY <1>1, <1>6
<1>10. SymbolsGrow
  BY <1>2, <1>4, <1>5, <1>7, <1>9 DEF SymbolsGrow
<1>11. QED
  BY <1>2, <1>4, <1>7, <1>8, <1>10

(* define of a function: its symbol is no longer merely declared; its         *)
(* parameters get symbols; and if all is well, a body gets a table.         *)
DefineEffect(decl, key) ==
  /\ SymbolsGrow /\ TablesGrow
  /\ \A t \in DOMAIN symbols : t # SymbolOf(key) => symbols'[t] = symbols[t]
  /\ symbols'[SymbolOf(key)].status # "Declared"
  /\ error' = "none" => symbols'[SymbolOf(key)].status = "Defined"
  /\ \A t \in NewSymbols :
       /\ \E p \in Nat \ {0} : symbols'[t].decl = <<key[1], key[2], key[3], p>>
       /\ symbols'[t].extern = externKind
       /\ symbols'[t].alias # "" => externKind = "C"
  /\ error' = "none" => error = "none"
  /\ \/ listTable' = listTable /\ (decl.kind = "FUNC" => symbols'[SymbolOf(key)].status # "Defined")
     \/ /\ decl.kind = "FUNC" /\ symbols'[SymbolOf(key)].status = "Defined"
        /\ Len(tables') = Len(tables) + 1 /\ tables'[Len(tables) + 1].parent = table
        /\ listTable' = [listTable EXCEPT ![decl.body] = Len(tables) + 1]

(* The table a function's parameters are put in.                             *)
LEMMA ParameterTable ==
  ASSUME tables \in Seq(TableRecords), table \in Nat, NEW names \in [Names -> Nat],
         tables' = Append(tables, [parent |-> table, names |-> names])
  PROVE  TablesGrow /\ Len(tables') = Len(tables) + 1 /\ tables'[Len(tables) + 1].parent = table
<1> DEFINE new == [parent |-> table, names |-> names]
<1>1. new \in TableRecords /\ new.parent = table
  BY DEF TableRecords
<1>2. tables' = Append(tables, new)
  OBVIOUS
<1> HIDE DEF new
<1>3. /\ tables' \in Seq(TableRecords) /\ Len(tables') = Len(tables) + 1 /\ Len(tables) \in Nat
      /\ \A t \in DOMAIN tables : t \in DOMAIN tables' /\ tables'[t] = tables[t]
      /\ tables'[Len(tables) + 1] = new
  BY <1>1, <1>2
<1>4. QED
  BY <1>1, <1>3 DEF TablesGrow

(* define does that.                                                         *)
LEMMA DefineDoes ==
  ASSUME Typed, NEW decl \in Statements, IsFuncDecl(decl),
         NEW key \in Nat \X Nat \X Nat \X Nat, SymbolsOf(key) # {}, DefineFunction(decl, key)
  PROVE  DefineEffect(decl, key)
<1> DEFINE s == SymbolOf(key)
           fits == Fitting(decl.params)
           whole == fits = Len(decl.params)
           alias(p) == IF externKind = "C" THEN decl.params[p] ELSE ""
           more == [p \in 1 .. fits |->
                      Symbol(decl.params[p], <<key[1], key[2], key[3], p>>, "param",
                             externKind, alias(p), "Defined")]
           names == [n \in Names |-> IF \E p \in 1 .. fits : decl.params[p] = n
                                     THEN Len(symbols) + CHOOSE p \in 1 .. fits : decl.params[p] = n
                                     ELSE 0]
<1>1. /\ symbols \in Seq(SymbolRecords) /\ Len(symbols) \in Nat
      /\ tables \in Seq(TableRecords) /\ table \in Nat /\ externKind \in {"C", "Default"}
  BY DEF Typed
<1>2. s \in DOMAIN symbols
  BY SymbolOfIs
<1>3. decl.params \in Seq(STRING) /\ Len(decl.params) \in Nat
      /\ fits \in Nat /\ fits <= Len(decl.params)
  <2>1. decl.params \in Seq(STRING)
    BY KindFacts
  <2>2. Len(decl.params) \in Nat
    BY <2>1
  <2>3. QED
    BY <2>1, <2>2, FittingFacts
<1>4. CASE decl.variadic /\ symbols[s].extern # "C"
  <2>1. /\ symbols' = [symbols EXCEPT ![s].status = "BeingDefined"]
        /\ error' = "variadicRequiresC" /\ tables' = tables /\ listTable' = listTable
    BY <1>4 DEF DefineFunction
  <2>2. /\ SymbolsGrow /\ NewSymbols = {}
        /\ \A t \in DOMAIN symbols : t # s => symbols'[t] = symbols[t]
        /\ symbols'[s].status = "BeingDefined"
    BY <1>1, <1>2, <2>1, MarkedSymbol
  <2>3. TablesGrow
    BY <1>1, <2>1 DEF TablesGrow
  <2>4. QED
    BY <2>1, <2>2, <2>3 DEF DefineEffect
<1>5. CASE ~(decl.variadic /\ symbols[s].extern # "C")
  <2> DEFINE status == IF whole THEN "Defined" ELSE "BeingDefined"
  <2>1. /\ symbols' = [symbols EXCEPT ![s].status = status] \o more
        /\ tables' = Append(tables, [parent |-> table, names |-> names])
        /\ listTable' = IF whole /\ decl.kind = "FUNC"
                        THEN [listTable EXCEPT ![decl.body] = Len(tables) + 1] ELSE listTable
        /\ error' = IF whole THEN error ELSE "redefinition"
    BY <1>5 DEF DefineFunction
  <2>2. ASSUME NEW p \in 1 .. fits
        PROVE  /\ more[p] \in SymbolRecords
               /\ more[p].decl = <<key[1], key[2], key[3], p>> /\ more[p].extern = externKind
               /\ more[p].alias # "" => externKind = "C"
    <3>1. p \in Nat \ {0} /\ decl.params[p] \in STRING
      BY <1>3
    <3>2. alias(p) \in {""} \cup STRING /\ (alias(p) # "" => externKind = "C")
      BY <3>1
    <3> DEFINE k == <<key[1], key[2], key[3], p>>
               a == alias(p)
               n == decl.params[p]
    <3>3. more[p] = Symbol(n, k, "param", externKind, a, "Defined")
      OBVIOUS
    <3>4. k \in Nat \X Nat \X Nat \X Nat
      BY <3>1
    <3>5. a \in {""} \cup STRING /\ n \in STRING
      BY <3>1, <3>2
    <3> HIDE DEF alias, more, k, a, n
    <3>6. more[p] \in SymbolRecords
      BY <1>1, <3>3, <3>4, <3>5, SymbolIsRecord
    <3>7. more[p].decl = k /\ more[p].extern = externKind /\ more[p].alias = a
      BY <3>3 DEF Symbol
    <3>8. QED
      BY <3>2, <3>6, <3>7 DEF k, a
  <2>3. more \in Seq(SymbolRecords) /\ DOMAIN more = 1 .. fits
    <3>1. DOMAIN more = 1 .. fits
      OBVIOUS
    <3>2. more \in [1 .. fits -> SymbolRecords]
      BY <2>2
    <3> HIDE DEF more
    <3>3. QED
      BY <1>3, <3>1, <3>2, SeqDef
  <2>4. names \in [Names -> Nat]
    <3>1. ASSUME NEW n \in Names PROVE names[n] \in Nat
      <4>1. CASE \E p \in 1 .. fits : decl.params[p] = n
        <5> DEFINE p == CHOOSE p \in 1 .. fits : decl.params[p] = n
        <5>1. p \in 1 .. fits
          BY <4>1
        <5>2. names[n] = Len(symbols) + p
          BY <4>1
        <5> HIDE DEF p
        <5>3. QED
          BY <1>1, <1>3, <5>1, <5>2
      <4>2. CASE ~\E p \in 1 .. fits : decl.params[p] = n
        BY <4>2
      <4>3. QED
        BY <4>1, <4>2
    <3>2. QED
      BY <3>1
  <2>5. /\ status \in {"Declared", "BeingDefined", "Defined"} /\ status # "Declared"
        /\ (whole /\ status = "Defined") \/ (~whole /\ status = "BeingDefined")
    OBVIOUS
  <2> HIDE DEF more, names, status
  <2>6. /\ SymbolsGrow
        /\ \A t \in DOMAIN symbols : t # s => symbols'[t] = symbols[t]
        /\ symbols'[s].status = status
        /\ \A t \in NewSymbols : \E p \in DOMAIN more : symbols'[t] = more[p]
    BY <1>1, <1>2, <2>1, <2>3, <2>5, MarkedSymbols
  <2>7. TablesGrow /\ Len(tables') = Len(tables) + 1 /\ tables'[Len(tables) + 1].parent = table
    BY <1>1, <2>1, <2>4, ParameterTable
  <2>8. ASSUME NEW t \in NewSymbols
        PROVE  /\ \E p \in Nat \ {0} : symbols'[t].decl = <<key[1], key[2], key[3], p>>
               /\ symbols'[t].extern = externKind
               /\ symbols'[t].alias # "" => externKind = "C"
    <3>1. PICK p \in 1 .. fits : symbols'[t] = more[p]
      BY <2>3, <2>6
    <3>2. p \in Nat \ {0}
      BY <1>3
    <3>3. QED
      BY <2>2, <3>1, <3>2
  <2>9. /\ error' = "none" => error = "none" /\ status = "Defined"
        /\ \/ listTable' = listTable /\ (decl.kind = "FUNC" => status # "Defined")
           \/ /\ decl.kind = "FUNC" /\ status = "Defined"
              /\ listTable' = [listTable EXCEPT ![decl.body] = Len(tables) + 1]
    BY <2>1, <2>5
  <2>10. QED
    BY <2>5, <2>6, <2>7, <2>8, <2>9 DEF DefineEffect
<1>6. QED
  BY <1>4, <1>5

-----------------------------------------------------------------------------
(* What leaves the parts of the invariant alone.                             *)

(* With the tree, the symbols and the place the same, what depends on them is. *)
LEMMA SamePlace ==
  ASSUME UNCHANGED <<prog, symbols, frames>>
  PROVE  /\ Undeclared' = Undeclared /\ Undefined' = Undefined
         /\ Frame' = Frame /\ Stmt' = Stmt /\ AtStatement' = AtStatement
         /\ \A k : SymbolsOf(DeclHere(k))' = SymbolsOf(DeclHere(k))
BY DEF Undeclared, Undefined, SymbolsOf, SymbolOf, Frame, Stmt, AtStatement, DeclHere

(* What the symbols and the tables alone decide.                             *)
LEMMA SameSymbols ==
  ASSUME UNCHANGED <<prog, symbols, tables, listTable>>, error' = "none" => error = "none",
         DeclaredOnce, BodiesHaveTables
  PROVE  DeclaredOnce' /\ BodiesHaveTables'
<1>1. \A key : SymbolsOf(key)' = SymbolsOf(key)
  BY DEF SymbolsOf
<1>2. DeclaredOnce'
  BY DEF DeclaredOnce
<1>3. ASSUME NEW l \in DOMAIN prog, NEW i \in DOMAIN prog[l] PROVE FunctionDefined(l, i)' <=> FunctionDefined(l, i)
  BY <1>1 DEF FunctionDefined
<1>4. BodiesHaveTables'
  <2> SUFFICES ASSUME NEW l \in DOMAIN prog, NEW i \in DOMAIN prog[l]
               PROVE  /\ IsFuncDecl(prog[l][i]) /\ error' = "none" =>
                           \A s \in SymbolsOf(Key(l, i))' : symbols'[s].status # "BeingDefined"
                      /\ prog[l][i].kind = "FUNC" => FunctionDefined(l, i)'
    BY DEF BodiesHaveTables
  <2>1. QED
    BY <1>1, <1>3 DEF BodiesHaveTables
<1>5. QED
  BY <1>2, <1>4

(* Scopes stay nested while the frames keep their lists, which keep their      *)
(* tables.                                                                  *)
LEMMA NestedStays ==
  ASSUME Typed, Nested, TablesGrow,
         UNCHANGED <<table, returnType>>, Len(frames') = Len(frames), DOMAIN frames' = DOMAIN frames,
         frames # <<>>, frames' # <<>>,
         \A f \in DOMAIN frames :
           /\ frames'[f].list = frames[f].list /\ frames'[f].table = frames[f].table
           /\ frames'[f].returns = frames[f].returns
           /\ listTable'[frames[f].list] = listTable[frames[f].list]
  PROVE  Nested'
<1>1. Len(frames) \in Nat \ {0} /\ DOMAIN frames = 1 .. Len(frames) /\ 1 \in DOMAIN frames
  BY FrameFacts
<1>2. \A f \in DOMAIN frames : InnerTable(f)' = InnerTable(f)
  BY <1>1 DEF InnerTable
<1>3. ASSUME NEW f \in DOMAIN frames
      PROVE  /\ InnerTable(f)' = listTable'[frames'[f].list] /\ InnerTable(f)' # 0
             /\ tables'[InnerTable(f)'].parent = frames'[f].table
  <2>1. /\ InnerTable(f) = listTable[frames[f].list] /\ InnerTable(f) # 0
        /\ tables[InnerTable(f)].parent = frames[f].table
    BY DEF Nested
  <2>2. frames[f].list \in DOMAIN prog
    BY FrameFacts DEF FrameRecords
  <2>3. InnerTable(f) \in DOMAIN tables
    BY <2>1, <2>2 DEF Typed
  <2>4. tables'[InnerTable(f)].parent = tables[InnerTable(f)].parent
    BY <2>3 DEF TablesGrow
  <2>5. QED
    BY <1>2, <2>1, <2>4
<1>4. frames'[1].table = 0 /\ frames'[1].returns = "none"
  BY <1>1 DEF Nested
<1>5. \A f, g \in DOMAIN frames : f < g => frames'[f].list < frames'[g].list
  BY DEF Nested
<1>6. QED
  BY <1>3, <1>4, <1>5 DEF Nested

(* Linkage stays inside if it does for the new symbols.                       *)
LEMMA LinkageStays ==
  ASSUME Typed, LinkageStaysInside, SymbolsGrow,
         \A s \in NewSymbols :
           /\ symbols'[s].extern = "C" <=> symbols'[s].decl[3] # 0 /\ symbols'[s].decl[4] = 0
           /\ symbols'[s].alias # "" => symbols'[s].extern = "C",
         frames' = <<>> => externKind' = "Default"
  PROVE  LinkageStaysInside'
<1>1. ASSUME NEW s \in DOMAIN symbols'
      PROVE  /\ symbols'[s].extern = "C" <=> symbols'[s].decl[3] # 0 /\ symbols'[s].decl[4] = 0
             /\ symbols'[s].alias # "" => symbols'[s].extern = "C"
  <2>1. CASE s \in DOMAIN symbols
    <3>1. /\ symbols'[s].decl = symbols[s].decl /\ symbols'[s].extern = symbols[s].extern
          /\ symbols'[s].alias = symbols[s].alias
      BY <2>1 DEF SymbolsGrow
    <3>2. /\ symbols[s].extern = "C" <=> symbols[s].decl[3] # 0 /\ symbols[s].decl[4] = 0
          /\ symbols[s].alias # "" => symbols[s].extern = "C"
      BY <2>1 DEF LinkageStaysInside
    <3>3. QED
      BY <3>1, <3>2
  <2>2. CASE s \in NewSymbols
    BY <2>2
  <2>3. QED
    BY <2>1, <2>2 DEF NewSymbols
<1>2. QED
  BY <1>1 DEF LinkageStaysInside

(* A visit that leaves everything but the place in the statement alone.       *)
Beside == UNCHANGED <<prog, symbols, tables, listTable, frames, table, returnType>>

LEMMA BesideKeeps ==
  ASSUME ScopesInv, frames # <<>>, Beside, node' \in Nat, externKind' \in {"C", "Default"},
         error' = "none" => error = "none"
  PROVE  /\ Typed' /\ Nested' /\ DeclaredOnce' /\ BodiesHaveTables' /\ LinkageStaysInside'
         /\ SymbolsGrow /\ NewSymbols = {}
<1> USE DEF ScopesInv
<1>1. Typed'
  BY DEF Typed, Beside, FrameRecords
<1>2. SymbolsGrow /\ NewSymbols = {}
  BY DEF SymbolsGrow, NewSymbols, Typed, Beside
<1>3. TablesGrow
  BY DEF TablesGrow, Typed, Beside
<1>4. Nested'
  BY <1>3, NestedStays DEF Beside
<1>5. DeclaredOnce' /\ BodiesHaveTables'
  BY SameSymbols DEF Beside
<1>6. LinkageStaysInside'
  BY DEF LinkageStaysInside, Beside
<1>7. QED
  BY <1>1, <1>2, <1>4, <1>5, <1>6

-----------------------------------------------------------------------------
(* The visits, one by one.  First those that stay at their statement.        *)

(* Where the visit of a statement is.                                        *)
StageIs(externs, n) ==
  /\ n # 0 => AtStatement /\ Stmt.kind # "FUNC" /\ Undeclared = {} /\ Undefined = {}
  /\ externs = "C" <=> AtStatement /\ Stmt.kind = "EXTERN" /\ n \in 1 .. Len(Stmt.decls) + 1
  /\ AtStatement /\ Stmt.kind = "EXTERN" => \A k \in DOMAIN Stmt.decls : k < n => SymbolsOf(DeclHere(k)) # {}

(* The stage at the same place.                                              *)
LEMMA StagedAtPlace ==
  ASSUME UNCHANGED <<prog, symbols, frames>>, frames # <<>>,
         error' = "none" => StageIs(externKind', node')
  PROVE  Staged'
<1>1. /\ Undeclared' = Undeclared /\ Undefined' = Undefined
      /\ Frame' = Frame /\ Stmt' = Stmt /\ AtStatement' = AtStatement
      /\ \A k : SymbolsOf(DeclHere(k))' = SymbolsOf(DeclHere(k))
  BY SamePlace
<1>2. QED
  BY <1>1 DEF Staged, StageIs, Going

(* Statements being visited, and how many declarations an EXTERN has.         *)
LEMMA VisitFacts ==
  ASSUME ScopesInv, NEW kinds, Visiting(kinds)
  PROVE  /\ frames # <<>> /\ error = "none" /\ Going /\ AtStatement /\ Undeclared = {} /\ Undefined = {}
         /\ Stmt \in Statements /\ Stmt = prog[Frame.list][Frame.at] /\ Stmt.kind \in kinds
         /\ Frame.list \in DOMAIN prog /\ Frame.at \in DOMAIN prog[Frame.list]
         /\ node \in Nat /\ StageIs(externKind, node) /\ table # 0
         /\ Stmt.kind = "EXTERN" => Stmt.decls \in Seq(Prototypes) /\ Len(Stmt.decls) \in Nat
                                    /\ DOMAIN Stmt.decls = 1 .. Len(Stmt.decls)
<1>1. frames # <<>> /\ error = "none" /\ Going /\ AtStatement /\ Undeclared = {} /\ Undefined = {}
      /\ Stmt.kind \in kinds
  BY DEF Visiting, Going, AtStatement
<1>2. /\ Stmt \in Statements /\ Stmt = prog[Frame.list][Frame.at]
      /\ Frame.list \in DOMAIN prog /\ Frame.at \in DOMAIN prog[Frame.list]
  BY <1>1, AtStatementFacts DEF ScopesInv
<1>3. node \in Nat /\ StageIs(externKind, node)
  BY <1>1 DEF ScopesInv, Typed, Staged, StageIs
<1>4. table # 0
  <2>1. Len(frames) \in DOMAIN frames
    BY <1>1, FrameFacts DEF ScopesInv
  <2>2. QED
    BY <2>1 DEF ScopesInv, Nested, InnerTable
<1>5. ASSUME Stmt.kind = "EXTERN"
      PROVE  Stmt.decls \in Seq(Prototypes) /\ Len(Stmt.decls) \in Nat /\ DOMAIN Stmt.decls = 1 .. Len(Stmt.decls)
  <2>1. Stmt.decls \in Seq(Prototypes)
    BY <1>2, <1>5, KindFacts
  <2>2. QED
    BY <2>1
<1>6. QED
  BY <1>1, <1>2, <1>3, <1>4, <1>5

(* A diagnostic.                                                             *)
LEMMA RefusalKeeps ==
  ASSUME ScopesInv, frames # <<>>, NEW diagnostic, diagnostic # "none", Refuse(diagnostic)
  PROVE  ScopesInv'
<1>1. Beside /\ UNCHANGED <<node, externKind>> /\ error' # "none"
  BY DEF Refuse, Beside
<1>2. node' \in Nat /\ externKind' \in {"C", "Default"}
  BY <1>1 DEF ScopesInv, Typed
<1>3. /\ Typed' /\ Nested' /\ DeclaredOnce' /\ BodiesHaveTables' /\ LinkageStaysInside'
  BY <1>1, <1>2, BesideKeeps
<1>4. Staged'
  BY <1>1, StagedAtPlace DEF Beside
<1>5. QED
  BY <1>3, <1>4 DEF ScopesInv

(* RETURN where it is not allowed.                                           *)
LEMMA RefuseReturnKeeps == ScopesInv /\ RefuseReturn => ScopesInv'
<1> SUFFICES ASSUME ScopesInv, RefuseReturn PROVE ScopesInv'
  OBVIOUS
<1>1. frames # <<>> /\ ReturnRefused # "none" /\ Refuse(ReturnRefused)
  BY VisitFacts DEF RefuseReturn
<1>2. QED
  BY <1>1, RefusalKeeps

(* A node of an expression.                                                  *)
LEMMA VisitNodeKeeps == ScopesInv /\ VisitNode => ScopesInv'
<1> SUFFICES ASSUME ScopesInv, VisitNode PROVE ScopesInv'
  OBVIOUS
<1> DEFINE e == Stmt.expr[node + 1]
<1>1. Visiting({"DIM", "EXPR", "ASSIGN", "RETURN"})
  BY DEF VisitNode
<1>2. /\ frames # <<>> /\ error = "none" /\ Going /\ AtStatement /\ Undeclared = {} /\ Undefined = {}
      /\ Stmt.kind \in {"DIM", "EXPR", "ASSIGN", "RETURN"} /\ node \in Nat /\ StageIs(externKind, node)
  BY <1>1, VisitFacts
<1>3. CASE NodeRefused(e) # "none"
  <2>1. Refuse(NodeRefused(e))
    BY <1>3 DEF VisitNode
  <2>2. QED
    BY <1>2, <1>3, <2>1, RefusalKeeps
<1>4. CASE NodeRefused(e) = "none"
  <2>1. node' = node + 1 /\ Beside /\ UNCHANGED <<externKind, error>>
    BY <1>4 DEF VisitNode, Beside
  <2>2. node' \in Nat /\ externKind' \in {"C", "Default"}
    BY <1>2, <2>1 DEF ScopesInv, Typed
  <2>3. /\ Typed' /\ Nested' /\ DeclaredOnce' /\ BodiesHaveTables' /\ LinkageStaysInside'
    BY <1>2, <2>1, <2>2, BesideKeeps
  <2>4. StageIs(externKind', node')
    BY <1>2, <2>1 DEF StageIs
  <2>5. Staged'
    BY <1>2, <2>1, <2>4, StagedAtPlace DEF Beside
  <2>6. QED
    BY <2>3, <2>5 DEF ScopesInv
<1>5. QED
  BY <1>3, <1>4

(* The start of an EXTERN block.                                             *)
LEMMA BeginExternKeeps == ScopesInv /\ BeginExtern => ScopesInv'
<1> SUFFICES ASSUME ScopesInv, BeginExtern PROVE ScopesInv'
  OBVIOUS
<1>1. Visiting({"EXTERN"}) /\ node = 0
  BY DEF BeginExtern
<1>2. /\ frames # <<>> /\ error = "none" /\ Going /\ AtStatement /\ Undeclared = {} /\ Undefined = {}
      /\ Stmt.kind = "EXTERN" /\ StageIs(externKind, node)
      /\ Len(Stmt.decls) \in Nat /\ DOMAIN Stmt.decls = 1 .. Len(Stmt.decls)
  BY <1>1, VisitFacts
<1>3. node' = 1 /\ externKind' = "C" /\ Beside /\ UNCHANGED error
  BY DEF BeginExtern, Beside
<1>4. /\ Typed' /\ Nested' /\ DeclaredOnce' /\ BodiesHaveTables' /\ LinkageStaysInside'
  BY <1>2, <1>3, BesideKeeps
<1>5. StageIs("C", 1)
  BY <1>2 DEF StageIs
<1>6. Staged'
  BY <1>2, <1>3, <1>5, StagedAtPlace DEF Beside
<1>7. QED
  BY <1>4, <1>6 DEF ScopesInv

(* The return to the default linkage.                                        *)
LEMMA EndLinkageKeeps == ScopesInv /\ EndLinkage => ScopesInv'
<1> SUFFICES ASSUME ScopesInv, EndLinkage PROVE ScopesInv'
  OBVIOUS
<1>1. Visiting({"EXTERN"}) /\ node = Len(Stmt.decls) + 1
  BY DEF EndLinkage
<1>2. /\ frames # <<>> /\ error = "none" /\ Going /\ AtStatement /\ Undeclared = {} /\ Undefined = {}
      /\ Stmt.kind = "EXTERN" /\ StageIs(externKind, node)
      /\ Len(Stmt.decls) \in Nat /\ DOMAIN Stmt.decls = 1 .. Len(Stmt.decls)
  BY <1>1, VisitFacts
<1>3. node' = node + 1 /\ externKind' = "Default" /\ Beside /\ UNCHANGED error
  BY DEF EndLinkage, Beside
<1>4. /\ Typed' /\ Nested' /\ DeclaredOnce' /\ BodiesHaveTables' /\ LinkageStaysInside'
  BY <1>1, <1>2, <1>3, BesideKeeps
<1>5. StageIs("Default", node + 1)
  <2>1. ~(node + 1 \in 1 .. Len(Stmt.decls) + 1)
    BY <1>1, <1>2
  <2>2. \A k \in DOMAIN Stmt.decls : k < node
    BY <1>1, <1>2
  <2>3. QED
    BY <1>2, <2>1, <2>2 DEF StageIs
<1>6. Staged'
  BY <1>2, <1>3, <1>5, StagedAtPlace DEF Beside
<1>7. QED
  BY <1>4, <1>6 DEF ScopesInv

-----------------------------------------------------------------------------
(* Then the ends of statements.                                              *)

(* Before a statement is visited nothing of it is.                           *)
LEMMA Unvisited == Typed /\ node = 0 /\ externKind = "Default" => Staged
<1> SUFFICES ASSUME Typed, node = 0, externKind = "Default" PROVE Staged
  OBVIOUS
<1>1. ASSUME frames # <<>>, AtStatement, Stmt.kind = "EXTERN", NEW k \in DOMAIN Stmt.decls, k < node
      PROVE  FALSE
  <2>1. Stmt.decls \in Seq(Prototypes)
    BY <1>1, AtStatementFacts, KindFacts
  <2>2. QED
    BY <1>1, <2>1
<1>2. QED
  BY <1>1 DEF Staged, Going

(* The same of the states to come.                                           *)
LEMMA UnvisitedNext == Typed' /\ node' = 0 /\ externKind' = "Default" => Staged'
<1>1. (Typed /\ node = 0 /\ externKind = "Default" => Staged)'
  BY Unvisited, PTL
<1>2. QED
  BY <1>1

(* The next statement of the list.                                           *)
LEMMA FinishFacts ==
  ASSUME Typed, frames # <<>>, Finish
  PROVE  /\ frames' \in Seq(FrameRecords) /\ Len(frames') = Len(frames) /\ DOMAIN frames' = DOMAIN frames
         /\ frames' # <<>> /\ node' = 0
         /\ \A f \in DOMAIN frames :
              /\ frames'[f].list = frames[f].list /\ frames'[f].table = frames[f].table
              /\ frames'[f].returns = frames[f].returns
<1> DEFINE next == [Frame EXCEPT !.at = @ + 1]
<1>1. /\ Len(frames) \in Nat \ {0} /\ DOMAIN frames = 1 .. Len(frames) /\ Len(frames) \in DOMAIN frames
      /\ Frame \in FrameRecords /\ frames \in Seq(FrameRecords)
  BY FrameFacts DEF Typed
<1>2. /\ next \in FrameRecords
      /\ next.list = Frame.list /\ next.table = Frame.table /\ next.returns = Frame.returns
  <2>1. Frame.at \in Nat \ {0} /\ Frame.at + 1 \in Nat \ {0}
    BY <1>1 DEF FrameRecords
  <2> DEFINE n == Frame.at + 1
  <2>2. next = [Frame EXCEPT !.at = n]
    OBVIOUS
  <2> HIDE DEF n, next
  <2>3. QED
    BY <1>1, <2>1, <2>2 DEF FrameRecords, n
<1>3. frames' = [frames EXCEPT ![Len(frames)] = next] /\ node' = 0
  BY DEF Finish, Frame
<1> HIDE DEF next
<1>4. frames' \in Seq(FrameRecords) /\ Len(frames') = Len(frames) /\ DOMAIN frames' = DOMAIN frames
  BY <1>1, <1>2, <1>3
<1>5. frames' # <<>>
  BY <1>1, <1>4
<1>6. \A f \in DOMAIN frames :
        /\ frames'[f].list = frames[f].list /\ frames'[f].table = frames[f].table
        /\ frames'[f].returns = frames[f].returns
  BY <1>1, <1>2, <1>3 DEF Frame
<1>7. QED
  BY <1>3, <1>4, <1>5, <1>6

(* A statement is finished without more ado.                                  *)
LEMMA FinishKeeps ==
  ASSUME ScopesInv, frames # <<>>, externKind = "Default", Finish,
         UNCHANGED <<prog, symbols, tables, listTable, table, returnType, externKind, error>>
  PROVE  ScopesInv'
<1> USE DEF ScopesInv
<1>1. /\ frames' \in Seq(FrameRecords) /\ Len(frames') = Len(frames) /\ DOMAIN frames' = DOMAIN frames
      /\ frames' # <<>> /\ node' = 0
      /\ \A f \in DOMAIN frames :
           /\ frames'[f].list = frames[f].list /\ frames'[f].table = frames[f].table
           /\ frames'[f].returns = frames[f].returns
  BY FinishFacts
<1>2. Typed'
  BY <1>1 DEF Typed, FrameRecords
<1>3. TablesGrow
  BY DEF TablesGrow, Typed
<1>4. Nested'
  BY <1>1, <1>3, NestedStays
<1>5. DeclaredOnce' /\ BodiesHaveTables'
  BY SameSymbols
<1>6. LinkageStaysInside'
  BY <1>1 DEF LinkageStaysInside
<1>7. Staged'
  BY <1>1, <1>2, UnvisitedNext
<1>8. QED
  BY <1>2, <1>4, <1>5, <1>6, <1>7

(* Outside an EXTERN block the linkage is the default one.                    *)
LEMMA DefaultOutside ==
  ASSUME ScopesInv, NEW kinds, "EXTERN" \notin kinds, Visiting(kinds)
  PROVE  externKind = "Default"
<1>1. Stmt.kind # "EXTERN" /\ StageIs(externKind, node)
  BY VisitFacts
<1>2. QED
  BY <1>1 DEF ScopesInv, Typed, StageIs

(* A prototype.                                                              *)
LEMMA VisitDeclareKeeps == ScopesInv /\ VisitDeclare => ScopesInv'
<1> SUFFICES ASSUME ScopesInv, VisitDeclare PROVE ScopesInv'
  OBVIOUS
<1>1. Visiting({"DECLARE"})
  BY DEF VisitDeclare
<1>2. frames # <<>> /\ externKind = "Default"
  BY <1>1, VisitFacts, DefaultOutside
<1>3. QED
  BY <1>2, FinishKeeps DEF VisitDeclare

(* The end of an expression statement, an assignment or a RETURN.             *)
LEMMA EndStatementKeeps == ScopesInv /\ EndStatement => ScopesInv'
<1> SUFFICES ASSUME ScopesInv, EndStatement PROVE ScopesInv'
  OBVIOUS
<1>1. Visiting({"EXPR", "ASSIGN", "RETURN"})
  BY DEF EndStatement
<1>2. frames # <<>> /\ externKind = "Default"
  BY <1>1, VisitFacts, DefaultOutside
<1>3. QED
  BY <1>2, FinishKeeps DEF EndStatement

(* The end of an EXTERN block.                                               *)
LEMMA EndExternKeeps == ScopesInv /\ EndExtern => ScopesInv'
<1> SUFFICES ASSUME ScopesInv, EndExtern PROVE ScopesInv'
  OBVIOUS
<1>1. Visiting({"EXTERN"}) /\ node = 2 * Len(Stmt.decls) + 2
  BY DEF EndExtern
<1>2. /\ frames # <<>> /\ StageIs(externKind, node) /\ Len(Stmt.decls) \in Nat
  BY <1>1, VisitFacts
<1>3. ~(node \in 1 .. Len(Stmt.decls) + 1)
  BY <1>1, <1>2
<1>4. externKind = "Default"
  BY <1>2, <1>3 DEF StageIs, ScopesInv, Typed
<1>5. QED
  BY <1>2, <1>4, FinishKeeps DEF EndExtern

-----------------------------------------------------------------------------
(* What a change of the symbols leaves alone.                                *)

(* The symbols of the declaration at <<l, i>> keep their status.              *)
Unmarked(l, i) == \A s \in SymbolsOf(Key(l, i)) : symbols'[s].status = symbols[s].status

(* New symbols are for declarations without, of lists with tables.           *)
LEMMA OnceStays ==
  ASSUME Typed, DeclaredOnce, SymbolsGrow, prog' = prog,
         \A l \in DOMAIN prog : listTable[l] # 0 => listTable'[l] # 0,
         \A s \in NewSymbols : Plain(symbols'[s].decl) =>
           /\ SymbolsOf(symbols'[s].decl) = {}
           /\ symbols'[s].decl[1] \in DOMAIN prog /\ listTable'[symbols'[s].decl[1]] # 0
           /\ \A t \in NewSymbols : s = t
  PROVE  DeclaredOnce'
<1>1. ASSUME NEW s \in DOMAIN symbols', NEW t \in DOMAIN symbols',
             Plain(symbols'[s].decl), symbols'[s].decl = symbols'[t].decl
      PROVE  s = t
  <2>1. CASE s \in DOMAIN symbols /\ t \in DOMAIN symbols
    <3>1. symbols'[s].decl = symbols[s].decl /\ symbols'[t].decl = symbols[t].decl
      BY <2>1 DEF SymbolsGrow
    <3>2. QED
      BY <1>1, <2>1, <3>1 DEF DeclaredOnce
  <2>2. CASE s \in NewSymbols /\ t \in DOMAIN symbols
    <3>1. symbols[t].decl = symbols'[s].decl
      BY <1>1, <2>2 DEF SymbolsGrow
    <3>2. t \in SymbolsOf(symbols'[s].decl)
      BY <2>2, <3>1 DEF SymbolsOf
    <3>3. QED
      BY <1>1, <2>2, <3>2
  <2>3. CASE t \in NewSymbols /\ s \in DOMAIN symbols
    <3>1. symbols[s].decl = symbols'[t].decl /\ Plain(symbols'[t].decl)
      BY <1>1, <2>3 DEF SymbolsGrow
    <3>2. s \in SymbolsOf(symbols'[t].decl)
      BY <2>3, <3>1 DEF SymbolsOf
    <3>3. QED
      BY <2>3, <3>1, <3>2
  <2>4. CASE s \in NewSymbols /\ t \in NewSymbols
    BY <1>1, <2>4
  <2>5. QED
    BY <2>1, <2>2, <2>3, <2>4 DEF NewSymbols
<1>2. ASSUME NEW s \in DOMAIN symbols', Plain(symbols'[s].decl)
      PROVE  symbols'[s].decl[1] \in DOMAIN prog /\ listTable'[symbols'[s].decl[1]] # 0
  <2>1. CASE s \in DOMAIN symbols
    <3>1. symbols'[s].decl = symbols[s].decl
      BY <2>1 DEF SymbolsGrow
    <3>2. symbols[s].decl[1] \in DOMAIN prog /\ listTable[symbols[s].decl[1]] # 0
      BY <1>2, <2>1, <3>1 DEF DeclaredOnce
    <3>3. QED
      BY <3>1, <3>2
  <2>2. CASE s \in NewSymbols
    BY <1>2, <2>2
  <2>3. QED
    BY <2>1, <2>2 DEF NewSymbols
<1>3. QED
  BY <1>1, <1>2 DEF DeclaredOnce

(* What BodiesHaveTables says of the declaration at <<l, i>>.                 *)
BodyHasTable(l, i) ==
  /\ IsFuncDecl(prog[l][i]) /\ error = "none" =>
       \A s \in SymbolsOf(Key(l, i)) : symbols[s].status # "BeingDefined"
  /\ prog[l][i].kind = "FUNC" => FunctionDefined(l, i)

(* A function that nothing happens to stays as it is.                         *)
LEMMA BodyStays ==
  ASSUME Typed, DeclaredOnce, BodiesHaveTables, SymbolsGrow, TablesGrow, prog' = prog,
         error' = "none" => error = "none",
         NEW l \in DOMAIN prog, NEW i \in DOMAIN prog[l],
         \A s \in NewSymbols : symbols'[s].decl # Key(l, i),
         IsFuncDecl(prog[l][i]) => Unmarked(l, i),
         prog[l][i].kind = "FUNC" => listTable'[prog[l][i].body] = listTable[prog[l][i].body],
         listTable[l] # 0 => listTable'[l] = listTable[l]
  PROVE  BodyHasTable(l, i)'
<1> DEFINE b == prog[l][i].body
           S == SymbolsOf(Key(l, i))
<1>1. SymbolsOf(Key(l, i))' = S
  BY SymbolStays DEF Key
<1>2. BodyHasTable(l, i)
  BY DEF BodiesHaveTables, BodyHasTable
<1>3. ASSUME IsFuncDecl(prog[l][i]), error' = "none" PROVE \A s \in S : symbols'[s].status # "BeingDefined"
  BY <1>2, <1>3 DEF BodyHasTable, Unmarked
<1>4. ASSUME prog[l][i].kind = "FUNC"
      PROVE  /\ \A s \in S : symbols'[s].status = "Defined" =>
                  listTable'[b] # 0 /\ tables'[listTable'[b]].parent = listTable'[l]
             /\ listTable'[b] # 0 => \E s \in S : symbols'[s].status = "Defined"
  <2>1. IsFuncDecl(prog[l][i]) /\ FunctionDefined(l, i) /\ Unmarked(l, i) /\ listTable'[b] = listTable[b]
    BY <1>2, <1>4 DEF BodyHasTable, IsFuncDecl
  <2>2. ASSUME NEW s \in S, symbols'[s].status = "Defined"
        PROVE  listTable'[b] # 0 /\ tables'[listTable'[b]].parent = listTable'[l]
    <3>1. listTable[b] # 0 /\ tables[listTable[b]].parent = listTable[l]
      BY <2>1, <2>2 DEF FunctionDefined, Unmarked
    <3>2. s \in DOMAIN symbols /\ symbols[s].decl = Key(l, i)
      BY <2>2 DEF SymbolsOf
    <3>3. Plain(symbols[s].decl) /\ symbols[s].decl[1] = l
      BY <3>2 DEF Plain, Key
    <3>4. listTable[l] # 0
      BY <3>2, <3>3 DEF DeclaredOnce
    <3>5. b \in DOMAIN prog
      BY <1>4, BodyFacts DEF Typed
    <3>6. listTable[b] \in DOMAIN tables
      BY <3>1, <3>5 DEF Typed
    <3>7. tables'[listTable[b]].parent = tables[listTable[b]].parent
      BY <3>6 DEF TablesGrow
    <3>8. QED
      BY <2>1, <3>1, <3>4, <3>7
  <2>3. ASSUME listTable'[b] # 0 PROVE \E s \in S : symbols'[s].status = "Defined"
    BY <2>1, <2>3 DEF FunctionDefined, Unmarked
  <2>4. QED
    BY <2>2, <2>3
<1>5. QED
  BY <1>1, <1>3, <1>4 DEF BodyHasTable, FunctionDefined

(* And so do all.                                                            *)
LEMMA BodiesStay ==
  ASSUME prog' = prog, \A l \in DOMAIN prog : \A i \in DOMAIN prog[l] : BodyHasTable(l, i)'
  PROVE  BodiesHaveTables'
BY DEF BodiesHaveTables, BodyHasTable

(* No declaration of the list waits again.                                    *)
LEMMA NothingWaits ==
  ASSUME Typed, frames # <<>>, SymbolsGrow, prog' = prog, Frame'.list = Frame.list,
         Undeclared = {}, Undefined = {},
         \A s \in NewSymbols : ~Plain(symbols'[s].decl),
         \A i \in DOMAIN prog[Frame.list] : IsFuncDecl(prog[Frame.list][i]) => Unmarked(Frame.list, i)
  PROVE  Undeclared' = {} /\ Undefined' = {}
<1> DEFINE l == Frame.list
<1>1. ASSUME NEW i \in DOMAIN prog[l], IsDecl(prog[l][i])
      PROVE  SymbolsOf(Key(l, i)) # {} /\ {s \in DOMAIN symbols' : symbols'[s].decl = Key(l, i)} = SymbolsOf(Key(l, i))
  <2>1. SymbolsOf(Key(l, i)) # {}
    BY <1>1 DEF Undeclared, Key
  <2>2. \A s \in NewSymbols : symbols'[s].decl # Key(l, i)
    BY DEF Plain, Key
  <2>3. QED
    BY <2>1, <2>2, SymbolsStay
<1>2. ASSUME NEW i \in DOMAIN prog[l], IsFuncDecl(prog[l][i])
      PROVE  symbols'[CHOOSE s \in SymbolsOf(Key(l, i)) : TRUE].status # "Declared"
  <2>1. IsDecl(prog[l][i])
    BY <1>2 DEF IsDecl, IsFuncDecl
  <2>2. SymbolsOf(Key(l, i)) # {}
    BY <1>1, <2>1
  <2>3. SymbolOf(Key(l, i)) \in SymbolsOf(Key(l, i))
    BY <2>2 DEF SymbolOf
  <2>4. symbols[SymbolOf(Key(l, i))].status # "Declared"
    BY <1>2 DEF Undefined, Key
  <2>5. symbols'[SymbolOf(Key(l, i))].status # "Declared"
    BY <1>2, <2>3, <2>4 DEF Unmarked
  <2>6. QED
    BY <2>5 DEF SymbolOf
<1>3. Undeclared' = {i \in DOMAIN prog[l] :
        IsDecl(prog[l][i]) /\ {s \in DOMAIN symbols' : symbols'[s].decl = Key(l, i)} = {}}
  BY DEF Undeclared, SymbolsOf, Key
<1>4. Undefined' = {i \in DOMAIN prog[l] :
        IsFuncDecl(prog[l][i]) /\
        symbols'[CHOOSE s \in {s \in DOMAIN symbols' : symbols'[s].decl = Key(l, i)} : TRUE].status = "Declared"}
  BY DEF Undefined, SymbolOf, SymbolsOf, Key
<1>5. ASSUME NEW i \in DOMAIN prog[l], IsFuncDecl(prog[l][i])
      PROVE  symbols'[CHOOSE s \in {s \in DOMAIN symbols' : symbols'[s].decl = Key(l, i)} : TRUE].status # "Declared"
  <2>1. IsDecl(prog[l][i])
    BY <1>5 DEF IsDecl, IsFuncDecl
  <2>2. {s \in DOMAIN symbols' : symbols'[s].decl = Key(l, i)} = SymbolsOf(Key(l, i))
    BY <1>1, <2>1
  <2>3. QED
    BY <1>2, <1>5, <2>2
<1>6. QED
  BY <1>1, <1>3, <1>4, <1>5

-----------------------------------------------------------------------------
(* DIM.                                                                      *)

(* Its symbol takes another status: that touches no function.                *)
LEMMA MarkVariable ==
  ASSUME ScopesInv, Visiting({"DIM"}), NEW status \in {"Declared", "BeingDefined", "Defined"},
         symbols' = [symbols EXCEPT ![SymbolOf(DeclHere(0))].status = status],
         UNCHANGED <<prog, tables, listTable, error>>,
         frames' # <<>>, Frame'.list = Frame.list
  PROVE  /\ SymbolsGrow /\ NewSymbols = {} /\ TablesGrow
         /\ DeclaredOnce' /\ BodiesHaveTables' /\ LinkageStaysInside'
         /\ Undeclared' = {} /\ Undefined' = {}
<1> DEFINE s == SymbolOf(DeclHere(0))
<1> USE DEF ScopesInv
<1>1. /\ frames # <<>> /\ error = "none" /\ Undeclared = {} /\ Undefined = {}
      /\ Stmt = prog[Frame.list][Frame.at] /\ Stmt.kind = "DIM"
      /\ Frame.list \in DOMAIN prog /\ Frame.at \in DOMAIN prog[Frame.list]
  BY VisitFacts
<1>2. DeclHere(0) = Key(Frame.list, Frame.at)
  BY DEF DeclHere, Key
<1>3. SymbolsOf(Key(Frame.list, Frame.at)) # {}
  BY <1>1 DEF Undeclared, Key, IsDecl
<1>4. s \in DOMAIN symbols /\ symbols[s].decl = Key(Frame.list, Frame.at)
  BY <1>2, <1>3, SymbolOfIs
<1>5. /\ SymbolsGrow /\ NewSymbols = {}
      /\ \A t \in DOMAIN symbols : t # s => symbols'[t] = symbols[t]
  <2>1. symbols \in Seq(SymbolRecords)
    BY DEF Typed
  <2> HIDE DEF s
  <2>2. symbols' = [symbols EXCEPT ![s].status = status]
    BY DEF s
  <2>3. QED
    BY <1>4, <2>1, <2>2, MarkedSymbol
<1>6. TablesGrow
  BY DEF TablesGrow, Typed
<1>7. DeclaredOnce'
  BY <1>5, OnceStays
<1>8. ASSUME NEW l \in DOMAIN prog, NEW i \in DOMAIN prog[l], IsFuncDecl(prog[l][i])
      PROVE  Unmarked(l, i)
  <2>1. Key(l, i) # Key(Frame.list, Frame.at)
    BY <1>1, <1>8 DEF Key, IsFuncDecl
  <2>2. \A t \in SymbolsOf(Key(l, i)) : t \in DOMAIN symbols /\ t # s
    BY <1>4, <2>1 DEF SymbolsOf
  <2>3. QED
    BY <1>5, <2>2 DEF Unmarked
<1>9. ASSUME NEW l \in DOMAIN prog, NEW i \in DOMAIN prog[l] PROVE BodyHasTable(l, i)'
  BY <1>5, <1>6, <1>8, BodyStays
<1>10. BodiesHaveTables'
  BY <1>9, BodiesStay
<1>11. LinkageStaysInside'
  BY <1>5, LinkageStays
<1>12. Undeclared' = {} /\ Undefined' = {}
  BY <1>1, <1>5, <1>8, NothingWaits
<1>13. QED
  BY <1>5, <1>6, <1>7, <1>10, <1>11, <1>12

(* The symbol, before its initialiser.                                       *)
LEMMA BeginDimKeeps == ScopesInv /\ BeginDim => ScopesInv'
<1> SUFFICES ASSUME ScopesInv, BeginDim PROVE ScopesInv'
  OBVIOUS
<1>1. Visiting({"DIM"})
  BY DEF BeginDim
<1>2. /\ symbols' = [symbols EXCEPT ![SymbolOf(DeclHere(0))].status = "BeingDefined"]
      /\ UNCHANGED <<prog, tables, listTable, frames, node, table, returnType, externKind, error>>
  BY DEF BeginDim
<1>3. frames # <<>> /\ Stmt.kind = "DIM" /\ AtStatement /\ StageIs(externKind, node)
  BY <1>1, VisitFacts
<1>4. Frame' = Frame /\ Stmt' = Stmt /\ AtStatement' = AtStatement
  BY <1>2 DEF Frame, Stmt, AtStatement
<1>5. /\ SymbolsGrow /\ NewSymbols = {} /\ TablesGrow
      /\ DeclaredOnce' /\ BodiesHaveTables' /\ LinkageStaysInside'
      /\ Undeclared' = {} /\ Undefined' = {}
  BY <1>1, <1>2, <1>3, <1>4, MarkVariable
<1>6. Typed'
  BY <1>2, <1>5 DEF ScopesInv, Typed, FrameRecords, SymbolsGrow
<1>7. Nested'
  BY <1>2, <1>3, <1>5, NestedStays DEF ScopesInv
<1>8. Staged'
  BY <1>2, <1>3, <1>4, <1>5 DEF Staged, StageIs, Going
<1>9. QED
  BY <1>5, <1>6, <1>7, <1>8 DEF ScopesInv

(* The symbol, after it.                                                     *)
LEMMA EndDimKeeps == ScopesInv /\ EndDim => ScopesInv'
<1> SUFFICES ASSUME ScopesInv, EndDim PROVE ScopesInv'
  OBVIOUS
<1>1. Visiting({"DIM"}) /\ Finish
  BY DEF EndDim
<1>2. /\ symbols' = [symbols EXCEPT ![SymbolOf(DeclHere(0))].status = "Defined"]
      /\ UNCHANGED <<prog, tables, listTable, table, returnType, externKind, error>>
  BY DEF EndDim
<1>3. frames # <<>> /\ externKind = "Default"
  BY <1>1, VisitFacts, DefaultOutside
<1>4. /\ frames' \in Seq(FrameRecords) /\ Len(frames') = Len(frames) /\ DOMAIN frames' = DOMAIN frames
      /\ frames' # <<>> /\ node' = 0
      /\ \A f \in DOMAIN frames :
           /\ frames'[f].list = frames[f].list /\ frames'[f].table = frames[f].table
           /\ frames'[f].returns = frames[f].returns
  BY <1>1, <1>3, FinishFacts DEF ScopesInv
<1>5. Frame'.list = Frame.list
  BY <1>3, <1>4, FrameFacts DEF Frame, ScopesInv
<1>6. /\ SymbolsGrow /\ TablesGrow /\ DeclaredOnce' /\ BodiesHaveTables' /\ LinkageStaysInside'
  BY <1>1, <1>2, <1>4, <1>5, MarkVariable
<1>7. Typed'
  BY <1>2, <1>4, <1>6 DEF ScopesInv, Typed, FrameRecords, SymbolsGrow
<1>8. Nested'
  BY <1>2, <1>3, <1>4, <1>6, NestedStays DEF ScopesInv
<1>9. Staged'
  BY <1>2, <1>3, <1>4, <1>7, UnvisitedNext
<1>10. QED
  BY <1>6, <1>7, <1>8, <1>9 DEF ScopesInv

-----------------------------------------------------------------------------
(* Declarations.                                                             *)

(* A new symbol for a declaration that had none.                             *)
LEMMA DeclareEffectKeeps ==
  ASSUME ScopesInv, frames # <<>>, NEW key, DeclareEffect(key), node' \in Nat,
         externKind = "C" <=> key[3] # 0 /\ key[4] = 0,
         Plain(key) => SymbolsOf(key) = {} /\ key[1] \in DOMAIN prog /\ listTable[key[1]] # 0
  PROVE  Typed' /\ Nested' /\ DeclaredOnce' /\ BodiesHaveTables' /\ LinkageStaysInside'
<1> USE DEF ScopesInv
<1> DEFINE n == Len(symbols) + 1
<1>1. /\ SymbolsGrow /\ TablesGrow /\ Len(tables') = Len(tables) /\ NewSymbols = {n}
      /\ \A s \in DOMAIN symbols : symbols'[s] = symbols[s]
      /\ symbols'[n].decl = key /\ symbols'[n].extern = externKind
      /\ symbols'[n].status = "Declared" /\ (symbols'[n].alias # "" => externKind = "C")
      /\ UNCHANGED <<prog, listTable, frames, table, returnType, externKind, error>>
  BY DEF DeclareEffect
<1> HIDE DEF n
<1>2. Typed'
  <2>1. symbols' \in Seq(SymbolRecords) /\ tables' \in Seq(TableRecords)
    BY <1>1 DEF SymbolsGrow, TablesGrow
  <2>2. tables # <<>> => tables' # <<>>
    <3>1. tables \in Seq(TableRecords) /\ tables' \in Seq(TableRecords)
      BY <2>1 DEF Typed
    <3>2. tables # <<>> => Len(tables) # 0
      BY <3>1, EmptySeq
    <3>3. QED
      BY <1>1, <3>2
  <2>3. listTable' \in [DOMAIN prog -> 0 .. Len(tables')] /\ table' \in 0 .. Len(tables')
    BY <1>1 DEF Typed
  <2>4. frames' \in Seq(FrameRecords)
    BY <1>1 DEF Typed
  <2>5. QED
    BY <1>1, <2>1, <2>2, <2>3, <2>4 DEF Typed, FrameRecords
<1>3. Nested'
  BY <1>1, NestedStays
<1>4. DeclaredOnce'
  BY <1>1, OnceStays
<1>5. LinkageStaysInside'
  <2>1. frames' # <<>>
    BY <1>1
  <2>2. \A s \in NewSymbols :
          /\ symbols'[s].extern = "C" <=> symbols'[s].decl[3] # 0 /\ symbols'[s].decl[4] = 0
          /\ symbols'[s].alias # "" => symbols'[s].extern = "C"
    BY <1>1
  <2>3. QED
    BY <1>1, <2>1, <2>2, LinkageStays
<1>6. ASSUME NEW l \in DOMAIN prog, NEW i \in DOMAIN prog[l] PROVE BodyHasTable(l, i)'
  <2>1. CASE key # Key(l, i)
    <3>1. Unmarked(l, i)
      BY <1>1 DEF Unmarked, SymbolsOf
    <3>2. \A s \in NewSymbols : symbols'[s].decl # Key(l, i)
      BY <1>1, <2>1
    <3>3. QED
      BY <1>1, <3>1, <3>2, BodyStays
  <2>2. CASE key = Key(l, i)
    <3>1. SymbolsOf(Key(l, i)) = {}
      BY <2>2 DEF Plain, Key
    <3>2. SymbolsOf(Key(l, i))' = {n}
      <4>1. n \in DOMAIN symbols' /\ DOMAIN symbols' \ DOMAIN symbols = {n}
        BY <1>1 DEF NewSymbols
      <4>2. \A s \in DOMAIN symbols : symbols'[s].decl # Key(l, i)
        BY <1>1, <3>1 DEF SymbolsOf
      <4>3. QED
        BY <1>1, <2>2, <4>1, <4>2 DEF SymbolsOf, Key
    <3>3. prog[l][i].kind = "FUNC" => listTable[prog[l][i].body] = 0
      BY <3>1 DEF BodiesHaveTables, FunctionDefined
    <3>4. QED
      BY <1>1, <3>2, <3>3 DEF BodyHasTable, FunctionDefined
  <2>3. QED
    BY <2>1, <2>2
<1>7. BodiesHaveTables'
  BY <1>1, <1>6, BodiesStay
<1>8. QED
  BY <1>2, <1>3, <1>4, <1>5, <1>7

(* A name that is taken.                                                     *)
LEMMA DeclareRefusedKeeps ==
  ASSUME ScopesInv, frames # <<>>, Beside, UNCHANGED <<node, externKind>>, error' = "redefinition"
  PROVE  ScopesInv'
<1>1. node' \in Nat /\ externKind' \in {"C", "Default"}
  BY DEF ScopesInv, Typed
<1>2. Typed' /\ Nested' /\ DeclaredOnce' /\ BodiesHaveTables' /\ LinkageStaysInside'
  BY <1>1, BesideKeeps
<1>3. Staged'
  BY StagedAtPlace DEF Beside
<1>4. QED
  BY <1>2, <1>3 DEF ScopesInv

(* While a list's declarations wait nothing of it is visited.                 *)
LEMMA WaitingFacts ==
  ASSUME ScopesInv, Going, Undeclared # {} \/ Undefined # {}
  PROVE  /\ frames # <<>> /\ error = "none" /\ node = 0 /\ externKind = "Default" /\ table # 0
         /\ Frame.list \in DOMAIN prog /\ listTable[Frame.list] = table
         /\ DOMAIN prog[Frame.list] \subseteq Nat /\ DOMAIN prog \subseteq Nat
<1>1. frames # <<>> /\ error = "none"
  BY DEF Going
<1>2. node = 0
  BY DEF ScopesInv, Staged
<1>3. externKind = "Default"
  <2>1. ~(node \in 1 .. Len(Stmt.decls) + 1)
    BY <1>2
  <2>2. QED
    BY <2>1 DEF ScopesInv, Staged, Typed
<1>4. Len(frames) \in DOMAIN frames /\ Frame.list \in DOMAIN prog
  BY <1>1, FrameFacts DEF ScopesInv
<1>5. table # 0 /\ listTable[Frame.list] = table
  BY <1>4 DEF ScopesInv, Nested, InnerTable, Frame
<1>6. DOMAIN prog[Frame.list] \subseteq Nat /\ DOMAIN prog \subseteq Nat
  <2>1. IsProgram(prog)
    BY DEF ScopesInv, Typed
  <2>2. QED
    BY <1>4, <2>1, StatementFacts
<1>7. QED
  BY <1>1, <1>2, <1>3, <1>4, <1>5, <1>6

(* A declaration of the list.                                                *)
LEMMA DeclareNextKeeps == ScopesInv /\ DeclareNext => ScopesInv'
<1> SUFFICES ASSUME ScopesInv, DeclareNext PROVE ScopesInv'
  OBVIOUS
<1> DEFINE i == First(Undeclared)
           decl == prog[Frame.list][i]
           key == <<Frame.list, i, 0, 0>>
<1>1. Going /\ Undeclared # {} /\ Declare(decl, key) /\ node' = node
  BY DEF DeclareNext
<1>2. /\ frames # <<>> /\ error = "none" /\ node = 0 /\ externKind = "Default" /\ table # 0
      /\ Frame.list \in DOMAIN prog /\ listTable[Frame.list] = table
      /\ DOMAIN prog[Frame.list] \subseteq Nat /\ DOMAIN prog \subseteq Nat
  BY <1>1, WaitingFacts
<1>3. i \in DOMAIN prog[Frame.list] /\ IsDecl(decl) /\ SymbolsOf(key) = {}
  <2>1. Undeclared \subseteq Nat
    BY <1>2 DEF Undeclared
  <2>2. i \in Undeclared
    BY <1>1, <2>1, FirstIsOne
  <2>3. QED
    BY <2>2 DEF Undeclared
<1>4. decl \in Statements
  <2>1. IsProgram(prog)
    BY DEF ScopesInv, Typed
  <2>2. QED
    BY <1>2, <1>3, <2>1, StatementFacts
<1>5. key \in Nat \X Nat \X Nat \X Nat /\ key[1] = Frame.list /\ key[3] = 0
  BY <1>2, <1>3
<1>6. Typed
  BY DEF ScopesInv
<1> HIDE DEF i, decl, key
<1>7. CASE DeclareEffect(key)
  <2>1. Typed' /\ Nested' /\ DeclaredOnce' /\ BodiesHaveTables' /\ LinkageStaysInside'
    BY <1>1, <1>2, <1>3, <1>5, <1>7, DeclareEffectKeeps
  <2>2. Staged'
    BY <1>1, <1>2, <1>7, <2>1, UnvisitedNext DEF DeclareEffect
  <2>3. QED
    BY <2>1, <2>2 DEF ScopesInv
<1>8. CASE /\ error' = "redefinition"
           /\ UNCHANGED <<prog, symbols, tables, listTable, frames, table, returnType, externKind>>
  <2>1. Beside
    BY <1>8 DEF Beside
  <2>2. QED
    BY <1>1, <1>2, <1>8, <2>1, DeclareRefusedKeeps
<1>9. DeclareEffect(key) \/ /\ error' = "redefinition"
                            /\ UNCHANGED <<prog, symbols, tables, listTable, frames, table, returnType, externKind>>
  BY <1>1, <1>2, <1>3, <1>4, <1>5, <1>6, DeclareDoes
<1>10. QED
  BY <1>7, <1>8, <1>9

(* A declaration of an EXTERN block.                                         *)
LEMMA DeclareExternKeeps == ScopesInv /\ DeclareExtern => ScopesInv'
<1> SUFFICES ASSUME ScopesInv, DeclareExtern PROVE ScopesInv'
  OBVIOUS
<1> DEFINE decl == Stmt.decls[node]
           key == DeclHere(node)
<1>1. /\ Visiting({"EXTERN"}) /\ node \in 1 .. Len(Stmt.decls) /\ Declare(decl, key)
      /\ node' = IF Contains(table, decl.name) THEN node ELSE node + 1
  BY DEF DeclareExtern
<1>2. /\ frames # <<>> /\ error = "none" /\ AtStatement /\ Undeclared = {} /\ Undefined = {}
      /\ Stmt.kind = "EXTERN" /\ StageIs(externKind, node) /\ node \in Nat /\ table # 0
      /\ Frame.list \in DOMAIN prog /\ Frame.at \in DOMAIN prog[Frame.list]
      /\ Stmt.decls \in Seq(Prototypes) /\ Len(Stmt.decls) \in Nat
      /\ DOMAIN Stmt.decls = 1 .. Len(Stmt.decls)
  BY <1>1, VisitFacts
<1>3. decl \in Statements /\ IsDecl(decl)
  BY <1>1, <1>2, PrototypeFacts
<1>4. key \in Nat \X Nat \X Nat \X Nat /\ key[3] = node /\ key[4] = 0 /\ node # 0
  <2>1. IsProgram(prog)
    BY DEF ScopesInv, Typed
  <2>2. Frame.list \in Nat /\ Frame.at \in Nat
    BY <1>2, <2>1, StatementFacts
  <2>3. QED
    BY <1>1, <2>2 DEF DeclHere
<1>5. externKind = "C"
  BY <1>1, <1>2 DEF StageIs
<1>6. Typed
  BY DEF ScopesInv
<1> HIDE DEF decl, key
<1>7. CASE ~Contains(table, decl.name) /\ DeclareEffect(key)
  <2>1. node' = node + 1 /\ node' \in Nat
    BY <1>1, <1>2, <1>7
  <2>2. ~Plain(key)
    BY <1>4 DEF Plain
  <2>3. Typed' /\ Nested' /\ DeclaredOnce' /\ BodiesHaveTables' /\ LinkageStaysInside'
    BY <1>2, <1>4, <1>5, <1>7, <2>1, <2>2, DeclareEffectKeeps
  <2>4. /\ SymbolsGrow /\ NewSymbols = {Len(symbols) + 1}
        /\ \A s \in DOMAIN symbols : symbols'[s] = symbols[s]
        /\ symbols'[Len(symbols) + 1].decl = key
        /\ UNCHANGED <<prog, frames, externKind, error>>
    BY <1>7 DEF DeclareEffect
  <2>5. Frame' = Frame /\ Stmt' = Stmt /\ AtStatement' = AtStatement
    BY <2>4 DEF Frame, Stmt, AtStatement
  <2>6. Undeclared' = {} /\ Undefined' = {}
    <3>1. \A s \in NewSymbols : ~Plain(symbols'[s].decl)
      BY <2>2, <2>4
    <3>2. \A i \in DOMAIN prog[Frame.list] : Unmarked(Frame.list, i)
      BY <2>4 DEF Unmarked, SymbolsOf
    <3>3. QED
      BY <1>2, <1>6, <2>4, <2>5, <3>1, <3>2, NothingWaits
  <2>7. ASSUME NEW k \in DOMAIN Stmt.decls, k < node + 1 PROVE SymbolsOf(DeclHere(k))' # {}
    <3>1. DeclHere(k)' = DeclHere(k)
      BY <2>5 DEF DeclHere
    <3>2. CASE k < node
      <4>1. PICK s \in DOMAIN symbols : symbols[s].decl = DeclHere(k)
        BY <1>2, <3>2 DEF StageIs, SymbolsOf
      <4>2. s \in DOMAIN symbols' /\ symbols'[s].decl = DeclHere(k)
        BY <2>4, <4>1 DEF SymbolsGrow
      <4>3. QED
        BY <3>1, <4>2 DEF SymbolsOf
    <3>3. CASE k = node
      <4>1. Len(symbols) + 1 \in DOMAIN symbols'
        BY <2>4 DEF NewSymbols
      <4>2. key = DeclHere(k)
        BY <3>3 DEF key
      <4>3. QED
        BY <2>4, <3>1, <4>1, <4>2 DEF SymbolsOf
    <3>4. QED
      BY <1>2, <2>7, <3>2, <3>3
  <2>8. node + 1 \in 1 .. Len(Stmt.decls) + 1
    BY <1>1, <1>2
  <2>9. Staged'
    BY <1>2, <1>5, <2>1, <2>4, <2>5, <2>6, <2>7, <2>8 DEF Staged, Going
  <2>10. QED
    BY <2>3, <2>9 DEF ScopesInv
<1>8. CASE /\ error' = "redefinition" /\ Contains(table, decl.name)
           /\ UNCHANGED <<prog, symbols, tables, listTable, frames, table, returnType, externKind>>
  <2>1. Beside /\ node' = node
    BY <1>1, <1>8 DEF Beside
  <2>2. QED
    BY <1>2, <1>8, <2>1, DeclareRefusedKeeps
<1>9. \/ ~Contains(table, decl.name) /\ DeclareEffect(key)
      \/ /\ error' = "redefinition" /\ Contains(table, decl.name)
         /\ UNCHANGED <<prog, symbols, tables, listTable, frames, table, returnType, externKind>>
  BY <1>1, <1>2, <1>3, <1>4, <1>6, DeclareDoes
<1>10. QED
  BY <1>7, <1>8, <1>9

-----------------------------------------------------------------------------
(* Definitions of functions.                                                 *)

(* The parameters' symbols are neither a list's nor an EXTERN's.              *)
LEMMA DefineEffectKeeps ==
  ASSUME ScopesInv, frames # <<>>, error = "none", externKind = "Default",
         NEW decl, NEW key, DefineEffect(decl, key),
         SymbolsOf(key) # {}, key[4] = 0,
         decl.kind = "FUNC" => Plain(key) /\ key[1] = Frame.list /\ key[2] \in DOMAIN prog[Frame.list]
                               /\ decl = prog[Frame.list][key[2]],
         Plain(key) => decl = prog[key[1]][key[2]] /\ symbols[SymbolOf(key)].status = "Declared"
                       /\ key = Key(key[1], key[2]),
         node' \in Nat, UNCHANGED <<prog, frames, table, returnType, externKind>>
  PROVE  Typed' /\ Nested' /\ DeclaredOnce' /\ BodiesHaveTables' /\ LinkageStaysInside'
         /\ \A s \in NewSymbols : ~Plain(symbols'[s].decl)
<1> USE DEF ScopesInv
<1> DEFINE s == SymbolOf(key)
           b == decl.body
           n == Len(tables) + 1
<1>1. /\ SymbolsGrow /\ TablesGrow
      /\ \A t \in DOMAIN symbols : t # s => symbols'[t] = symbols[t]
      /\ error' = "none" => symbols'[s].status = "Defined"
      /\ \A t \in NewSymbols :
           /\ \E p \in Nat \ {0} : symbols'[t].decl = <<key[1], key[2], key[3], p>>
           /\ symbols'[t].extern = externKind
           /\ symbols'[t].alias # "" => externKind = "C"
      /\ error' = "none" => error = "none"
      /\ \/ listTable' = listTable /\ (decl.kind = "FUNC" => symbols'[s].status # "Defined")
         \/ /\ decl.kind = "FUNC" /\ symbols'[s].status = "Defined"
            /\ Len(tables') = n /\ tables'[n].parent = table
            /\ listTable' = [listTable EXCEPT ![b] = n]
  BY DEF DefineEffect
<1>2. s \in DOMAIN symbols /\ symbols[s].decl = key
  BY SymbolOfIs
<1>3. /\ tables \in Seq(TableRecords) /\ tables' \in Seq(TableRecords)
      /\ Len(tables) \in Nat /\ Len(tables') \in Nat /\ Len(tables) <= Len(tables')
      /\ listTable \in [DOMAIN prog -> 0 .. Len(tables)]
  <2>1. tables \in Seq(TableRecords) /\ listTable \in [DOMAIN prog -> 0 .. Len(tables)]
    BY DEF Typed
  <2>2. tables' \in Seq(TableRecords) /\ Len(tables) <= Len(tables')
    BY <1>1 DEF TablesGrow
  <2>3. QED
    BY <2>1, <2>2
<1>4. ASSUME NEW t \in NewSymbols PROVE symbols'[t].decl[4] # 0 /\ ~Plain(symbols'[t].decl)
  <2>1. PICK p \in Nat \ {0} : symbols'[t].decl = <<key[1], key[2], key[3], p>>
    BY <1>1
  <2>2. symbols'[t].decl[4] = p /\ p # 0
    BY <2>1
  <2>3. QED
    BY <2>2 DEF Plain
<1> HIDE DEF s, n
<1>5. ASSUME decl.kind = "FUNC"
      PROVE  /\ Plain(key) /\ key = Key(Frame.list, key[2])
             /\ Frame.list \in DOMAIN prog /\ key[2] \in DOMAIN prog[Frame.list]
             /\ decl = prog[Frame.list][key[2]] /\ b \in DOMAIN prog /\ b > Frame.list
             /\ symbols[s].status = "Declared" /\ listTable[b] = 0
  <2>1. Plain(key) /\ key[1] = Frame.list /\ key[2] \in DOMAIN prog[Frame.list]
        /\ decl = prog[Frame.list][key[2]] /\ key = Key(Frame.list, key[2])
        /\ symbols[s].status = "Declared"
    BY <1>5 DEF s
  <2>2. Frame.list \in DOMAIN prog
    BY FrameFacts
  <2>3. b \in DOMAIN prog /\ b > Frame.list
    <3>1. IsProgram(prog)
      BY DEF Typed
    <3> DEFINE l == Frame.list
               i == key[2]
    <3>2. l \in DOMAIN prog /\ i \in DOMAIN prog[l] /\ prog[l][i].kind = "FUNC" /\ b = prog[l][i].body
      BY <1>5, <2>1, <2>2
    <3> HIDE DEF l, i, b
    <3>3. b \in DOMAIN prog /\ b > l
      BY <3>1, <3>2, BodyFacts
    <3>4. QED
      BY <3>3 DEF l
  <2>4. listTable[b] = 0
    <3>1. SUFFICES ASSUME listTable[b] # 0 PROVE FALSE
      OBVIOUS
    <3>2. FunctionDefined(Frame.list, key[2])
      BY <1>5, <2>1, <2>2 DEF BodiesHaveTables
    <3>3. PICK t \in SymbolsOf(key) : symbols[t].status = "Defined"
      BY <2>1, <3>1, <3>2 DEF FunctionDefined
    <3>4. t \in DOMAIN symbols /\ symbols[t].decl = key
      BY <3>3 DEF SymbolsOf
    <3>5. t = s
      BY <1>2, <2>1, <3>4 DEF DeclaredOnce
    <3>6. QED
      BY <2>1, <3>3, <3>5
  <2>5. QED
    BY <2>1, <2>2, <2>3, <2>4
<1>6. /\ listTable' \in [DOMAIN prog -> 0 .. Len(tables')]
      /\ \A l \in DOMAIN prog : listTable[l] # 0 => listTable'[l] = listTable[l]
  <2>1. CASE listTable' = listTable
    BY <1>3, <2>1
  <2>2. CASE /\ decl.kind = "FUNC" /\ Len(tables') = n /\ listTable' = [listTable EXCEPT ![b] = n]
    <3>1. b \in DOMAIN prog /\ listTable[b] = 0
      BY <1>5, <2>2
    <3> HIDE DEF b
    <3>2. QED
      BY <1>3, <2>2, <3>1
  <2>3. QED
    BY <1>1, <2>1, <2>2
<1>7. Typed'
  <2>1. tables # <<>> => tables' # <<>>
    <3>1. tables # <<>> => Len(tables) # 0
      BY <1>3, EmptySeq
    <3>2. QED
      BY <1>3, <3>1
  <2>2. table' \in 0 .. Len(tables')
    BY <1>3 DEF Typed
  <2>3. symbols' \in Seq(SymbolRecords)
    BY <1>1 DEF SymbolsGrow
  <2>4. QED
    BY <1>3, <1>6, <2>1, <2>2, <2>3 DEF Typed, FrameRecords
<1>8. Nested'
  <2>1. ASSUME NEW f \in DOMAIN frames PROVE listTable'[frames[f].list] = listTable[frames[f].list]
    <3>1. frames[f].list \in DOMAIN prog
      BY FrameFacts DEF FrameRecords
    <3>2. listTable[frames[f].list] # 0
      BY DEF Nested
    <3>3. QED
      BY <1>6, <3>1, <3>2
  <2>2. QED
    BY <1>1, <2>1, NestedStays
<1>9. DeclaredOnce'
  <2>1. \A l \in DOMAIN prog : listTable[l] # 0 => listTable'[l] # 0
    BY <1>6
  <2>2. QED
    BY <1>1, <1>4, <2>1, OnceStays
<1>10. LinkageStaysInside'
  <2>1. \A t \in NewSymbols : symbols'[t].extern # "C" /\ ~(symbols'[t].alias # "")
    BY <1>1
  <2>2. QED
    BY <1>1, <1>4, <2>1, LinkageStays
<1>11. ASSUME NEW l \in DOMAIN prog, NEW i \in DOMAIN prog[l] PROVE BodyHasTable(l, i)'
  <2>1. \A t \in NewSymbols : symbols'[t].decl # Key(l, i)
    BY <1>4 DEF Plain, Key
  <2>2. CASE key # Key(l, i)
    <3>1. Unmarked(l, i)
      BY <1>1, <1>2, <2>2 DEF Unmarked, SymbolsOf
    <3>2. ASSUME prog[l][i].kind = "FUNC" PROVE listTable'[prog[l][i].body] = listTable[prog[l][i].body]
      <4>1. CASE listTable' = listTable
        BY <4>1
      <4>2. CASE decl.kind = "FUNC" /\ listTable' = [listTable EXCEPT ![b] = n]
        <5>1. /\ key = Key(Frame.list, key[2]) /\ Frame.list \in DOMAIN prog
              /\ key[2] \in DOMAIN prog[Frame.list] /\ decl = prog[Frame.list][key[2]]
          BY <1>5, <4>2
        <5>2. ASSUME prog[l][i].body = b PROVE FALSE
          <6>1. IsProgram(prog)
            BY DEF Typed
          <6> DEFINE m == Frame.list
                     j == key[2]
          <6>2. m \in DOMAIN prog /\ j \in DOMAIN prog[m] /\ prog[m][j].kind = "FUNC"
                /\ prog[m][j].body = prog[l][i].body /\ key = Key(m, j)
            BY <4>2, <5>1, <5>2
          <6> HIDE DEF m, j
          <6>3. m = l /\ j = i
            BY <3>2, <6>1, <6>2, BodyFacts
          <6>4. QED
            BY <2>2, <6>2, <6>3
        <5>3. prog[l][i].body \in DOMAIN prog
          BY <3>2, BodyFacts DEF Typed
        <5> HIDE DEF b
        <5>4. QED
          BY <1>3, <4>2, <5>2, <5>3
      <4>3. QED
        BY <1>1, <4>1, <4>2
    <3>3. listTable[l] # 0 => listTable'[l] = listTable[l]
      BY <1>6
    <3>4. QED
      BY <1>1, <2>1, <3>1, <3>2, <3>3, BodyStays
  <2>3. CASE key = Key(l, i)
    <3>1. Plain(key) /\ decl = prog[l][i]
      BY <2>3 DEF Plain, Key
    <3>2. SymbolsOf(Key(l, i))' = {s}
      <4>1. SymbolsOf(Key(l, i))' = SymbolsOf(Key(l, i))
        BY <1>1, <2>1, SymbolStays
      <4>2. SymbolsOf(Key(l, i)) = {s}
        BY <1>2, <2>3, <3>1 DEF SymbolsOf, DeclaredOnce
      <4>3. QED
        BY <4>1, <4>2
    <3>3. IsFuncDecl(prog[l][i]) /\ error' = "none" => symbols'[s].status # "BeingDefined"
      BY <1>1
    <3>4. ASSUME prog[l][i].kind = "FUNC"
          PROVE  /\ symbols'[s].status = "Defined" =>
                      listTable'[b] # 0 /\ tables'[listTable'[b]].parent = listTable'[l]
                 /\ listTable'[b] # 0 => symbols'[s].status = "Defined"
      <4>1. Frame.list = l /\ l \in DOMAIN prog /\ b \in DOMAIN prog /\ b > l /\ listTable[b] = 0
        BY <1>5, <2>3, <3>1, <3>4 DEF Key
      <4>2. CASE listTable' = listTable /\ symbols'[s].status # "Defined"
        BY <4>1, <4>2
      <4>3. CASE /\ symbols'[s].status = "Defined" /\ tables'[n].parent = table
                 /\ listTable' = [listTable EXCEPT ![b] = n]
        <5>1. listTable[l] = table
          <6>1. Len(frames) \in DOMAIN frames
            BY FrameFacts
          <6>2. QED
            BY <4>1, <6>1 DEF Nested, InnerTable, Frame
        <5>2. l # b
          <6>1. IsProgram(prog)
            BY DEF Typed
          <6>2. l \in Nat
            BY <4>1, <6>1, StatementFacts
          <6>3. QED
            BY <4>1, <6>2
        <5>3. n # 0
          BY <1>3 DEF n
        <5> HIDE DEF b
        <5>4. listTable'[b] = n /\ listTable'[l] = table
          BY <1>3, <4>1, <4>3, <5>1, <5>2
        <5>5. QED
          BY <4>3, <5>3, <5>4
      <4>4. QED
        BY <1>1, <3>1, <3>4, <4>2, <4>3
    <3>5. QED
      BY <3>1, <3>2, <3>3, <3>4 DEF BodyHasTable, FunctionDefined
  <2>4. QED
    BY <2>2, <2>3
<1>12. BodiesHaveTables'
  BY <1>11, BodiesStay
<1>13. QED
  BY <1>4, <1>7, <1>8, <1>9, <1>10, <1>12

(* A function of the list.                                                   *)
LEMMA DefineNextKeeps == ScopesInv /\ DefineNext => ScopesInv'
<1> SUFFICES ASSUME ScopesInv, DefineNext PROVE ScopesInv'
  OBVIOUS
<1> DEFINE i == First(Undefined)
           decl == prog[Frame.list][i]
           key == <<Frame.list, i, 0, 0>>
<1>1. /\ Going /\ Undeclared = {} /\ Undefined # {} /\ DefineFunction(decl, key)
      /\ UNCHANGED <<prog, frames, node, table, returnType, externKind>>
  BY DEF DefineNext
<1>2. /\ frames # <<>> /\ error = "none" /\ node = 0 /\ externKind = "Default"
      /\ Frame.list \in DOMAIN prog
      /\ DOMAIN prog[Frame.list] \subseteq Nat /\ DOMAIN prog \subseteq Nat
  BY <1>1, WaitingFacts
<1>3. /\ i \in DOMAIN prog[Frame.list] /\ IsFuncDecl(decl)
      /\ symbols[SymbolOf(key)].status = "Declared"
  <2>1. Undefined \subseteq Nat
    BY <1>2 DEF Undefined
  <2>2. i \in Undefined
    BY <1>1, <2>1, FirstIsOne
  <2>3. QED
    BY <2>2 DEF Undefined
<1>4. decl \in Statements /\ Typed
  <2>1. IsProgram(prog)
    BY DEF ScopesInv, Typed
  <2>2. QED
    BY <1>2, <1>3, <2>1, StatementFacts DEF ScopesInv
<1>5. SymbolsOf(key) # {}
  BY <1>1, <1>3 DEF Undeclared, IsDecl, IsFuncDecl
<1>6. /\ key \in Nat \X Nat \X Nat \X Nat /\ key[1] = Frame.list /\ key[2] = i /\ key[3] = 0 /\ key[4] = 0
      /\ key = Key(Frame.list, i) /\ decl = prog[Frame.list][i]
  BY <1>2, <1>3 DEF Key
<1> HIDE DEF decl, key, i
<1>7. DefineEffect(decl, key)
  BY <1>1, <1>3, <1>4, <1>5, <1>6, DefineDoes
<1>8. /\ decl.kind = "FUNC" => Plain(key) /\ key[1] = Frame.list /\ key[2] \in DOMAIN prog[Frame.list]
                               /\ decl = prog[Frame.list][key[2]]
      /\ Plain(key) => decl = prog[key[1]][key[2]] /\ symbols[SymbolOf(key)].status = "Declared"
                       /\ key = Key(key[1], key[2])
  BY <1>3, <1>6 DEF Plain
<1>9. node' \in Nat
  BY <1>1, <1>2
<1>10. Typed' /\ Nested' /\ DeclaredOnce' /\ BodiesHaveTables' /\ LinkageStaysInside'
  BY <1>1, <1>2, <1>5, <1>6, <1>7, <1>8, <1>9, DefineEffectKeeps
<1>11. Staged'
  BY <1>1, <1>2, <1>10, UnvisitedNext
<1>12. QED
  BY <1>10, <1>11 DEF ScopesInv

(* A function of an EXTERN block.                                            *)
LEMMA DefineExternKeeps == ScopesInv /\ DefineExtern => ScopesInv'
<1> SUFFICES ASSUME ScopesInv, DefineExtern PROVE ScopesInv'
  OBVIOUS
<1> DEFINE k == node - Len(Stmt.decls) - 1
           decl == Stmt.decls[k]
           key == DeclHere(k)
<1>1. /\ Visiting({"EXTERN"}) /\ node \in Len(Stmt.decls) + 2 .. 2 * Len(Stmt.decls) + 1
      /\ DefineFunction(decl, key) /\ node' = node + 1
      /\ UNCHANGED <<prog, frames, table, returnType, externKind>>
  BY DEF DefineExtern
<1>2. /\ frames # <<>> /\ error = "none" /\ AtStatement /\ Undeclared = {} /\ Undefined = {}
      /\ Stmt.kind = "EXTERN" /\ StageIs(externKind, node) /\ node \in Nat
      /\ Frame.list \in DOMAIN prog /\ Frame.at \in DOMAIN prog[Frame.list]
      /\ Stmt.decls \in Seq(Prototypes) /\ Len(Stmt.decls) \in Nat
      /\ DOMAIN Stmt.decls = 1 .. Len(Stmt.decls)
  BY <1>1, VisitFacts
<1>3. k \in DOMAIN Stmt.decls /\ k < node /\ k # 0 /\ k \in Nat
  BY <1>1, <1>2
<1>4. decl \in Statements /\ decl.kind = "DECLARE" /\ IsFuncDecl(decl)
  BY <1>2, <1>3, PrototypeFacts
<1>5. key \in Nat \X Nat \X Nat \X Nat /\ key[3] = k /\ key[4] = 0
  <2>1. IsProgram(prog)
    BY DEF ScopesInv, Typed
  <2>2. Frame.list \in Nat /\ Frame.at \in Nat
    BY <1>2, <2>1, StatementFacts
  <2> HIDE DEF k
  <2>3. QED
    BY <1>3, <2>2 DEF DeclHere
<1>6. SymbolsOf(key) # {}
  BY <1>2, <1>3 DEF StageIs
<1>7. externKind = "Default"
  <2>1. ~(node \in 1 .. Len(Stmt.decls) + 1)
    BY <1>1, <1>2
  <2>2. QED
    BY <1>2, <2>1 DEF StageIs, ScopesInv, Typed
<1>8. Typed
  BY DEF ScopesInv
<1> HIDE DEF decl, key, k
<1>9. DefineEffect(decl, key) /\ ~Plain(key)
  BY <1>1, <1>3, <1>4, <1>5, <1>6, <1>8, DefineDoes DEF Plain
<1>10. node' \in Nat
  BY <1>1, <1>2
<1>11. /\ Typed' /\ Nested' /\ DeclaredOnce' /\ BodiesHaveTables' /\ LinkageStaysInside'
       /\ \A s \in NewSymbols : ~Plain(symbols'[s].decl)
  BY <1>1, <1>2, <1>4, <1>5, <1>6, <1>7, <1>9, <1>10, DefineEffectKeeps
<1>12. Frame' = Frame /\ Stmt' = Stmt /\ AtStatement' = AtStatement
  BY <1>1 DEF Frame, Stmt, AtStatement
<1>13. SymbolsGrow /\ (error' = "none" => error = "none")
       /\ \A t \in DOMAIN symbols : t # SymbolOf(key) => symbols'[t] = symbols[t]
  BY <1>9 DEF DefineEffect
<1>14. Undeclared' = {} /\ Undefined' = {}
  <2>1. symbols[SymbolOf(key)].decl = key
    BY <1>6, SymbolOfIs
  <2>2. \A i \in DOMAIN prog[Frame.list] : Unmarked(Frame.list, i)
    BY <1>9, <1>13, <2>1 DEF Unmarked, SymbolsOf, Plain, Key
  <2>3. QED
    BY <1>1, <1>2, <1>8, <1>11, <1>12, <1>13, <2>2, NothingWaits
<1>15. ASSUME NEW m \in DOMAIN Stmt.decls PROVE SymbolsOf(DeclHere(m))' # {}
  <2>1. m < node
    BY <1>1, <1>2, <1>15
  <2>2. PICK s \in DOMAIN symbols : symbols[s].decl = DeclHere(m)
    BY <1>2, <2>1 DEF StageIs, SymbolsOf
  <2>3. s \in DOMAIN symbols' /\ symbols'[s].decl = DeclHere(m)
    BY <1>13, <2>2 DEF SymbolsGrow
  <2>4. DeclHere(m)' = DeclHere(m)
    BY <1>12 DEF DeclHere
  <2>5. QED
    BY <2>3, <2>4 DEF SymbolsOf
<1>16. ~(node + 1 \in 1 .. Len(Stmt.decls) + 1)
  BY <1>1, <1>2
<1>17. Staged'
  BY <1>1, <1>2, <1>7, <1>12, <1>14, <1>15, <1>16 DEF Staged, Going
<1>18. QED
  BY <1>11, <1>17 DEF ScopesInv

-----------------------------------------------------------------------------
(* Into a list and out of it.                                                *)

(* A body's table is there when its statement is reached.                    *)
LEMMA BodyTable ==
  ASSUME ScopesInv, Visiting({"FUNC"})
  PROVE  /\ Stmt.body \in DOMAIN prog /\ Stmt.body > Frame.list
         /\ listTable[Stmt.body] # 0 /\ tables[listTable[Stmt.body]].parent = table
<1> DEFINE l == Frame.list
           i == Frame.at
<1>1. /\ frames # <<>> /\ error = "none" /\ Undeclared = {} /\ Undefined = {}
      /\ Stmt = prog[l][i] /\ Stmt.kind = "FUNC" /\ l \in DOMAIN prog /\ i \in DOMAIN prog[l]
  BY VisitFacts
<1>2. IsDecl(prog[l][i]) /\ IsFuncDecl(prog[l][i])
  BY <1>1 DEF IsDecl, IsFuncDecl
<1> DEFINE s == SymbolOf(Key(l, i))
<1>3. SymbolsOf(Key(l, i)) # {}
  BY <1>1, <1>2 DEF Undeclared, Key
<1>4. s \in SymbolsOf(Key(l, i)) /\ s \in DOMAIN symbols
  BY <1>3 DEF SymbolOf, SymbolsOf
<1>5. symbols[s].status # "Declared"
  BY <1>1, <1>2 DEF Undefined, Key
<1>6. symbols[s].status # "BeingDefined"
  BY <1>1, <1>2, <1>4 DEF ScopesInv, BodiesHaveTables
<1>7. symbols[s].status = "Defined"
  <2>1. symbols[s] \in SymbolRecords
    BY <1>4, SymbolFacts DEF ScopesInv
  <2> HIDE DEF s
  <2>2. QED
    BY <1>5, <1>6, <2>1 DEF SymbolRecords
<1>8. FunctionDefined(l, i)
  BY <1>1 DEF ScopesInv, BodiesHaveTables
<1>9. listTable[Stmt.body] # 0 /\ tables[listTable[Stmt.body]].parent = listTable[l]
  BY <1>1, <1>4, <1>7, <1>8 DEF FunctionDefined
<1>10. listTable[l] = table
  <2>1. Len(frames) \in DOMAIN frames
    BY <1>1, FrameFacts DEF ScopesInv
  <2>2. QED
    BY <2>1 DEF ScopesInv, Nested, InnerTable, Frame
<1>11. Stmt.body \in DOMAIN prog /\ Stmt.body > l
  <2>1. IsProgram(prog) /\ prog[l][i].kind = "FUNC"
    BY <1>1 DEF ScopesInv, Typed
  <2> HIDE DEF l, i
  <2>2. QED
    BY <1>1, <2>1, BodyFacts
<1>12. QED
  BY <1>9, <1>10, <1>11

(* The body of a SUB or FUNCTION.                                            *)
LEMMA VisitFunctionKeeps == ScopesInv /\ VisitFunction => ScopesInv'
<1> SUFFICES ASSUME ScopesInv, VisitFunction PROVE ScopesInv'
  OBVIOUS
<1> USE DEF ScopesInv
<1> DEFINE b == Stmt.body
           new == [list |-> b, at |-> 1, table |-> table, returns |-> returnType]
<1>1. /\ Visiting({"FUNC"}) /\ frames' = Append(frames, new) /\ table' = listTable[b]
      /\ returnType' = IF Stmt.returns THEN "value" ELSE "void"
      /\ UNCHANGED <<prog, symbols, tables, listTable, node, externKind, error>>
  BY DEF VisitFunction
<1>2. frames # <<>> /\ Stmt.kind = "FUNC" /\ StageIs(externKind, node)
  BY <1>1, VisitFacts
<1>3. node = 0 /\ externKind = "Default"
  BY <1>1, <1>2, DefaultOutside DEF StageIs
<1>4. b \in DOMAIN prog /\ b > Frame.list /\ listTable[b] # 0 /\ tables[listTable[b]].parent = table
  BY <1>1, BodyTable
<1>5. returnType' \in {"none", "void", "value"}
  BY <1>1
<1>6. /\ Len(frames) \in Nat \ {0} /\ DOMAIN frames = 1 .. Len(frames) /\ frames \in Seq(FrameRecords)
  BY <1>2, FrameFacts DEF Typed
<1>7. new \in FrameRecords /\ new.list = b /\ new.table = table /\ new.returns = returnType
  <2>1. table \in Nat /\ returnType \in {"none", "void", "value"}
    BY DEF Typed
  <2> HIDE DEF b
  <2>2. QED
    BY <1>4, <2>1 DEF FrameRecords
<1> HIDE DEF b, new
<1>8. /\ frames' \in Seq(FrameRecords) /\ Len(frames') = Len(frames) + 1
      /\ DOMAIN frames' = 1 .. Len(frames) + 1
      /\ \A f \in DOMAIN frames : frames'[f] = frames[f]
      /\ frames'[Len(frames) + 1] = new
  BY <1>1, <1>6, <1>7
<1>9. Typed'
  <2>1. tables # <<>>
    BY <1>2 DEF Typed
  <2>2. table' \in 0 .. Len(tables')
    BY <1>1, <1>4 DEF Typed
  <2>3. QED
    BY <1>1, <1>5, <1>8, <2>1, <2>2 DEF Typed, FrameRecords
<1>10. Nested'
  <2>1. ASSUME NEW f \in DOMAIN frames PROVE InnerTable(f)' = InnerTable(f)
    <3>1. CASE f = Len(frames)
      <4>1. f # Len(frames')
        <5>1. \A n \in Nat : n # n + 1
          OBVIOUS
        <5>2. QED
          BY <1>6, <1>8, <3>1, <5>1, Zenon
      <4>2. frames'[f + 1] = new
        BY <1>8, <3>1
      <4>3. QED
        BY <1>7, <3>1, <4>1, <4>2 DEF InnerTable
    <3>2. CASE f # Len(frames)
      <4>1. f + 1 \in DOMAIN frames /\ f # Len(frames')
        BY <1>6, <1>8, <3>2
      <4>2. QED
        BY <1>8, <3>2, <4>1 DEF InnerTable
    <3>3. QED
      BY <3>1, <3>2
  <2>2. ASSUME NEW f \in DOMAIN frames'
        PROVE  /\ InnerTable(f)' = listTable'[frames'[f].list] /\ InnerTable(f)' # 0
               /\ tables'[InnerTable(f)'].parent = frames'[f].table
    <3>1. CASE f \in DOMAIN frames
      BY <1>1, <1>8, <2>1, <3>1 DEF Nested
    <3>2. CASE f = Len(frames) + 1
      <4>1. InnerTable(f)' = table'
        BY <1>8, <3>2 DEF InnerTable
      <4>2. QED
        BY <1>1, <1>4, <1>7, <1>8, <3>2, <4>1
    <3>3. QED
      BY <1>6, <1>8, <3>1, <3>2
  <2>3. ASSUME NEW f \in DOMAIN frames', NEW g \in DOMAIN frames', f < g
        PROVE  frames'[f].list < frames'[g].list
    <3>1. f \in DOMAIN frames /\ frames[f].list \in Nat /\ Frame.list \in Nat
      <4>1. f \in DOMAIN frames
        BY <1>6, <1>8, <2>3
      <4>2. DOMAIN prog \subseteq Nat
        BY <1>4, StatementFacts DEF Typed
      <4>3. frames[f].list \in DOMAIN prog /\ Frame.list \in DOMAIN prog
        BY <1>2, <4>1, FrameFacts DEF FrameRecords
      <4>4. QED
        BY <4>1, <4>2, <4>3
    <3>2. CASE g \in DOMAIN frames
      BY <1>8, <2>3, <3>1, <3>2 DEF Nested
    <3>3. CASE g = Len(frames) + 1
      <4>1. frames[f].list <= Frame.list
        <5>1. CASE f = Len(frames)
          BY <3>1, <5>1 DEF Frame
        <5>2. CASE f # Len(frames)
          <6>1. f < Len(frames) /\ Len(frames) \in DOMAIN frames
            BY <1>6, <3>1, <5>2
          <6>2. frames[f].list < Frame.list
            BY <3>1, <6>1 DEF Nested, Frame
          <6>3. QED
            BY <3>1, <6>2
        <5>3. QED
          BY <5>1, <5>2
      <4>2. b \in Nat
        BY <1>4, StatementFacts DEF Typed
      <4>3. frames'[f].list = frames[f].list /\ frames'[g].list = b
        BY <1>7, <1>8, <3>1, <3>3
      <4>4. QED
        BY <1>4, <3>1, <4>1, <4>2, <4>3
    <3>4. QED
      BY <1>6, <1>8, <3>2, <3>3
  <2>4. frames' # <<>> /\ frames'[1].table = 0 /\ frames'[1].returns = "none"
    <3>1. 1 \in DOMAIN frames
      BY <1>6
    <3>2. frames'[1] = frames[1] /\ frames' # <<>>
      BY <1>6, <1>8, <3>1
    <3>3. QED
      BY <1>2, <3>2 DEF Nested
  <2>5. QED
    BY <2>2, <2>3, <2>4 DEF Nested
<1>11. DeclaredOnce' /\ BodiesHaveTables'
  BY <1>1, SameSymbols
<1>12. LinkageStaysInside'
  BY <1>1, <1>3 DEF LinkageStaysInside
<1>13. Staged'
  BY <1>1, <1>3, <1>9, UnvisitedNext
<1>14. QED
  BY <1>9, <1>10, <1>11, <1>12, <1>13

(* The frames that are left.                                                 *)
LEMMA RestoredFacts ==
  ASSUME Typed, frames # <<>>, Restored
  PROVE  /\ frames' \in Seq(FrameRecords) /\ Len(frames') = Len(frames) - 1
         /\ DOMAIN frames' = 1 .. Len(frames) - 1
         /\ \A f \in DOMAIN frames' :
              /\ f \in DOMAIN frames
              /\ frames'[f].list = frames[f].list /\ frames'[f].table = frames[f].table
              /\ frames'[f].returns = frames[f].returns
         /\ table' = Frame.table /\ returnType' = Frame.returns /\ node' = 0
<1> DEFINE n == Len(frames) - 1
           outer == SubSeq(frames, 1, n)
           next == [outer[n] EXCEPT !.at = @ + 1]
<1>1. /\ Len(frames) \in Nat \ {0} /\ DOMAIN frames = 1 .. Len(frames) /\ frames \in Seq(FrameRecords)
  BY FrameFacts DEF Typed
<1>2. /\ outer \in Seq(FrameRecords) /\ Len(outer) = n /\ DOMAIN outer = 1 .. n
      /\ \A f \in 1 .. n : outer[f] = frames[f]
  BY <1>1
<1>3. /\ frames' = IF outer = <<>> THEN outer ELSE [outer EXCEPT ![Len(outer)].at = @ + 1]
      /\ table' = Frame.table /\ returnType' = Frame.returns /\ node' = 0
  BY DEF Restored
<1> HIDE DEF outer
<1>4. CASE outer = <<>>
  BY <1>1, <1>2, <1>3, <1>4
<1>5. CASE outer # <<>>
  <2>1. n \in 1 .. n
    <3>1. Len(outer) # 0
      BY <1>2, <1>5, EmptySeq
    <3>2. QED
      BY <1>1, <1>2, <3>1
  <2>2. outer[n] \in FrameRecords
    BY <1>2, <2>1
  <2>3. /\ next \in FrameRecords
        /\ next.list = outer[n].list /\ next.table = outer[n].table /\ next.returns = outer[n].returns
    <3> DEFINE o == outer[n]
               a == o.at + 1
    <3>1. o.at \in Nat \ {0} /\ a \in Nat \ {0}
      BY <2>2 DEF FrameRecords
    <3>2. next = [o EXCEPT !.at = a] /\ o \in FrameRecords
      BY <2>2
    <3> HIDE DEF a, next, o
    <3>3. /\ next \in FrameRecords
          /\ next.list = o.list /\ next.table = o.table /\ next.returns = o.returns
      BY <3>1, <3>2 DEF FrameRecords
    <3>4. QED
      BY <3>3 DEF o
  <2>4. frames' = [outer EXCEPT ![n] = next]
    BY <1>2, <1>3, <1>5
  <2> HIDE DEF next, n
  <2>5. frames' \in Seq(FrameRecords) /\ Len(frames') = n /\ DOMAIN frames' = 1 .. n
    BY <1>2, <2>1, <2>3, <2>4
  <2>6. \A f \in 1 .. n : /\ frames'[f].list = frames[f].list /\ frames'[f].table = frames[f].table
                          /\ frames'[f].returns = frames[f].returns
    BY <1>2, <2>1, <2>3, <2>4
  <2>7. 1 .. n \subseteq DOMAIN frames /\ n = Len(frames) - 1
    BY <1>1 DEF n
  <2>8. table' = Frame.table /\ returnType' = Frame.returns /\ node' = 0
    BY <1>3
  <2>9. QED
    BY <2>5, <2>6, <2>7, <2>8
<1>6. QED
  BY <1>4, <1>5

(* Scopes are still nested, one less.                                        *)
LEMMA RestoredKeeps ==
  ASSUME ScopesInv, frames # <<>>, Restored, externKind' = "Default", error' = "none" => error = "none",
         UNCHANGED <<prog, symbols, tables, listTable>>
  PROVE  ScopesInv'
<1> USE DEF ScopesInv
<1>1. /\ frames' \in Seq(FrameRecords) /\ Len(frames') = Len(frames) - 1
      /\ DOMAIN frames' = 1 .. Len(frames) - 1
      /\ \A f \in DOMAIN frames' :
           /\ f \in DOMAIN frames
           /\ frames'[f].list = frames[f].list /\ frames'[f].table = frames[f].table
           /\ frames'[f].returns = frames[f].returns
      /\ table' = Frame.table /\ returnType' = Frame.returns /\ node' = 0
  BY RestoredFacts
<1>2. /\ Len(frames) \in Nat \ {0} /\ DOMAIN frames = 1 .. Len(frames)
      /\ Frame \in FrameRecords /\ Len(frames) \in DOMAIN frames
  BY FrameFacts
<1>3. ASSUME Len(frames) = 1 PROVE Typed' /\ Nested'
  <2>1. Frame = frames[1] /\ frames' = <<>>
    <3>1. Len(frames') = 0
      BY <1>1, <1>3
    <3>2. QED
      BY <1>1, <1>3, <3>1, EmptySeq DEF Frame
  <2>2. table' = 0 /\ returnType' = "none"
    BY <1>1, <2>1 DEF Nested
  <2>3. Typed'
    <3>1. table' \in 0 .. Len(tables')
      BY <2>2 DEF Typed
    <3>2. QED
      BY <1>1, <2>1, <2>2, <3>1 DEF Typed, FrameRecords
  <2>4. Nested'
    <3>1. DOMAIN frames' = {}
      BY <1>1, <1>3
    <3>2. QED
      BY <2>1, <2>2, <3>1 DEF Nested
  <2>5. QED
    BY <2>3, <2>4
<1>4. ASSUME Len(frames) # 1 PROVE Typed' /\ Nested'
  <2> DEFINE n == Len(frames) - 1
  <2>1. n \in DOMAIN frames' /\ n \in DOMAIN frames /\ 1 \in DOMAIN frames' /\ frames' # <<>>
    BY <1>1, <1>2, <1>4
  <2>2. \A f \in DOMAIN frames' : InnerTable(f)' = InnerTable(f)
    <3>1. ASSUME NEW f \in DOMAIN frames' PROVE InnerTable(f)' = InnerTable(f)
      <4>1. CASE f = n
        BY <1>1, <1>2, <4>1 DEF InnerTable, Frame
      <4>2. CASE f # n
        <5>1. f + 1 \in DOMAIN frames'
          BY <1>1, <1>2, <3>1, <4>2
        <5>2. f # Len(frames) /\ f # Len(frames')
          BY <1>1, <1>2, <3>1, <4>2
        <5>3. QED
          BY <1>1, <5>1, <5>2 DEF InnerTable
      <4>3. QED
        BY <4>1, <4>2
    <3>2. QED
      BY <3>1
  <2>3. table' \in 0 .. Len(tables')
    <3>1. table' = InnerTable(n)
      BY <1>1, <1>2 DEF InnerTable, Frame
    <3>2. InnerTable(n) = listTable[frames[n].list] /\ frames[n].list \in DOMAIN prog
      BY <2>1, FrameFacts DEF Nested, FrameRecords
    <3>3. QED
      BY <3>1, <3>2 DEF Typed
  <2>4. Typed'
    <3>1. returnType' \in {"none", "void", "value"}
      BY <1>1, <1>2 DEF FrameRecords
    <3>2. QED
      BY <1>1, <2>3, <3>1 DEF Typed, FrameRecords
  <2>5. Nested'
    BY <1>1, <2>1, <2>2 DEF Nested
  <2>6. QED
    BY <2>4, <2>5
<1>5. Typed' /\ Nested'
  BY <1>3, <1>4
<1>6. DeclaredOnce' /\ BodiesHaveTables'
  BY SameSymbols
<1>7. LinkageStaysInside'
  BY DEF LinkageStaysInside
<1>8. Staged'
  BY <1>1, <1>5, UnvisitedNext
<1>9. QED
  BY <1>5, <1>6, <1>7, <1>8

(* The end of a list.                                                        *)
LEMMA EndListKeeps == ScopesInv /\ EndList => ScopesInv'
<1> SUFFICES ASSUME ScopesInv, EndList PROVE ScopesInv'
  OBVIOUS
<1>1. /\ Going /\ frames # <<>> /\ Frame.at > Len(prog[Frame.list]) /\ Restored
      /\ UNCHANGED <<prog, symbols, tables, listTable, externKind, error>>
  BY DEF EndList, Going
<1>2. ~AtStatement
  <2>1. IsProgram(prog)
    BY DEF ScopesInv, Typed
  <2>2. Frame.list \in DOMAIN prog /\ Frame.at \in Nat
    BY <1>1, FrameFacts DEF ScopesInv
  <2>3. Len(prog[Frame.list]) \in Nat
    BY <2>1, <2>2, StatementFacts
  <2>4. QED
    BY <1>1, <2>2, <2>3 DEF AtStatement
<1>3. externKind = "Default"
  BY <1>1, <1>2 DEF ScopesInv, Staged, Typed
<1>4. QED
  BY <1>1, <1>3, RestoredKeeps

(* An error's way out.                                                       *)
LEMMA UnwindKeeps == ScopesInv /\ Unwind => ScopesInv'
<1> SUFFICES ASSUME ScopesInv, Unwind PROVE ScopesInv'
  OBVIOUS
<1>1. /\ frames # <<>> /\ Restored /\ externKind' = "Default"
      /\ UNCHANGED <<prog, symbols, tables, listTable, error>>
  BY DEF Unwind
<1>2. QED
  BY <1>1, RestoredKeeps

(* The module's list.                                                        *)
LEMMA AnalyseKeeps == ScopesInv /\ Analyse => ScopesInv'
<1> SUFFICES ASSUME ScopesInv, Analyse PROVE ScopesInv'
  OBVIOUS
<1> USE DEF ScopesInv
<1> DEFINE new == NewTable(table)
           frame == [list |-> 1, at |-> 1, table |-> table, returns |-> returnType]
<1>1. /\ tables = <<>> /\ tables' = <<new>> /\ table' = 1
      /\ listTable' = [listTable EXCEPT ![1] = 1] /\ frames' = <<frame>>
      /\ UNCHANGED <<prog, symbols, node, returnType, externKind, error>>
  BY DEF Analyse
<1>2. frames = <<>> /\ table = 0 /\ returnType = "none" /\ externKind = "Default" /\ node = 0
  BY <1>1 DEF Typed, Nested, Staged, LinkageStaysInside
<1>3. /\ prog \in Seq(Seq(Statements)) /\ DOMAIN prog = 1 .. Len(prog) /\ Len(prog) \in Nat \ {0}
      /\ 1 \in DOMAIN prog
  <2>1. IsProgram(prog)
    BY DEF Typed
  <2>2. prog \in Seq(Seq(Statements)) /\ prog # <<>>
    BY <2>1 DEF IsProgram
  <2>3. QED
    BY <2>2
<1>4. listTable \in [DOMAIN prog -> {0}]
  BY <1>1 DEF Typed
<1>5. new \in TableRecords /\ new.parent = 0
  BY <1>2 DEF NewTable, TableRecords
<1>6. /\ frame \in FrameRecords /\ frame.list = 1 /\ frame.table = 0 /\ frame.returns = "none"
  BY <1>2, <1>3 DEF FrameRecords
<1> HIDE DEF new, frame
<1>7. /\ tables' \in Seq(TableRecords) /\ Len(tables') = 1 /\ tables'[1].parent = 0 /\ tables' # <<>>
      /\ frames' \in Seq(FrameRecords) /\ Len(frames') = 1 /\ DOMAIN frames' = {1} /\ frames'[1] = frame
      /\ frames' # <<>>
  BY <1>1, <1>5, <1>6
<1>8. listTable' \in [DOMAIN prog -> 0 .. 1] /\ listTable'[1] = 1
      /\ \A l \in DOMAIN prog : l # 1 => listTable'[l] = 0
  BY <1>1, <1>3, <1>4
<1>9. Typed'
  BY <1>1, <1>7, <1>8 DEF Typed, FrameRecords
<1>10. Nested'
  <2>1. InnerTable(1)' = 1
    BY <1>1, <1>7 DEF InnerTable
  <2>2. QED
    BY <1>6, <1>7, <1>8, <2>1 DEF Nested
<1>11. \A s \in DOMAIN symbols : ~Plain(symbols[s].decl)
  BY <1>4 DEF DeclaredOnce
<1>12. DeclaredOnce'
  BY <1>1, <1>11 DEF DeclaredOnce
<1>13. ASSUME NEW l \in DOMAIN prog, NEW i \in DOMAIN prog[l] PROVE BodyHasTable(l, i)'
  <2>1. SymbolsOf(Key(l, i))' = {}
    BY <1>1, <1>11 DEF SymbolsOf, Plain, Key
  <2>2. ASSUME prog[l][i].kind = "FUNC" PROVE listTable'[prog[l][i].body] = 0
    <3>1. prog[l][i].body \in DOMAIN prog /\ prog[l][i].body > l
      BY <2>2, BodyFacts DEF Typed
    <3>2. QED
      BY <1>3, <1>8, <3>1
  <2>3. QED
    BY <1>1, <2>1, <2>2 DEF BodyHasTable, FunctionDefined
<1>14. BodiesHaveTables'
  BY <1>1, <1>13, BodiesStay
<1>15. LinkageStaysInside'
  BY <1>1, <1>2 DEF LinkageStaysInside
<1>16. Staged'
  BY <1>1, <1>2, <1>9, UnvisitedNext
<1>17. QED
  BY <1>9, <1>10, <1>12, <1>14, <1>15, <1>16

-----------------------------------------------------------------------------
(* The theorems.                                                             *)

(* Nothing is declared yet.                                                  *)
LEMMA InitScopes == Init => ScopesInv
<1> SUFFICES ASSUME Init PROVE ScopesInv
  OBVIOUS
<1>1. IsProgram(prog)
  BY ScopesAssumption DEF Init
<1>2. /\ symbols = <<>> /\ tables = <<>> /\ listTable = [l \in DOMAIN prog |-> 0]
      /\ frames = <<>> /\ node = 0 /\ table = 0 /\ returnType = "none" /\ externKind = "Default"
  BY DEF Init
<1>3. DOMAIN symbols = {} /\ DOMAIN frames = {} /\ Len(tables) = 0
  BY <1>2
<1>4. Typed
  <2>1. symbols \in Seq(SymbolRecords) /\ tables \in Seq(TableRecords) /\ frames \in Seq(FrameRecords)
    BY <1>2
  <2>2. listTable \in [DOMAIN prog -> 0 .. Len(tables)] /\ table \in 0 .. Len(tables) /\ node \in Nat
    BY <1>2, <1>3
  <2>3. QED
    BY <1>1, <1>2, <2>1, <2>2 DEF Typed
<1>5. Nested /\ DeclaredOnce /\ LinkageStaysInside
  BY <1>2, <1>3 DEF Nested, DeclaredOnce, LinkageStaysInside
<1>6. BodiesHaveTables
  <2>1. ASSUME NEW l \in DOMAIN prog, NEW i \in DOMAIN prog[l] PROVE BodyHasTable(l, i)
    <3>1. SymbolsOf(Key(l, i)) = {}
      BY <1>3 DEF SymbolsOf
    <3>2. prog[l][i].kind = "FUNC" => listTable[prog[l][i].body] = 0
      BY <1>1, <1>2, BodyFacts
    <3>3. QED
      BY <3>1, <3>2 DEF BodyHasTable, FunctionDefined
  <2>2. QED
    BY <2>1 DEF BodiesHaveTables, BodyHasTable
<1>7. Staged
  BY <1>2, <1>4, Unvisited
<1>8. QED
  BY <1>4, <1>5, <1>6, <1>7 DEF ScopesInv

(* What none of the analyser's variables notices.                             *)
LEMMA ElsewhereKeeps == ScopesInv /\ UNCHANGED semaVars => ScopesInv'
<1> SUFFICES ASSUME ScopesInv, UNCHANGED semaVars PROVE ScopesInv'
  OBVIOUS
<1> USE DEF ScopesInv
<1>1. UNCHANGED <<prog, symbols, tables, listTable, frames, node, table, returnType, externKind, error>>
  BY DEF semaVars
<1>2. Typed'
  BY <1>1 DEF Typed, FrameRecords
<1>3. Nested'
  BY <1>1 DEF Nested, InnerTable
<1>4. DeclaredOnce' /\ BodiesHaveTables'
  BY <1>1, SameSymbols
<1>5. LinkageStaysInside'
  BY <1>1 DEF LinkageStaysInside
<1>6. Staged'
  <2>1. /\ Undeclared' = Undeclared /\ Undefined' = Undefined
        /\ Frame' = Frame /\ Stmt' = Stmt /\ AtStatement' = AtStatement
        /\ \A k : SymbolsOf(DeclHere(k))' = SymbolsOf(DeclHere(k))
    BY <1>1, SamePlace
  <2>2. QED
    BY <1>1, <2>1 DEF Staged, Going
<1>7. QED
  BY <1>2, <1>3, <1>4, <1>5, <1>6

(* Every visit keeps the invariant.                                          *)
LEMMA SemaKeeps == ScopesInv /\ SemaNext => ScopesInv'
BY AnalyseKeeps, DeclareNextKeeps, DefineNextKeeps, VisitDeclareKeeps, BeginDimKeeps, EndDimKeeps,
   RefuseReturnKeeps, EndStatementKeeps, VisitNodeKeeps, VisitFunctionKeeps, BeginExternKeeps,
   DeclareExternKeeps, EndLinkageKeeps, DefineExternKeeps, EndExternKeeps, EndListKeeps, UnwindKeeps
   DEF SemaNext

(* What follows the analysis leaves its variables alone.                      *)
LEMMA GenerateElsewhere == Generate => UNCHANGED semaVars
BY DEF Generate, GenerateIR, GenDeclare, GenExtern, GenVariable, GenInitialiser, GenAssign, GenReturn,
       GenEvaluate, GenNode, GenFunction, GenEndList, LowerGlobal, DeclareFunctions, DeclareFunction,
       LowerFunctions, BindParameters, CreateMain, LowerVar, LowerStore, LowerAddrOf, LowerCall,
       LowerRet, LowerOperator, EndMain

(* The invariant of every compilation.                                       *)
THEOREM ScopesInvHolds == CompileSpec => []ScopesInv
<1>1. CompileInit => ScopesInv
  BY InitScopes DEF CompileInit
<1>2. ScopesInv /\ [CompileNext]_vars => ScopesInv'
  <2>1. CompileNext => SemaNext \/ UNCHANGED semaVars
    <3>1. Finished => UNCHANGED semaVars
      BY DEF Finished, vars
    <3>2. QED
      BY <3>1, GenerateElsewhere DEF CompileNext
  <2>2. UNCHANGED vars => UNCHANGED semaVars
    BY DEF vars
  <2>3. QED
    BY <2>1, <2>2, SemaKeeps, ElsewhereKeeps
<1>3. QED
  BY <1>1, <1>2, PTL DEF CompileSpec

(* m_symbolTable and m_returnType are those of the innermost list visited,     *)
(* in the table of the list its function stands in, and both are back where *)
(* they were in the end, on errors too.                                     *)
THEOREM ScopesNestHolds == CompileSpec => []ScopesNest
<1>1. ScopesInv => ScopesNest
  BY DEF ScopesInv, Nested, InnerTable, ScopesNest
<1>2. QED
  BY <1>1, ScopesInvHolds, PTL

(* m_externKind reaches the functions its block declares and no other symbol, *)
(* and is the default one again when the analysis ends.                     *)
THEOREM LinkageStaysInsideHolds == CompileSpec => []LinkageStaysInside
<1>1. ScopesInv => LinkageStaysInside
  BY DEF ScopesInv
<1>2. QED
  BY <1>1, ScopesInvHolds, PTL

-----------------------------------------------------------------------------
(* The invariant of resolution.  What it says of tables, symbols and frames    *)
(* holds until the first error, after which nothing is looked up any more.   *)

(* The declarations found in a list's table.                                *)
Belonging(l) == Owned(prog, l) \cup Linked(prog, l)

(* The table has the symbols of the list's declarations, by their names, and  *)
(* no other.                                                                *)
Sound(l) ==
  \A n \in Names :
    tables[listTable[l]].names[n] # 0 =>
      /\ tables[listTable[l]].names[n] \in DOMAIN symbols
      /\ symbols[tables[listTable[l]].names[n]].decl \in Belonging(l)
      /\ NameOf(prog, symbols[tables[listTable[l]].names[n]].decl) = n
Complete(l) ==
  \A s \in DOMAIN symbols :
    symbols[s].decl \in Belonging(l) => tables[listTable[l]].names[NameOf(prog, symbols[s].decl)] = s
ParametersMade(l) == \A key \in Parameters(prog, l) : SymbolsOf(key) # {}

TablesHold == \A l \in DOMAIN prog : listTable[l] # 0 => Sound(l) /\ Complete(l) /\ ParametersMade(l)
TablesApart ==
  /\ \A l, m \in DOMAIN prog : listTable[l] # 0 /\ listTable[l] = listTable[m] => l = m
  /\ \A t \in DOMAIN tables : tables[t].parent < t

(* A symbol is there only if its list has a table; a parameter's, its body.   *)
IsParameter(key) ==
  key[2] \in DOMAIN prog[key[1]] /\ key[3] = 0 /\ key[4] # 0 /\ prog[key[1]][key[2]].kind = "FUNC"
SymbolsPlaced ==
  \A s \in DOMAIN symbols :
    /\ symbols[s].decl[1] \in DOMAIN prog /\ listTable[symbols[s].decl[1]] # 0
    /\ IsParameter(symbols[s].decl) => listTable[prog[symbols[s].decl[1]][symbols[s].decl[2]].body] # 0

(* Each frame but the last stands at the function whose body is the next, and  *)
(* has all its declarations.                                                *)
StandsAt(f) ==
  /\ frames[f].at \in DOMAIN prog[frames[f].list]
  /\ prog[frames[f].list][frames[f].at].kind = "FUNC"
  /\ prog[frames[f].list][frames[f].at].body = frames[f + 1].list
AllDeclared(f) ==
  \A i \in DOMAIN prog[frames[f].list] :
    IsDecl(prog[frames[f].list][i]) => SymbolsOf(Key(frames[f].list, i)) # {}
FramesLinked ==
  /\ frames # <<>> => frames[1].list = 1
  /\ \A f \in DOMAIN frames : f # Len(frames) => StandsAt(f) /\ AllDeclared(f)

(* EXTERN blocks have been visited as far as the frame has come.             *)
LinkedBefore(f) ==
  \A i \in DOMAIN prog[frames[f].list] :
    i < frames[f].at /\ prog[frames[f].list][i].kind = "EXTERN" =>
      \A k \in DOMAIN prog[frames[f].list][i].decls : SymbolsOf(<<frames[f].list, i, k, 0>>) # {}
NotLinkedAfter(f) ==
  \A s \in DOMAIN symbols :
    symbols[s].decl[1] = frames[f].list /\ symbols[s].decl[3] # 0 /\ symbols[s].decl[4] = 0 =>
      symbols[s].decl[2] <= frames[f].at

(* A body with symbols is that of a function its list has come to.           *)
EnteredInOrder(f) ==
  \A j \in DOMAIN prog[frames[f].list] : \A s \in DOMAIN symbols :
    prog[frames[f].list][j].kind = "FUNC" /\ prog[frames[f].list][j].body = symbols[s].decl[1] =>
      j < frames[f].at \/ (j = frames[f].at /\ f # Len(frames))

VisitedInOrder == \A f \in DOMAIN frames : LinkedBefore(f) /\ NotLinkedAfter(f) /\ EnteredInOrder(f)

Searched == TablesHold /\ TablesApart /\ SymbolsPlaced /\ FramesLinked /\ VisitedInOrder

ResolutionInv ==
  /\ Spelled(prog)
  /\ \A use \in resolved : use.symbol \in DOMAIN symbols
  /\ error = "none" => Searched
  /\ ResolvesInnermost

-----------------------------------------------------------------------------
(* Walks.  A walk that gets nearer to its start with every step has an end:   *)
(* the functions find and Scope are defined by.                             *)

(* Induction, as a fact about a set of numbers.                             *)
LEMMA NumbersInSet ==
  ASSUME NEW S, 0 \in S, \A n \in Nat : n \in S => n + 1 \in S
  PROVE  \A n \in Nat : n \in S
<1> DEFINE rest == Nat \ S
<1>1. CASE rest # {}
  <2> DEFINE n == First(rest)
  <2>1. rest \subseteq Nat
    OBVIOUS
  <2> HIDE DEF rest
  <2>2. n \in rest /\ \A j \in rest : n <= j
    BY <1>1, <2>1, FirstIsOne
  <2> HIDE DEF n
  <2>3. n \in Nat /\ n \notin S
    BY <2>2 DEF rest
  <2>4. n - 1 \in Nat
    BY <2>3
  <2>5. n - 1 \in S
    BY <2>2, <2>3, <2>4 DEF rest
  <2>6. QED
    BY <2>3, <2>4, <2>5
<1>2. QED
  BY <1>1

Leads(S, stop, up, rank, N) ==
  /\ rank \in [S -> Nat] /\ N \in Nat
  /\ \A x \in S : rank[x] < N
  /\ \A x \in S \ stop : up[x] \in S /\ rank[up[x]] < rank[x]
IsWalk(h, S, stop, up) == h = [x \in S |-> IF x \in stop THEN x ELSE h[up[x]]]

(* The function a walk defines exists.                                      *)
LEMMA WalkExists ==
  ASSUME NEW S, NEW stop, NEW up, NEW rank, NEW N, Leads(S, stop, up, rank, N)
  PROVE  \E h : IsWalk(h, S, stop, up)
<1> DEFINE Near(n) == {x \in S : rank[x] < n}
           reached == {n \in Nat : \E h : h = [x \in Near(n) |-> IF x \in stop THEN x ELSE h[up[x]]]}
<1> USE DEF Leads
<1>1. 0 \in reached
  <2> DEFINE h == [x \in {} |-> x]
  <2>1. Near(0) = {}
    OBVIOUS
  <2>2. h = [x \in Near(0) |-> IF x \in stop THEN x ELSE h[up[x]]]
    BY <2>1
  <2>3. QED
    BY <2>2
<1>2. ASSUME NEW n \in Nat, n \in reached PROVE n + 1 \in reached
  <2>1. PICK h : h = [x \in Near(n) |-> IF x \in stop THEN x ELSE h[up[x]]]
    BY <1>2
  <2> DEFINE g == [x \in Near(n + 1) |-> IF x \in stop THEN x ELSE h[up[x]]]
  <2>2. ASSUME NEW x \in Near(n + 1), x \notin stop PROVE h[up[x]] = g[up[x]]
    <3>1. up[x] \in S /\ rank[up[x]] < rank[x] /\ rank[x] < n + 1 /\ rank[x] \in Nat /\ rank[up[x]] \in Nat
      BY <2>2
    <3>2. up[x] \in Near(n) /\ up[x] \in Near(n + 1)
      BY <3>1
    <3>3. h[up[x]] = IF up[x] \in stop THEN up[x] ELSE h[up[up[x]]]
      <4> HIDE DEF Near
      <4>1. QED
        BY <2>1, <3>2
    <3>4. g[up[x]] = IF up[x] \in stop THEN up[x] ELSE h[up[up[x]]]
      <4> HIDE DEF Near
      <4>1. QED
        BY <3>2
    <3>5. QED
      BY <3>3, <3>4
  <2>3. g = [x \in Near(n + 1) |-> IF x \in stop THEN x ELSE g[up[x]]]
    <3>1. \A x \in Near(n + 1) :
            (IF x \in stop THEN x ELSE h[up[x]]) = (IF x \in stop THEN x ELSE g[up[x]])
      BY <2>2
    <3> HIDE DEF Near
    <3>2. QED
      BY <3>1
  <2>4. \E f : f = [x \in Near(n + 1) |-> IF x \in stop THEN x ELSE f[up[x]]]
    <3> HIDE DEF g
    <3>1. QED
      BY <2>3
  <2>5. n + 1 \in Nat
    OBVIOUS
  <2> HIDE DEF Near
  <2>6. QED
    BY <2>4, <2>5
<1>3. N \in reached
  <2> HIDE DEF reached
  <2>1. QED
    BY <1>1, <1>2, NumbersInSet
<1>4. Near(N) = S
  OBVIOUS
<1>5. QED
  BY <1>3, <1>4 DEF IsWalk

(* find: the table itself or, if it lacks the name, the walk from its parent.  *)
LEMMA FindStep ==
  ASSUME tables \in Seq(TableRecords), \A u \in DOMAIN tables : tables[u].parent < u,
         NEW n \in Names, NEW t \in 0 .. Len(tables)
  PROVE  FindFrom(t, n) = IF t = 0 \/ tables[t].names[n] # 0 THEN t ELSE FindFrom(tables[t].parent, n)
<1> DEFINE S == 0 .. Len(tables)
           stop == {u \in S : u = 0 \/ tables[u].names[n] # 0}
           up == [u \in S |-> tables[u].parent]
           rank == [u \in S |-> u]
           holder == CHOOSE holder : holder = [u \in S |-> IF u = 0 \/ tables[u].names[n] # 0 THEN u
                                                            ELSE holder[tables[u].parent]]
<1>1. \A u : FindFrom(u, n) = holder[u]
  BY DEF FindFrom
<1>2. Len(tables) \in Nat /\ DOMAIN tables = 1 .. Len(tables)
  OBVIOUS
<1>3. ASSUME NEW u \in S \ stop PROVE up[u] \in S /\ rank[up[u]] < rank[u] /\ up[u] = tables[u].parent
  <2>1. u \in DOMAIN tables
    BY <1>2, <1>3
  <2>2. tables[u].parent \in Nat /\ tables[u].parent < u
    <3>1. tables[u] \in TableRecords
      BY <2>1
    <3>2. QED
      BY <2>1, <3>1 DEF TableRecords
  <2>3. QED
    BY <1>2, <2>1, <2>2
<1>4. rank \in [S -> Nat] /\ Len(tables) + 1 \in Nat /\ \A u \in S : rank[u] < Len(tables) + 1
  BY <1>2
<1>5. \E h : IsWalk(h, S, stop, up)
  <2>1. Leads(S, stop, up, rank, Len(tables) + 1)
    <3> DEFINE N == Len(tables) + 1
    <3>1. N \in Nat /\ \A u \in S : rank[u] < N
      BY <1>4
    <3> HIDE DEF N, S, stop, up, rank
    <3>2. Leads(S, stop, up, rank, N)
      BY <1>3, <1>4, <3>1 DEF Leads
    <3>3. QED
      BY <3>2 DEF N
  <2> HIDE DEF S, stop, up, rank
  <2>2. QED
    BY <2>1, WalkExists
<1>6. PICK h : IsWalk(h, S, stop, up)
  BY <1>5
<1>7. h = [u \in S |-> IF u = 0 \/ tables[u].names[n] # 0 THEN u ELSE h[tables[u].parent]]
  <2>1. ASSUME NEW u \in S
        PROVE  (IF u \in stop THEN u ELSE h[up[u]])
                 = (IF u = 0 \/ tables[u].names[n] # 0 THEN u ELSE h[tables[u].parent])
    BY <1>3
  <2>2. h = [u \in S |-> IF u \in stop THEN u ELSE h[up[u]]]
    BY <1>6 DEF IsWalk
  <2> HIDE DEF S, stop, up
  <2>3. QED
    BY <2>1, <2>2
<1>8. holder = [u \in S |-> IF u = 0 \/ tables[u].names[n] # 0 THEN u ELSE holder[tables[u].parent]]
  BY <1>7
<1>9. holder[t] = IF t = 0 \/ tables[t].names[n] # 0 THEN t ELSE holder[tables[t].parent]
  <2> HIDE DEF holder
  <2>1. QED
    BY <1>8
<1>10. QED
  <2> HIDE DEF holder
  <2>1. QED
    BY <1>1, <1>9

(* Where a body's function stands.                                          *)
LEMMA HomeIs ==
  ASSUME IsProgram(prog), NEW l \in DOMAIN prog, NEW i \in DOMAIN prog[l], prog[l][i].kind = "FUNC"
  PROVE  /\ Home(prog, prog[l][i].body) = <<l, i>> /\ prog[l][i].body # 1
         /\ Parameters(prog, prog[l][i].body) = {<<l, i, 0, k>> : k \in DOMAIN prog[l][i].params}
<1> DEFINE b == prog[l][i].body
           home == <<l, i>>
<1>1. DOMAIN prog = 1 .. Len(prog) /\ Len(prog) \in Nat /\ b \in DOMAIN prog /\ b > l
  BY StatementFacts, BodyFacts
<1>2. home \in Functions(prog) /\ home[1] = l /\ home[2] = i
  BY DEF Functions
<1>3. ASSUME NEW o \in Functions(prog), prog[o[1]][o[2]].body = b PROVE o = home
  <2>1. \A other \in Functions(prog) :
          prog[other[1]][other[2]].body = prog[home[1]][home[2]].body => other = home
    <3> HIDE DEF home
    <3>1. QED
      BY <1>2 DEF IsProgram
  <2>2. QED
    BY <1>2, <1>3, <2>1
<1>4. Home(prog, b) = home
  <2>1. prog[home[1]][home[2]].body = b
    BY <1>2
  <2> HIDE DEF home, b
  <2>2. QED
    BY <1>2, <1>3, <2>1 DEF Home
<1>5. b # 1
  BY <1>1
<1>6. Parameters(prog, b) = {<<l, i, 0, k>> : k \in DOMAIN prog[l][i].params}
  <2> HIDE DEF b
  <2>1. QED
    BY <1>2, <1>4, <1>5 DEF Parameters, FunctionAt
<1>7. QED
  BY <1>4, <1>5, <1>6

(* Every list but the module's is the body of a function in a list before it. *)
LEMMA HomeOf ==
  ASSUME IsProgram(prog), NEW b \in DOMAIN prog, b # 1
  PROVE  \E l \in DOMAIN prog : \E i \in DOMAIN prog[l] :
           /\ prog[l][i].kind = "FUNC" /\ prog[l][i].body = b
           /\ Home(prog, b) = <<l, i>> /\ l < b
<1>1. PICK o \in Functions(prog) : prog[o[1]][o[2]].body = b
  BY DEF IsProgram
<1>2. PICK l \in DOMAIN prog : \E i \in DOMAIN prog[l] : o = <<l, i>> /\ prog[l][i].kind = "FUNC"
  BY <1>1 DEF Functions
<1>3. PICK i \in DOMAIN prog[l] : o = <<l, i>> /\ prog[l][i].kind = "FUNC"
  BY <1>2
<1>4. prog[l][i].body = b
  BY <1>1, <1>3
<1>5. b > l /\ Home(prog, b) = <<l, i>>
  BY <1>3, <1>4, HomeIs, BodyFacts
<1>6. l < b
  BY <1>5, StatementFacts
<1>7. QED
  BY <1>3, <1>4, <1>5, <1>6

(* The scope of a name at a place: the place if the name is visible there or  *)
(* there is nothing around, the scope where the function stands if not.     *)
LEMMA ScopeStep ==
  ASSUME IsProgram(prog), NEW n, NEW l \in DOMAIN prog, NEW i \in DOMAIN prog[l]
  PROVE  Scope(prog, <<l, i>>, n) =
           IF Visible(prog, <<l, i>>, n) # {} \/ l = 1 THEN <<l, i>> ELSE Scope(prog, Home(prog, l), n)
<1> DEFINE S == Places(prog)
           stop == {x \in S : Visible(prog, x, n) # {} \/ x[1] = 1}
           up == [x \in S |-> Home(prog, x[1])]
           rank == [x \in S |-> x[1]]
           seen == CHOOSE seen : seen = [x \in S |-> IF Visible(prog, x, n) # {} \/ x[1] = 1 THEN x
                                                      ELSE seen[Home(prog, x[1])]]
           place == <<l, i>>
<1>1. \A x : Scope(prog, x, n) = seen[x]
  BY DEF Scope
<1>2. \A x \in S : x[1] \in DOMAIN prog /\ x[1] \in Nat /\ x[1] < Len(prog) + 1
  <2>1. DOMAIN prog = 1 .. Len(prog) /\ Len(prog) \in Nat
    BY StatementFacts
  <2>2. ASSUME NEW x \in S PROVE x[1] \in DOMAIN prog
    BY DEF Places
  <2> HIDE DEF S
  <2>3. QED
    BY <2>1, <2>2
<1>3. ASSUME NEW x \in S \ stop PROVE up[x] \in S /\ rank[up[x]] < rank[x]
  <2>1. x[1] \in DOMAIN prog /\ x[1] # 1 /\ x \in S
    BY <1>2, <1>3
  <2> DEFINE b == x[1]
  <2>2. PICK m \in DOMAIN prog : \E j \in DOMAIN prog[m] : Home(prog, b) = <<m, j>> /\ m < b
    <3>1. b \in DOMAIN prog /\ b # 1
      BY <2>1
    <3> HIDE DEF b
    <3>2. QED
      BY <3>1, HomeOf
  <2>3. PICK j \in DOMAIN prog[m] : Home(prog, x[1]) = <<m, j>> /\ m < x[1]
    BY <2>2
  <2>4. <<m, j>> \in S /\ <<m, j>>[1] = m
    BY DEF Places
  <2> HIDE DEF S
  <2>5. up[x] = <<m, j>> /\ rank[up[x]] = m /\ rank[x] = x[1]
    BY <2>1, <2>3, <2>4
  <2>6. QED
    BY <2>3, <2>4, <2>5
<1>4. Leads(S, stop, up, rank, Len(prog) + 1)
  <2> DEFINE N == Len(prog) + 1
  <2>1. N \in Nat /\ rank \in [S -> Nat] /\ \A x \in S : rank[x] < N
    <3>1. N \in Nat
      BY StatementFacts
    <3> HIDE DEF S
    <3>2. QED
      BY <1>2, <3>1
  <2> HIDE DEF N, S, stop, up, rank
  <2>2. Leads(S, stop, up, rank, N)
    BY <1>3, <2>1 DEF Leads
  <2>3. QED
    BY <2>2 DEF N
<1>5. PICK h : IsWalk(h, S, stop, up)
  <2> HIDE DEF S, stop, up, rank
  <2>1. QED
    BY <1>4, WalkExists
<1>6. h = [x \in S |-> IF Visible(prog, x, n) # {} \/ x[1] = 1 THEN x ELSE h[Home(prog, x[1])]]
  <2>1. ASSUME NEW x \in S
        PROVE  (IF x \in stop THEN x ELSE h[up[x]])
                 = (IF Visible(prog, x, n) # {} \/ x[1] = 1 THEN x ELSE h[Home(prog, x[1])])
    OBVIOUS
  <2>2. h = [x \in S |-> IF x \in stop THEN x ELSE h[up[x]]]
    BY <1>5 DEF IsWalk
  <2> HIDE DEF S, stop, up
  <2>3. QED
    BY <2>1, <2>2
<1>7. seen = [x \in S |-> IF Visible(prog, x, n) # {} \/ x[1] = 1 THEN x ELSE seen[Home(prog, x[1])]]
  BY <1>6
<1>8. place \in S /\ place[1] = l
  BY DEF Places
<1>9. seen[place] = IF Visible(prog, place, n) # {} \/ l = 1 THEN place ELSE seen[Home(prog, l)]
  <2> HIDE DEF seen, S, place
  <2>1. QED
    BY <1>7, <1>8
<1>10. QED
  <2> HIDE DEF seen
  <2>1. QED
    BY <1>1, <1>9

(* So what it means: what is visible there or, if nothing is, what it means    *)
(* where the function stands.                                               *)
LEMMA MeaningStep ==
  ASSUME IsProgram(prog), NEW n, NEW l \in DOMAIN prog, NEW i \in DOMAIN prog[l]
  PROVE  Meaning(prog, <<l, i>>, n) =
           IF Visible(prog, <<l, i>>, n) # {} \/ l = 1 THEN Visible(prog, <<l, i>>, n)
           ELSE Meaning(prog, Home(prog, l), n)
<1> DEFINE place == <<l, i>>
<1>1. Scope(prog, place, n) = IF Visible(prog, place, n) # {} \/ l = 1 THEN place
                              ELSE Scope(prog, Home(prog, l), n)
  BY ScopeStep
<1> HIDE DEF place
<1>2. QED
  BY <1>1 DEF Meaning, place

-----------------------------------------------------------------------------
(* What the search finds.                                                    *)

PlaceOf(f) == <<frames[f].list, frames[f].at>>
TableOf(f) == listTable[frames[f].list]

(* A frame's place is one of the program's.                                 *)
LEMMA PlaceFacts ==
  ASSUME ScopesInv, NEW f \in DOMAIN frames
  PROVE  /\ f \in Nat \ {0} /\ f <= Len(frames) /\ Len(frames) \in Nat /\ DOMAIN frames = 1 .. Len(frames)
         /\ frames[f].list \in DOMAIN prog /\ frames[f].list \in Nat /\ frames[f].at \in Nat \ {0}
         /\ DOMAIN prog[frames[f].list] \subseteq Nat
         /\ TableOf(f) \in DOMAIN tables /\ TableOf(f) # 0
         /\ tables[TableOf(f)].parent = frames[f].table
<1>1. Typed /\ frames # <<>>
  BY DEF ScopesInv, Typed
<1>2. /\ Len(frames) \in Nat \ {0} /\ DOMAIN frames = 1 .. Len(frames) /\ frames[f] \in FrameRecords
  BY <1>1, FrameFacts
<1>3. frames[f].list \in DOMAIN prog /\ frames[f].at \in Nat \ {0}
  BY <1>2 DEF FrameRecords
<1>4. DOMAIN prog = 1 .. Len(prog) /\ DOMAIN prog[frames[f].list] = 1 .. Len(prog[frames[f].list])
      /\ Len(prog) \in Nat /\ Len(prog[frames[f].list]) \in Nat
  BY <1>1, <1>3, StatementFacts DEF Typed
<1>5. TableOf(f) # 0 /\ tables[TableOf(f)].parent = frames[f].table
  BY DEF ScopesInv, Nested, TableOf
<1>6. TableOf(f) \in DOMAIN tables
  <2>1. TableOf(f) \in 0 .. Len(tables) /\ tables \in Seq(TableRecords)
    BY <1>1, <1>3 DEF Typed, TableOf
  <2>2. QED
    BY <1>5, <2>1
<1>7. QED
  BY <1>2, <1>3, <1>4, <1>5, <1>6

(* At a place that has come past its declarations, what is visible is what the *)
(* list's table has.                                                        *)
LEMMA VisibleIsHeld ==
  ASSUME ScopesInv, Searched, NEW f \in DOMAIN frames, AllDeclared(f),
         frames[f].at \in DOMAIN prog[frames[f].list],
         prog[frames[f].list][frames[f].at].kind # "EXTERN", NEW n \in Names
  PROVE  Visible(prog, PlaceOf(f), n) =
           IF tables[TableOf(f)].names[n] = 0 THEN {} ELSE {symbols[tables[TableOf(f)].names[n]].decl}
<1> DEFINE l == frames[f].list
           i == frames[f].at
           s == tables[TableOf(f)].names[n]
<1>1. /\ l \in DOMAIN prog /\ i \in Nat /\ DOMAIN prog[l] \subseteq Nat
      /\ listTable[l] # 0 /\ TableOf(f) = listTable[l]
      /\ PlaceOf(f)[1] = l /\ PlaceOf(f)[2] = i
  BY PlaceFacts DEF TableOf, PlaceOf
<1>2. Sound(l) /\ Complete(l) /\ ParametersMade(l) /\ LinkedBefore(f) /\ NotLinkedAfter(f)
  BY <1>1 DEF Searched, TablesHold, VisitedInOrder
<1>3. ASSUME NEW key \in Visible(prog, PlaceOf(f), n) PROVE s # 0 /\ key = symbols[s].decl
  <2>1. /\ NameOf(prog, key) = n /\ key \in Belonging(l)
        /\ key \in Owned(prog, l) \/ (key \in Linked(prog, l) /\ key[2] < i)
    BY <1>1, <1>3 DEF Visible, Belonging
  <2>2. SymbolsOf(key) # {}
    <3>1. CASE key \in Parameters(prog, l)
      BY <1>2, <3>1 DEF ParametersMade
    <3>2. ASSUME NEW j \in DOMAIN prog[l], IsDecl(prog[l][j]), key = <<l, j, 0, 0>>
          PROVE  SymbolsOf(key) # {}
      BY <3>2 DEF AllDeclared, Key
    <3>3. ASSUME NEW j \in DOMAIN prog[l], prog[l][j].kind = "EXTERN", NEW k \in DOMAIN prog[l][j].decls,
                 key = <<l, j, k, 0>>, key[2] < i
          PROVE  SymbolsOf(key) # {}
      <4>1. j < i
        BY <3>3
      <4>2. QED
        BY <1>2, <3>3, <4>1 DEF LinkedBefore
    <3>4. QED
      BY <2>1, <3>1, <3>2, <3>3 DEF Owned, Linked
  <2>3. PICK t \in DOMAIN symbols : symbols[t].decl = key
    BY <2>2 DEF SymbolsOf
  <2>4. s = t
    BY <1>1, <1>2, <2>1, <2>3 DEF Complete
  <2>5. t # 0
    BY <2>3, SymbolFacts DEF ScopesInv
  <2>6. QED
    BY <2>3, <2>4, <2>5
<1>4. ASSUME s # 0 PROVE symbols[s].decl \in Visible(prog, PlaceOf(f), n)
  <2> DEFINE key == symbols[s].decl
  <2>1. s \in DOMAIN symbols /\ key \in Belonging(l) /\ NameOf(prog, key) = n
    BY <1>1, <1>2, <1>4 DEF Sound
  <2> HIDE DEF s
  <2>2. CASE key \in Owned(prog, l)
    BY <1>1, <2>1, <2>2 DEF Visible
  <2>3. CASE key \in Linked(prog, l)
    <3>1. PICK j \in DOMAIN prog[l] : /\ prog[l][j].kind = "EXTERN"
                                      /\ \E k \in DOMAIN prog[l][j].decls : key = <<l, j, k, 0>>
      BY <2>3 DEF Linked
    <3>2. PICK k \in DOMAIN prog[l][j].decls : key = <<l, j, k, 0>>
      BY <3>1
    <3>3. k # 0
      <4>1. prog[l][j] \in Statements
        BY <1>1, <3>1, StatementFacts DEF ScopesInv, Typed
      <4>2. prog[l][j].decls \in Seq(Prototypes)
        BY <3>1, <4>1, KindFacts
      <4>3. QED
        BY <3>2, <4>2
    <3>4. key[1] = l /\ key[2] = j /\ key[3] = k /\ key[4] = 0
      BY <3>2
    <3>5. j <= i
      BY <1>2, <2>1, <3>3, <3>4 DEF NotLinkedAfter
    <3>6. j # i /\ j \in Nat
      BY <1>1, <3>1
    <3>7. j < i
      BY <1>1, <3>5, <3>6
    <3>8. QED
      BY <1>1, <2>1, <2>3, <3>4, <3>7 DEF Visible
  <2>4. QED
    BY <2>1, <2>2, <2>3 DEF Belonging
<1>5. QED
  BY <1>3, <1>4

(* While a place of the last list is visited that is no EXTERN block, every    *)
(* name means at each frame what find gives there, in the table of its scope. *)
LEMMA MeaningIsFound ==
  ASSUME ScopesInv, Searched, frames # <<>>, AllDeclared(Len(frames)),
         Frame.at \in DOMAIN prog[Frame.list], Stmt.kind # "EXTERN", NEW n \in Names,
         NEW f \in DOMAIN frames
  PROVE  /\ Meaning(prog, PlaceOf(f), n) =
              IF Find(TableOf(f), n) = 0 THEN {} ELSE {symbols[Find(TableOf(f), n)].decl}
         /\ Find(TableOf(f), n) # 0 =>
              /\ Find(TableOf(f), n) \in DOMAIN symbols
              /\ \E h \in DOMAIN frames : Scope(prog, PlaceOf(f), n) = PlaceOf(h)
<1> DEFINE IsFound(g) == /\ Meaning(prog, PlaceOf(g), n) =
                              IF Find(TableOf(g), n) = 0 THEN {} ELSE {symbols[Find(TableOf(g), n)].decl}
                         /\ Find(TableOf(g), n) # 0 =>
                              /\ Find(TableOf(g), n) \in DOMAIN symbols
                              /\ \E h \in DOMAIN frames : Scope(prog, PlaceOf(g), n) = PlaceOf(h)
           good == {k \in Nat : k \in DOMAIN frames => IsFound(k)}
<1>1. IsProgram(prog) /\ tables \in Seq(TableRecords) /\ \A u \in DOMAIN tables : tables[u].parent < u
  BY DEF ScopesInv, Typed, Searched, TablesApart
<1>2. ASSUME NEW g \in DOMAIN frames
      PROVE  /\ AllDeclared(g) /\ frames[g].at \in DOMAIN prog[frames[g].list]
             /\ prog[frames[g].list][frames[g].at].kind # "EXTERN"
  <2>1. CASE g = Len(frames)
    BY <2>1 DEF Frame, Stmt
  <2>2. CASE g # Len(frames)
    BY <2>2 DEF Searched, FramesLinked, StandsAt
  <2>3. QED
    BY <2>1, <2>2
<1>3. ASSUME NEW g \in DOMAIN frames
      PROVE  /\ Meaning(prog, PlaceOf(g), n) =
                  IF tables[TableOf(g)].names[n] # 0 THEN {symbols[tables[TableOf(g)].names[n]].decl}
                  ELSE IF frames[g].list = 1 THEN {} ELSE Meaning(prog, Home(prog, frames[g].list), n)
             /\ Scope(prog, PlaceOf(g), n) =
                  IF tables[TableOf(g)].names[n] # 0 \/ frames[g].list = 1 THEN PlaceOf(g)
                  ELSE Scope(prog, Home(prog, frames[g].list), n)
             /\ FindFrom(TableOf(g), n) = IF tables[TableOf(g)].names[n] # 0 THEN TableOf(g)
                                          ELSE FindFrom(frames[g].table, n)
  <2>1. frames[g].list \in DOMAIN prog /\ frames[g].at \in DOMAIN prog[frames[g].list]
    BY <1>2, PlaceFacts
  <2>2. Visible(prog, PlaceOf(g), n) =
          IF tables[TableOf(g)].names[n] = 0 THEN {} ELSE {symbols[tables[TableOf(g)].names[n]].decl}
    BY <1>2, VisibleIsHeld
  <2>3. Meaning(prog, PlaceOf(g), n) =
          IF Visible(prog, PlaceOf(g), n) # {} \/ frames[g].list = 1 THEN Visible(prog, PlaceOf(g), n)
          ELSE Meaning(prog, Home(prog, frames[g].list), n)
    BY <1>1, <2>1, MeaningStep DEF PlaceOf
  <2>4. Scope(prog, PlaceOf(g), n) =
          IF Visible(prog, PlaceOf(g), n) # {} \/ frames[g].list = 1 THEN PlaceOf(g)
          ELSE Scope(prog, Home(prog, frames[g].list), n)
    BY <1>1, <2>1, ScopeStep DEF PlaceOf
  <2>5. TableOf(g) \in 0 .. Len(tables) /\ TableOf(g) # 0 /\ tables[TableOf(g)].parent = frames[g].table
    BY <1>1, PlaceFacts
  <2>6. FindFrom(TableOf(g), n) = IF TableOf(g) = 0 \/ tables[TableOf(g)].names[n] # 0 THEN TableOf(g)
                                  ELSE FindFrom(tables[TableOf(g)].parent, n)
    BY <1>1, <2>5, FindStep
  <2>7. QED
    BY <2>2, <2>3, <2>5, <2>6, <2>4
<1>4. ASSUME NEW g \in DOMAIN frames, tables[TableOf(g)].names[n] # 0 PROVE IsFound(g)
  <2>1. FindFrom(TableOf(g), n) = TableOf(g) /\ TableOf(g) # 0
    BY <1>3, <1>4, PlaceFacts
  <2>2. Find(TableOf(g), n) = tables[TableOf(g)].names[n]
    BY <2>1 DEF Find
  <2>3. tables[TableOf(g)].names[n] \in DOMAIN symbols
    <3>1. Sound(frames[g].list)
      BY PlaceFacts DEF Searched, TablesHold, TableOf
    <3>2. QED
      BY <1>4, <3>1 DEF Sound, TableOf
  <2>4. QED
    BY <1>3, <1>4, <2>2, <2>3
<1>5. 0 \in good
  BY PlaceFacts
<1>6. ASSUME NEW k \in Nat, k \in good PROVE k + 1 \in good
  <2> DEFINE g == k + 1
  <2>1. ASSUME g \in DOMAIN frames, tables[TableOf(g)].names[n] = 0 PROVE IsFound(g)
    <3>1. CASE k = 0
      <4>1. g = 1 /\ frames[g].list = 1 /\ frames[g].table = 0
        BY <3>1 DEF Searched, FramesLinked, ScopesInv, Nested
      <4>2. FindFrom(0, n) = 0
        BY <1>1, FindStep
      <4>3. Find(TableOf(g), n) = 0 /\ Meaning(prog, PlaceOf(g), n) = {}
        <5> HIDE DEF g
        <5>1. QED
          BY <1>3, <2>1, <4>1, <4>2 DEF Find
      <4>4. QED
        BY <4>3
    <3>2. CASE k # 0
      <4>1. k \in DOMAIN frames /\ k # Len(frames) /\ 1 \in DOMAIN frames /\ 1 < g /\ IsFound(k)
        <5>1. DOMAIN frames = 1 .. Len(frames) /\ Len(frames) \in Nat
          BY PlaceFacts
        <5>2. k \in DOMAIN frames /\ k # Len(frames) /\ 1 \in DOMAIN frames /\ 1 < g
          <6>1. k + 1 \in 1 .. Len(frames)
            BY <2>1, <5>1
          <6>2. k \in 1 .. Len(frames) /\ 1 \in 1 .. Len(frames)
            BY <3>2, <5>1, <6>1
          <6>3. k # Len(frames)
            <7>1. \A m \in Nat : k + 1 <= m => k # m
              OBVIOUS
            <7>2. k + 1 <= Len(frames)
              BY <5>1, <6>1
            <7>3. QED
              BY <5>1, <7>1, <7>2, Zenon
          <6>4. 1 < g
            BY <3>2
          <6>5. QED
            BY <5>1, <6>2, <6>3, <6>4
        <5>3. QED
          BY <1>6, <5>2
      <4>2. frames[g].list # 1
        <5>1. frames[1].list < frames[g].list /\ frames[1].list = 1
          BY <2>1, <4>1 DEF ScopesInv, Nested, Searched, FramesLinked
        <5>2. QED
          BY <5>1
      <4>3. Home(prog, frames[g].list) = PlaceOf(k)
        <5>1. StandsAt(k) /\ frames[k].list \in DOMAIN prog
          BY <4>1, PlaceFacts DEF Searched, FramesLinked
        <5>2. QED
          BY <1>1, <5>1, HomeIs DEF StandsAt, PlaceOf
      <4>4. frames[g].table = TableOf(k)
        BY <4>1 DEF ScopesInv, Nested, InnerTable, TableOf
      <4>5. TableOf(g) # 0 /\ TableOf(k) # 0
        BY <2>1, <4>1, PlaceFacts
      <4>6. FindFrom(TableOf(g), n) = FindFrom(TableOf(k), n)
            /\ Meaning(prog, PlaceOf(g), n) = Meaning(prog, PlaceOf(k), n)
            /\ Scope(prog, PlaceOf(g), n) = Scope(prog, PlaceOf(k), n)
        <5> HIDE DEF g
        <5>1. QED
          BY <1>3, <2>1, <4>2, <4>3, <4>4
      <4>7. Find(TableOf(g), n) = Find(TableOf(k), n)
        BY <4>6 DEF Find
      <4>8. QED
        BY <4>1, <4>6, <4>7
    <3>3. QED
      BY <3>1, <3>2
  <2>2. g \in DOMAIN frames => IsFound(g)
    BY <1>4, <2>1
  <2>3. QED
    BY <2>2
<1>7. f \in good
  <2>1. f \in Nat
    BY PlaceFacts
  <2> HIDE DEF good
  <2>2. QED
    BY <1>5, <1>6, <2>1, NumbersInSet
<1>8. QED
  BY <1>7

-----------------------------------------------------------------------------
(* What declares nothing keeps the tables.                                   *)

SameDecls == DOMAIN symbols' = DOMAIN symbols /\ \A s \in DOMAIN symbols : symbols'[s].decl = symbols[s].decl

(* The symbols of a declaration are the same.                               *)
LEMMA SameSymbolsOf ==
  ASSUME SameDecls, NEW key
  PROVE  SymbolsOf(key)' = SymbolsOf(key)
BY DEF SameDecls, SymbolsOf

(* So are the declarations of a list, the tree being the same.               *)
LEMMA SameBelonging ==
  ASSUME prog' = prog, NEW l
  PROVE  Belonging(l)' = Belonging(l)
BY DEF Belonging

(* The tables, with symbols for the same declarations.                       *)
LEMMA TablesStay ==
  ASSUME TablesHold, TablesApart, SymbolsPlaced, SameDecls, UNCHANGED <<prog, tables, listTable>>
  PROVE  TablesHold' /\ TablesApart' /\ SymbolsPlaced'
<1>1. TablesApart'
  BY DEF TablesApart
<1>2. SymbolsPlaced'
  BY DEF SymbolsPlaced, SameDecls, IsParameter
<1>3. ASSUME NEW l \in DOMAIN prog, listTable[l] # 0
      PROVE  Sound(l)' /\ Complete(l)' /\ ParametersMade(l)'
  <2>1. Sound(l) /\ Complete(l) /\ ParametersMade(l)
    BY <1>3 DEF TablesHold
  <2>2. Belonging(l)' = Belonging(l)
    BY SameBelonging
  <2>3. Sound(l)' /\ Complete(l)'
    BY <2>1, <2>2 DEF Sound, Complete, SameDecls
  <2>4. ParametersMade(l)'
    BY <2>1, SameSymbolsOf DEF ParametersMade
  <2>5. QED
    BY <2>3, <2>4
<1>4. TablesHold'
  BY <1>3 DEF TablesHold
<1>5. QED
  BY <1>1, <1>2, <1>4

(* In front of EXTERN or behind, a frame may go on to the next statement.     *)
LinkedHere ==
  AtStatement /\ Stmt.kind = "EXTERN" => \A k \in DOMAIN Stmt.decls : SymbolsOf(DeclHere(k)) # {}

Advances ==
  /\ frames # <<>> /\ frames' # <<>> /\ Len(frames') = Len(frames) /\ DOMAIN frames' = DOMAIN frames
  /\ \A f \in DOMAIN frames : /\ frames'[f].list = frames[f].list
                              /\ f # Len(frames) => frames'[f].at = frames[f].at
  /\ Frame'.at = Frame.at \/ (Frame'.at = Frame.at + 1 /\ LinkedHere)

(* All of it stays when the last frame stays or goes on.                     *)
LEMMA AdvanceKeeps ==
  ASSUME ScopesInv, Searched, SameDecls, UNCHANGED <<prog, tables, listTable>>, Advances
  PROVE  Searched'
<1>1. TablesHold' /\ TablesApart' /\ SymbolsPlaced'
  BY TablesStay DEF Searched
<1>2. Len(frames) \in DOMAIN frames /\ 1 \in DOMAIN frames /\ Frame = frames[Len(frames)]
      /\ Frame' = frames'[Len(frames)]
  BY FrameFacts DEF ScopesInv, Advances, Frame
<1>3. FramesLinked'
  <2>1. frames'[1].list = 1
    BY <1>2 DEF Advances, Searched, FramesLinked
  <2>2. ASSUME NEW f \in DOMAIN frames', f # Len(frames') PROVE StandsAt(f)' /\ AllDeclared(f)'
    <3>1. /\ f \in DOMAIN frames /\ f # Len(frames) /\ StandsAt(f) /\ AllDeclared(f)
          /\ frames'[f].list = frames[f].list /\ frames'[f].at = frames[f].at
      BY <2>2 DEF Advances, Searched, FramesLinked
    <3>2. f + 1 \in DOMAIN frames
      BY <3>1, PlaceFacts
    <3>3. frames'[f + 1].list = frames[f + 1].list
      BY <3>2 DEF Advances
    <3>4. StandsAt(f)'
      BY <3>1, <3>3 DEF StandsAt
    <3>5. AllDeclared(f)'
      BY <3>1, SameSymbolsOf DEF AllDeclared, Key
    <3>6. QED
      BY <3>4, <3>5
  <2>3. QED
    BY <2>1, <2>2 DEF FramesLinked
<1>4. ASSUME NEW f \in DOMAIN frames PROVE LinkedBefore(f)' /\ NotLinkedAfter(f)' /\ EnteredInOrder(f)'
  <2> DEFINE l == frames[f].list
  <2>1. /\ frames'[f].list = l /\ LinkedBefore(f) /\ NotLinkedAfter(f) /\ EnteredInOrder(f)
        /\ Len(frames') = Len(frames)
    BY DEF Advances, Searched, VisitedInOrder
  <2>2. /\ frames[f].at \in Nat /\ DOMAIN prog[l] \subseteq Nat /\ l \in DOMAIN prog
    BY PlaceFacts
  <2>3. CASE frames'[f].at = frames[f].at
    <3>1. LinkedBefore(f)'
      BY <2>1, <2>3, SameSymbolsOf DEF LinkedBefore
    <3>2. NotLinkedAfter(f)' /\ EnteredInOrder(f)'
      BY <2>1, <2>3 DEF NotLinkedAfter, EnteredInOrder, SameDecls
    <3>3. QED
      BY <3>1, <3>2
  <2>4. CASE f = Len(frames) /\ frames'[f].at = frames[f].at + 1 /\ LinkedHere
    <3>1. ASSUME NEW i \in DOMAIN prog[l], i < frames[f].at + 1, prog[l][i].kind = "EXTERN",
                 NEW k \in DOMAIN prog[l][i].decls
          PROVE  SymbolsOf(<<l, i, k, 0>>) # {}
      <4>1. CASE i < frames[f].at
        BY <2>1, <3>1, <4>1 DEF LinkedBefore
      <4>2. CASE i = frames[f].at
        <5>1. Frame = frames[f] /\ Stmt = prog[l][i] /\ DeclHere(k) = <<l, i, k, 0>>
          BY <1>2, <2>4, <4>2 DEF Stmt, DeclHere
        <5>2. AtStatement
          <6>1. DOMAIN prog[l] = 1 .. Len(prog[l])
            BY <2>2, StatementFacts DEF ScopesInv, Typed
          <6>2. QED
            BY <2>2, <3>1, <4>2, <5>1, <6>1 DEF AtStatement
        <5>3. QED
          BY <2>4, <3>1, <5>1, <5>2 DEF LinkedHere
      <4>3. QED
        BY <2>2, <3>1, <4>1, <4>2
    <3>2. LinkedBefore(f)'
      BY <2>1, <2>4, <3>1, SameSymbolsOf DEF LinkedBefore
    <3>3. NotLinkedAfter(f)'
      <4>1. ASSUME NEW s \in DOMAIN symbols, symbols[s].decl[1] = l, symbols[s].decl[3] # 0,
                   symbols[s].decl[4] = 0
            PROVE  symbols[s].decl[2] <= frames[f].at + 1
        <5>1. symbols[s].decl[2] <= frames[f].at
          BY <2>1, <4>1 DEF NotLinkedAfter
        <5>2. symbols[s].decl[2] \in Nat
          BY SymbolFacts DEF ScopesInv, SymbolRecords
        <5>3. QED
          BY <2>2, <5>1, <5>2
      <4>2. QED
        BY <2>1, <2>4, <4>1 DEF NotLinkedAfter, SameDecls
    <3>4. EnteredInOrder(f)'
      <4>1. ASSUME NEW j \in DOMAIN prog[l], NEW s \in DOMAIN symbols, prog[l][j].kind = "FUNC",
                   prog[l][j].body = symbols[s].decl[1]
            PROVE  j < frames[f].at + 1
        <5>1. j < frames[f].at \/ j = frames[f].at
          BY <2>1, <4>1 DEF EnteredInOrder
        <5>2. QED
          BY <2>2, <5>1
      <4>2. QED
        BY <2>1, <2>4, <4>1 DEF EnteredInOrder, SameDecls
    <3>5. QED
      BY <3>2, <3>3, <3>4
  <2>5. QED
    BY <1>2, <2>3, <2>4 DEF Advances
<1>5. VisitedInOrder'
  BY <1>4 DEF VisitedInOrder, Advances
<1>6. QED
  BY <1>1, <1>3, <1>5 DEF Searched

(* The frames that are left stand where they stood, the last one behind.      *)
LEMMA RestoredPlaces ==
  ASSUME Typed, frames # <<>>, Restored
  PROVE  \A f \in DOMAIN frames' :
           frames'[f].at = IF f = Len(frames) - 1 THEN frames[f].at + 1 ELSE frames[f].at
<1> DEFINE n == Len(frames) - 1
           outer == SubSeq(frames, 1, n)
<1>1. /\ Len(frames) \in Nat \ {0} /\ DOMAIN frames = 1 .. Len(frames) /\ frames \in Seq(FrameRecords)
  BY FrameFacts DEF Typed
<1>2. outer \in Seq(FrameRecords) /\ Len(outer) = n /\ \A f \in 1 .. n : outer[f] = frames[f]
  BY <1>1
<1>3. frames' = IF outer = <<>> THEN outer ELSE [outer EXCEPT ![Len(outer)].at = @ + 1]
  BY DEF Restored
<1>4. DOMAIN frames' = 1 .. n
  BY RestoredFacts
<1> HIDE DEF outer
<1>5. CASE outer = <<>>
  <2>1. DOMAIN frames' = {}
    BY <1>3, <1>5
  <2>2. QED
    BY <2>1
<1>6. CASE outer # <<>>
  <2>1. frames' = [outer EXCEPT ![n].at = @ + 1]
    BY <1>2, <1>3, <1>6
  <2>2. ASSUME NEW f \in DOMAIN frames' PROVE frames[f] \in FrameRecords /\ outer[f] = frames[f]
    BY <1>1, <1>2, <1>4
  <2>3. ASSUME NEW f \in DOMAIN frames'
        PROVE  frames'[f].at = IF f = n THEN outer[f].at + 1 ELSE outer[f].at
    <3>1. f \in DOMAIN outer
      BY <1>2, <1>4
    <3>2. CASE f = n
      <4>1. frames'[f] = [outer[f] EXCEPT !.at = @ + 1]
        BY <2>1, <3>1, <3>2
      <4>2. outer[f] \in FrameRecords
        BY <2>2
      <4>3. QED
        BY <3>2, <4>1, <4>2 DEF FrameRecords
    <3>3. CASE f # n
      BY <2>1, <3>1, <3>3
    <3>4. QED
      BY <3>2, <3>3
  <2>4. QED
    BY <2>2, <2>3
<1>7. QED
  BY <1>5, <1>6

(* Out of a list.                                                           *)
LEMMA RestoredSearches ==
  ASSUME ScopesInv, Searched, frames # <<>>, Restored, UNCHANGED <<prog, symbols, tables, listTable>>
  PROVE  Searched'
<1>1. /\ Len(frames') = Len(frames) - 1 /\ DOMAIN frames' = 1 .. Len(frames) - 1
      /\ \A f \in DOMAIN frames' : f \in DOMAIN frames /\ frames'[f].list = frames[f].list
  BY RestoredFacts DEF ScopesInv
<1>2. Len(frames) \in Nat \ {0}
  BY FrameFacts DEF ScopesInv
<1>3. SameDecls
  BY DEF SameDecls
<1>4. TablesHold' /\ TablesApart' /\ SymbolsPlaced'
  BY <1>3, TablesStay DEF Searched
<1>5. ASSUME NEW f \in DOMAIN frames'
      PROVE  /\ f \in DOMAIN frames /\ f # Len(frames) /\ StandsAt(f) /\ AllDeclared(f)
             /\ frames'[f].list = frames[f].list
             /\ f = Len(frames') => frames'[f].at = frames[f].at + 1
             /\ f # Len(frames') => frames'[f].at = frames[f].at
  <2>1. f \in DOMAIN frames /\ f # Len(frames) /\ frames'[f].list = frames[f].list
    BY <1>1, <1>2
  <2>2. StandsAt(f) /\ AllDeclared(f)
    BY <2>1 DEF Searched, FramesLinked
  <2>3. frames'[f].at = IF f = Len(frames) - 1 THEN frames[f].at + 1 ELSE frames[f].at
    BY RestoredPlaces DEF ScopesInv
  <2>4. QED
    BY <1>1, <2>1, <2>2, <2>3
<1>6. FramesLinked'
  <2>1. frames' # <<>> => frames'[1].list = 1
    <3>1. ASSUME frames' # <<>> PROVE frames'[1].list = 1
      <4>1. frames' \in Seq(FrameRecords)
        BY RestoredFacts DEF ScopesInv
      <4>2. Len(frames') # 0
        BY <3>1, <4>1, EmptySeq
      <4>3. 1 \in DOMAIN frames'
        BY <1>1, <1>2, <4>2
      <4>4. QED
        BY <1>5, <4>3 DEF Searched, FramesLinked
    <3>2. QED
      BY <3>1
  <2>2. ASSUME NEW f \in DOMAIN frames', f # Len(frames') PROVE StandsAt(f)' /\ AllDeclared(f)'
    <3>1. f + 1 \in DOMAIN frames'
      BY <1>1, <1>2, <2>2
    <3>2. frames'[f + 1].list = frames[f + 1].list
      BY <1>1, <3>1
    <3>3. StandsAt(f)'
      BY <1>5, <2>2, <3>2 DEF StandsAt
    <3>4. AllDeclared(f)'
      BY <1>3, <1>5, SameSymbolsOf DEF AllDeclared, Key
    <3>5. QED
      BY <3>3, <3>4
  <2>3. QED
    BY <2>1, <2>2 DEF FramesLinked
<1>7. ASSUME NEW f \in DOMAIN frames' PROVE LinkedBefore(f)' /\ NotLinkedAfter(f)' /\ EnteredInOrder(f)'
  <2> DEFINE l == frames[f].list
  <2>1. /\ f \in DOMAIN frames /\ frames'[f].list = l /\ StandsAt(f)
        /\ LinkedBefore(f) /\ NotLinkedAfter(f) /\ EnteredInOrder(f)
    BY <1>5 DEF Searched, VisitedInOrder
  <2>2. frames[f].at \in Nat /\ DOMAIN prog[l] \subseteq Nat
    BY <2>1, PlaceFacts
  <2>3. CASE f # Len(frames')
    <3>1. frames'[f].at = frames[f].at
      BY <1>5, <2>3
    <3>2. LinkedBefore(f)'
      BY <1>3, <2>1, <3>1, SameSymbolsOf DEF LinkedBefore
    <3>3. NotLinkedAfter(f)' /\ EnteredInOrder(f)'
      BY <2>1, <2>3, <3>1 DEF NotLinkedAfter, EnteredInOrder
    <3>4. QED
      BY <3>2, <3>3
  <2>4. CASE f = Len(frames')
    <3>1. frames'[f].at = frames[f].at + 1
      BY <1>5, <2>4
    <3>2. LinkedBefore(f)'
      <4>1. ASSUME NEW i \in DOMAIN prog[l], i < frames[f].at + 1, prog[l][i].kind = "EXTERN"
            PROVE  i < frames[f].at
        <5>1. i # frames[f].at
          BY <2>1, <4>1 DEF StandsAt
        <5>2. QED
          BY <2>2, <4>1, <5>1
      <4>2. QED
        BY <1>3, <2>1, <3>1, <4>1, SameSymbolsOf DEF LinkedBefore
    <3>3. NotLinkedAfter(f)'
      <4>1. ASSUME NEW s \in DOMAIN symbols, symbols[s].decl[1] = l, symbols[s].decl[3] # 0,
                   symbols[s].decl[4] = 0
            PROVE  symbols[s].decl[2] <= frames[f].at + 1
        <5>1. symbols[s].decl[2] <= frames[f].at
          BY <2>1, <4>1 DEF NotLinkedAfter
        <5>2. symbols[s].decl[2] \in Nat
          BY SymbolFacts DEF ScopesInv, SymbolRecords
        <5>3. QED
          BY <2>2, <5>1, <5>2
      <4>2. QED
        BY <2>1, <3>1, <4>1 DEF NotLinkedAfter
    <3>4. EnteredInOrder(f)'
      <4>1. ASSUME NEW j \in DOMAIN prog[l], NEW s \in DOMAIN symbols, prog[l][j].kind = "FUNC",
                   prog[l][j].body = symbols[s].decl[1]
            PROVE  j < frames[f].at + 1
        <5>1. j < frames[f].at \/ j = frames[f].at
          BY <2>1, <4>1 DEF EnteredInOrder
        <5>2. QED
          BY <2>2, <5>1
      <4>2. QED
        BY <2>1, <3>1, <4>1 DEF EnteredInOrder
    <3>5. QED
      BY <3>2, <3>3, <3>4
  <2>5. QED
    BY <2>3, <2>4
<1>8. VisitedInOrder'
  BY <1>7 DEF VisitedInOrder
<1>9. QED
  BY <1>4, <1>6, <1>8 DEF Searched

(* Into a list, which has not been visited before.                           *)
LEMMA EnterSearches ==
  ASSUME ScopesInv, Searched, VisitFunction
  PROVE  Searched'
<1> DEFINE b == Stmt.body
           new == [list |-> b, at |-> 1, table |-> table, returns |-> returnType]
           n == Len(frames) + 1
           l == Frame.list
           i == Frame.at
<1>1. /\ Visiting({"FUNC"}) /\ frames' = Append(frames, new)
      /\ UNCHANGED <<prog, symbols, tables, listTable>>
  BY DEF VisitFunction
<1>2. /\ frames # <<>> /\ Undeclared = {} /\ Stmt = prog[l][i] /\ Stmt.kind = "FUNC"
      /\ l \in DOMAIN prog /\ i \in DOMAIN prog[l]
  BY <1>1, VisitFacts
<1>3. /\ b \in DOMAIN prog /\ listTable[b] # 0
  BY <1>1, BodyTable
<1>4. /\ Len(frames) \in Nat \ {0} /\ DOMAIN frames = 1 .. Len(frames) /\ Len(frames) \in DOMAIN frames
      /\ 1 \in DOMAIN frames /\ frames \in Seq(FrameRecords) /\ Frame = frames[Len(frames)]
      /\ i \in Nat /\ l \in Nat
  BY <1>2, FrameFacts, PlaceFacts DEF ScopesInv, Typed, Frame
<1>5. new.list = b /\ new.at = 1
  OBVIOUS
<1> HIDE DEF new, b, l, i
<1>6. /\ Len(frames') = n /\ DOMAIN frames' = 1 .. n /\ frames'[n] = new
      /\ \A f \in DOMAIN frames : f \in DOMAIN frames' /\ frames'[f] = frames[f]
  BY <1>1, <1>4
<1>7. \A f \in DOMAIN frames' : f \in DOMAIN frames \/ f = n
  BY <1>4, <1>6
<1>8. SameDecls
  BY <1>1 DEF SameDecls
<1>9. TablesHold' /\ TablesApart' /\ SymbolsPlaced'
  BY <1>1, <1>8, TablesStay DEF Searched
<1>10. \A s \in DOMAIN symbols : symbols[s].decl[1] # b
  <2>1. EnteredInOrder(Len(frames))
    BY <1>4 DEF Searched, VisitedInOrder
  <2>2. ASSUME NEW s \in DOMAIN symbols, symbols[s].decl[1] = b PROVE FALSE
    <3>1. i < i \/ (i = i /\ Len(frames) # Len(frames))
      BY <1>2, <1>4, <2>1, <2>2 DEF EnteredInOrder, b, l, i
    <3>2. QED
      BY <1>4, <3>1
  <2>3. QED
    BY <2>2
<1>11. FramesLinked'
  <2>1. frames'[1].list = 1
    BY <1>2, <1>4, <1>6 DEF Searched, FramesLinked
  <2>2. ASSUME NEW f \in DOMAIN frames', f # Len(frames') PROVE StandsAt(f)' /\ AllDeclared(f)'
    <3>1. f \in DOMAIN frames /\ frames'[f] = frames[f]
      BY <1>6, <1>7, <2>2
    <3>2. CASE f = Len(frames)
      <4>1. frames[f].list = l /\ frames[f].at = i /\ frames'[f + 1].list = b
        BY <1>4, <1>5, <1>6, <3>2 DEF l, i
      <4>2. StandsAt(f)'
        BY <1>1, <1>2, <3>1, <4>1 DEF StandsAt, b
      <4>3. AllDeclared(f)
        BY <1>2, <4>1 DEF AllDeclared, Undeclared, Key, l
      <4>4. AllDeclared(f)'
        BY <1>1, <1>8, <3>1, <4>3, SameSymbolsOf DEF AllDeclared, Key
      <4>5. QED
        BY <4>2, <4>4
    <3>3. CASE f # Len(frames)
      <4>1. StandsAt(f) /\ AllDeclared(f)
        BY <3>1, <3>3 DEF Searched, FramesLinked
      <4>2. f + 1 \in DOMAIN frames
        BY <1>4, <3>1, <3>3
      <4>3. frames'[f + 1] = frames[f + 1]
        BY <1>6, <4>2
      <4>4. StandsAt(f)'
        BY <1>1, <3>1, <4>1, <4>3 DEF StandsAt
      <4>5. AllDeclared(f)'
        BY <1>1, <1>8, <3>1, <4>1, SameSymbolsOf DEF AllDeclared, Key
      <4>6. QED
        BY <4>4, <4>5
    <3>4. QED
      BY <3>2, <3>3
  <2>3. QED
    BY <2>1, <2>2 DEF FramesLinked
<1>12. ASSUME NEW f \in DOMAIN frames' PROVE LinkedBefore(f)' /\ NotLinkedAfter(f)' /\ EnteredInOrder(f)'
  <2>1. CASE f \in DOMAIN frames
    <3>1. frames'[f] = frames[f] /\ LinkedBefore(f) /\ NotLinkedAfter(f) /\ EnteredInOrder(f)
      BY <1>6, <2>1 DEF Searched, VisitedInOrder
    <3>2. f # Len(frames')
      <4>1. \A m \in Nat : m # m + 1
        OBVIOUS
      <4>2. CASE f = Len(frames)
        BY <1>4, <1>6, <4>1, <4>2, Zenon
      <4>3. CASE f # Len(frames)
        BY <1>4, <1>6, <2>1, <4>3
      <4>4. QED
        BY <4>2, <4>3
    <3>3. LinkedBefore(f)'
      BY <1>1, <1>8, <3>1, SameSymbolsOf DEF LinkedBefore
    <3>4. NotLinkedAfter(f)' /\ EnteredInOrder(f)'
      BY <1>1, <3>1, <3>2 DEF NotLinkedAfter, EnteredInOrder
    <3>5. QED
      BY <3>3, <3>4
  <2>2. CASE f = n
    <3>1. frames'[f].list = b /\ frames'[f].at = 1 /\ DOMAIN prog[b] \subseteq Nat \ {0}
      <4>1. DOMAIN prog[b] = 1 .. Len(prog[b])
        BY <1>3, StatementFacts DEF ScopesInv, Typed
      <4>2. QED
        BY <1>5, <1>6, <2>2, <4>1
    <3>2. LinkedBefore(f)'
      <4>1. \A j \in DOMAIN prog[b] : ~(j < 1)
        BY <3>1
      <4>2. QED
        BY <1>1, <3>1, <4>1 DEF LinkedBefore
    <3>3. NotLinkedAfter(f)'
      BY <1>1, <1>10, <3>1 DEF NotLinkedAfter
    <3>4. EnteredInOrder(f)'
      <4>1. ASSUME NEW j \in DOMAIN prog[b], NEW s \in DOMAIN symbols, prog[b][j].kind = "FUNC",
                   prog[b][j].body = symbols[s].decl[1]
            PROVE  FALSE
        <5>1. listTable[symbols[s].decl[1]] # 0
          BY <4>1 DEF Searched, SymbolsPlaced
        <5>2. FunctionDefined(b, j)
          BY <1>3, <4>1 DEF ScopesInv, BodiesHaveTables
        <5>3. SymbolsOf(Key(b, j)) # {}
          BY <4>1, <5>1, <5>2 DEF FunctionDefined
        <5>4. PICK t \in DOMAIN symbols : symbols[t].decl = Key(b, j)
          BY <5>3 DEF SymbolsOf
        <5>5. symbols[t].decl[1] = b
          BY <5>4 DEF Key
        <5>6. QED
          BY <1>10, <5>5
      <4>2. QED
        BY <1>1, <3>1, <4>1 DEF EnteredInOrder
    <3>5. QED
      BY <3>2, <3>3, <3>4
  <2>3. QED
    BY <1>7, <2>1, <2>2
<1>13. VisitedInOrder'
  BY <1>12 DEF VisitedInOrder
<1>14. QED
  BY <1>9, <1>11, <1>13 DEF Searched

-----------------------------------------------------------------------------
(* Keys.                                                                     *)

(* What belongs to a list: what is declared there, and the parameters of the   *)
(* function whose body it is.                                               *)
LEMMA BelongingFacts ==
  ASSUME IsProgram(prog), NEW m \in DOMAIN prog, NEW key \in Belonging(m)
  PROVE  \/ key[1] = m /\ key[4] = 0
         \/ /\ key \in Parameters(prog, m) /\ key[1] \in DOMAIN prog /\ IsParameter(key)
            /\ prog[key[1]][key[2]].body = m
<1>1. CASE key \in Parameters(prog, m)
  <2>1. m # 1
    BY <1>1 DEF Parameters
  <2>2. PICK l \in DOMAIN prog : \E i \in DOMAIN prog[l] :
          prog[l][i].kind = "FUNC" /\ prog[l][i].body = m
    BY <2>1, HomeOf
  <2>3. PICK i \in DOMAIN prog[l] : prog[l][i].kind = "FUNC" /\ prog[l][i].body = m
    BY <2>2
  <2>4. PICK k \in DOMAIN prog[l][i].params : key = <<l, i, 0, k>>
    <3>1. Parameters(prog, prog[l][i].body) = {<<l, i, 0, k>> : k \in DOMAIN prog[l][i].params}
      BY <2>3, HomeIs
    <3>2. QED
      BY <1>1, <2>3, <3>1
  <2>5. k # 0
    <3>1. prog[l][i] \in Statements /\ IsFuncDecl(prog[l][i])
      BY <2>3, StatementFacts DEF IsFuncDecl
    <3>2. prog[l][i].params \in Seq(STRING)
      BY <3>1, KindFacts
    <3>3. QED
      BY <2>4, <3>2
  <2>6. key[1] = l /\ key[2] = i /\ key[3] = 0 /\ key[4] = k
    BY <2>4
  <2>7. QED
    BY <1>1, <2>3, <2>5, <2>6 DEF IsParameter
<1>2. CASE key \notin Parameters(prog, m)
  <2>1. ASSUME NEW i \in DOMAIN prog[m], key = <<m, i, 0, 0>> PROVE key[1] = m /\ key[4] = 0
    BY <2>1
  <2>2. ASSUME NEW i \in DOMAIN prog[m], NEW k \in DOMAIN prog[m][i].decls, key = <<m, i, k, 0>>
        PROVE  key[1] = m /\ key[4] = 0
    BY <2>2
  <2>3. QED
    BY <1>2, <2>1, <2>2 DEF Belonging, Owned, Linked
<1>3. QED
  BY <1>1, <1>2

(* Its names are identifiers.                                               *)
LEMMA SpelledNames ==
  ASSUME IsProgram(prog), Spelled(prog), NEW m \in DOMAIN prog, NEW key \in Belonging(m)
  PROVE  NameOf(prog, key) \in Names
<1>1. CASE key \in Parameters(prog, m)
  <2>1. m # 1
    BY <1>1 DEF Parameters
  <2>2. PICK l \in DOMAIN prog : \E i \in DOMAIN prog[l] :
          prog[l][i].kind = "FUNC" /\ prog[l][i].body = m
    BY <2>1, HomeOf
  <2>3. PICK i \in DOMAIN prog[l] : prog[l][i].kind = "FUNC" /\ prog[l][i].body = m
    BY <2>2
  <2>4. PICK k \in DOMAIN prog[l][i].params : key = <<l, i, 0, k>>
    <3>1. Parameters(prog, prog[l][i].body) = {<<l, i, 0, k>> : k \in DOMAIN prog[l][i].params}
      BY <2>3, HomeIs
    <3>2. QED
      BY <1>1, <2>3, <3>1
  <2>5. IsFuncDecl(prog[l][i]) /\ IsDecl(prog[l][i]) /\ prog[l][i] \in Statements
    BY <2>3, StatementFacts DEF IsFuncDecl, IsDecl
  <2>6. prog[l][i].params[k] \in Names
    BY <2>4, <2>5 DEF Spelled, SpelledDecl
  <2>7. k # 0
    <3>1. prog[l][i].params \in Seq(STRING)
      BY <2>5, KindFacts
    <3>2. QED
      BY <2>4, <3>1
  <2>8. NameOf(prog, key) = prog[l][i].params[k]
    BY <2>4, <2>7 DEF NameOf, DeclOf
  <2>9. QED
    BY <2>6, <2>8
<1>2. ASSUME NEW i \in DOMAIN prog[m], IsDecl(prog[m][i]), key = <<m, i, 0, 0>> PROVE NameOf(prog, key) \in Names
  <2>1. NameOf(prog, key) = prog[m][i].name
    BY <1>2 DEF NameOf, DeclOf
  <2>2. QED
    BY <1>2, <2>1 DEF Spelled, SpelledDecl
<1>3. ASSUME NEW i \in DOMAIN prog[m], prog[m][i].kind = "EXTERN", NEW k \in DOMAIN prog[m][i].decls,
             key = <<m, i, k, 0>>
      PROVE  NameOf(prog, key) \in Names
  <2>1. k # 0
    <3>1. prog[m][i] \in Statements
      BY StatementFacts
    <3>2. prog[m][i].decls \in Seq(Prototypes)
      BY <1>3, <3>1, KindFacts
    <3>3. QED
      BY <3>2
  <2>2. NameOf(prog, key) = prog[m][i].decls[k].name
    BY <1>3, <2>1 DEF NameOf, DeclOf
  <2>3. QED
    BY <1>3, <2>2 DEF Spelled, SpelledDecl
<1>4. QED
  BY <1>1, <1>2, <1>3 DEF Belonging, Owned, Linked

-----------------------------------------------------------------------------
(* Declarations and definitions.                                             *)

(* More symbols of the list at hand leave the frames in order.                *)
LEMMA FramesSearch ==
  ASSUME ScopesInv, Searched, SymbolsGrow, frames # <<>>, UNCHANGED <<prog, frames>>,
         \A s \in NewSymbols :
           /\ symbols'[s].decl[1] = Frame.list
           /\ symbols'[s].decl[3] # 0 /\ symbols'[s].decl[4] = 0 => symbols'[s].decl[2] <= Frame.at
  PROVE  FramesLinked' /\ VisitedInOrder'
<1> DEFINE n == Len(frames)
<1>1. n \in DOMAIN frames /\ 1 \in DOMAIN frames /\ Frame = frames[n] /\ DOMAIN frames = 1 .. n /\ n \in Nat
  BY FrameFacts DEF ScopesInv, Frame
<1>2. \A key : SymbolsOf(key) # {} => SymbolsOf(key)' # {}
  BY DEF SymbolsOf, SymbolsGrow
<1>3. \A s \in DOMAIN symbols' : s \in NewSymbols \/ (s \in DOMAIN symbols /\ symbols'[s].decl = symbols[s].decl)
  BY DEF NewSymbols, SymbolsGrow
<1>4. ASSUME NEW f \in DOMAIN frames, NEW g \in DOMAIN frames, frames[f].list = frames[g].list PROVE f = g
  <2>1. ~(f < g) /\ ~(g < f)
    <3>1. frames[f].list \in Nat /\ frames[g].list \in Nat
      BY PlaceFacts
    <3>2. QED
      BY <1>4, <3>1 DEF ScopesInv, Nested
  <2>2. f \in Nat /\ g \in Nat
    BY <1>1
  <2>3. QED
    BY <2>1, <2>2
<1>5. FramesLinked'
  <2>1. ASSUME NEW f \in DOMAIN frames, f # n PROVE StandsAt(f)' /\ AllDeclared(f)'
    <3>1. StandsAt(f) /\ AllDeclared(f)
      BY <2>1 DEF Searched, FramesLinked
    <3>2. StandsAt(f)'
      BY <3>1 DEF StandsAt
    <3>3. AllDeclared(f)'
      BY <1>2, <3>1 DEF AllDeclared, Key
    <3>4. QED
      BY <3>2, <3>3
  <2>2. QED
    BY <2>1 DEF Searched, FramesLinked
<1>6. ASSUME NEW f \in DOMAIN frames PROVE LinkedBefore(f)' /\ NotLinkedAfter(f)' /\ EnteredInOrder(f)'
  <2>1. LinkedBefore(f) /\ NotLinkedAfter(f) /\ EnteredInOrder(f)
    BY DEF Searched, VisitedInOrder
  <2>2. LinkedBefore(f)'
    BY <1>2, <2>1 DEF LinkedBefore
  <2>3. NotLinkedAfter(f)'
    <3>1. ASSUME NEW s \in DOMAIN symbols', symbols'[s].decl[1] = frames[f].list,
                 symbols'[s].decl[3] # 0, symbols'[s].decl[4] = 0
          PROVE  symbols'[s].decl[2] <= frames[f].at
      <4>1. CASE s \in NewSymbols
        <5>1. f = n
          BY <1>1, <1>4, <3>1, <4>1
        <5>2. QED
          BY <1>1, <3>1, <4>1, <5>1
      <4>2. CASE s \in DOMAIN symbols /\ symbols'[s].decl = symbols[s].decl
        BY <2>1, <3>1, <4>2 DEF NotLinkedAfter
      <4>3. QED
        BY <1>3, <4>1, <4>2
    <3>2. QED
      BY <3>1 DEF NotLinkedAfter
  <2>4. EnteredInOrder(f)'
    <3>1. ASSUME NEW j \in DOMAIN prog[frames[f].list], NEW s \in DOMAIN symbols',
                 prog[frames[f].list][j].kind = "FUNC",
                 prog[frames[f].list][j].body = symbols'[s].decl[1]
          PROVE  j < frames[f].at \/ (j = frames[f].at /\ f # n)
      <4>1. CASE s \in NewSymbols
        <5>1. prog[frames[f].list][j].body = frames[n].list /\ frames[f].list \in DOMAIN prog
          BY <1>1, <3>1, <4>1, PlaceFacts
        <5>2. frames[n].list # 1
          BY <3>1, <5>1, HomeIs DEF ScopesInv, Typed
        <5>3. n # 1
          BY <1>1, <5>2 DEF Searched, FramesLinked
        <5> DEFINE g == n - 1
        <5>4. g \in DOMAIN frames /\ g + 1 = n /\ g # n
          <6>1. g \in 1 .. n /\ g + 1 = n
            BY <1>1, <5>3
          <6>2. \A m \in Nat : m # m + 1
            OBVIOUS
          <6>3. g \in Nat
            BY <6>1
          <6> HIDE DEF g
          <6>4. g # n
            BY <6>1, <6>2, <6>3, Zenon
          <6>5. QED
            BY <1>1, <6>1, <6>4
        <5> HIDE DEF g
        <5>5. StandsAt(g) /\ frames[g].list \in DOMAIN prog
          BY <5>4, PlaceFacts DEF Searched, FramesLinked
        <5>6. frames[g].list = frames[f].list /\ frames[g].at = j
          <6>1. prog[frames[g].list][frames[g].at].kind = "FUNC"
                /\ prog[frames[g].list][frames[g].at].body = frames[n].list
                /\ frames[g].at \in DOMAIN prog[frames[g].list]
            BY <5>4, <5>5 DEF StandsAt
          <6>2. QED
            BY <3>1, <5>1, <5>5, <6>1, BodyFacts DEF ScopesInv, Typed
        <5>7. f = g
          BY <1>4, <5>4, <5>6
        <5>8. QED
          BY <5>4, <5>6, <5>7
      <4>2. CASE s \in DOMAIN symbols /\ symbols'[s].decl = symbols[s].decl
        BY <2>1, <3>1, <4>2 DEF EnteredInOrder
      <4>3. QED
        BY <1>3, <4>1, <4>2
    <3>2. QED
      BY <3>1 DEF EnteredInOrder
  <2>5. QED
    BY <2>2, <2>3, <2>4
<1>7. VisitedInOrder'
  BY <1>6 DEF VisitedInOrder
<1>8. QED
  BY <1>5, <1>7

(* Table t takes name n, for symbol s, and all else stays.                    *)
TakesName(t, n, s) ==
  /\ DOMAIN tables' = DOMAIN tables
  /\ \A u \in DOMAIN tables :
       /\ tables'[u].parent = tables[u].parent
       /\ \A m \in Names : tables'[u].names[m] = IF u = t /\ m = n THEN s ELSE tables[u].names[m]

(* A table takes one more name, and keeps the others.                        *)
LEMMA InsertedNames ==
  ASSUME tables \in Seq(TableRecords), NEW t \in 1 .. Len(tables), NEW n \in Names, NEW s \in Nat,
         tables' = [tables EXCEPT ![t].names[n] = s]
  PROVE  TakesName(t, n, s)
<1> DEFINE names == [tables[t].names EXCEPT ![n] = s]
           new == [tables[t] EXCEPT !.names = names]
<1>1. tables[t] \in TableRecords /\ DOMAIN tables = 1 .. Len(tables)
  OBVIOUS
<1>2. names \in [Names -> Nat] /\ \A m \in Names : names[m] = IF m = n THEN s ELSE tables[t].names[m]
  BY <1>1 DEF TableRecords
<1>3. new.names = names /\ new.parent = tables[t].parent
  <2> HIDE DEF names
  <2>1. QED
    BY <1>1 DEF TableRecords
<1>4. tables' = [tables EXCEPT ![t] = new]
  OBVIOUS
<1> HIDE DEF new, names
<1>5. /\ DOMAIN tables' = DOMAIN tables /\ tables'[t] = new
      /\ \A u \in DOMAIN tables : u # t => tables'[u] = tables[u]
  BY <1>1, <1>4
<1>6. QED
  BY <1>2, <1>3, <1>5 DEF TakesName

(* declare, of what belongs to the list at hand.                              *)
LEMMA DeclareSearches ==
  ASSUME ScopesInv, Searched, Spelled(prog), frames # <<>>, table # 0,
         NEW decl \in Statements, IsDecl(decl), NEW key \in Nat \X Nat \X Nat \X Nat,
         Declare(decl, key), ~Contains(table, decl.name),
         key \in Belonging(Frame.list), key[1] = Frame.list, key[4] = 0, NameOf(prog, key) = decl.name,
         key[3] # 0 => key[2] <= Frame.at
  PROVE  Searched'
<1> DEFINE l == Frame.list
           n == decl.name
           new == Len(symbols) + 1
<1>1. /\ IsProgram(prog) /\ symbols \in Seq(SymbolRecords) /\ tables \in Seq(TableRecords)
      /\ Len(symbols) \in Nat /\ DOMAIN symbols = 1 .. Len(symbols) /\ DOMAIN tables = 1 .. Len(tables)
      /\ table \in 1 .. Len(tables)
  BY DEF ScopesInv, Typed
<1>2. l \in DOMAIN prog /\ listTable[l] = table
  <2>1. Len(frames) \in DOMAIN frames /\ Frame.list \in DOMAIN prog
    BY FrameFacts DEF ScopesInv
  <2>2. QED
    BY <2>1 DEF ScopesInv, Nested, InnerTable, Frame
<1>3. DeclareEffect(key)
  BY DeclareDoes DEF ScopesInv
<1>4. /\ SymbolsGrow /\ NewSymbols = {new} /\ symbols'[new].decl = key
      /\ UNCHANGED <<prog, listTable, frames>>
  BY <1>3 DEF DeclareEffect
<1>5. n \in Names
  BY <1>1, <1>2, SpelledNames
<1>6. tables' = [tables EXCEPT ![table].names[n] = new]
  BY DEF Declare, Insert, Symbol
<1> HIDE DEF n
<1>7. /\ new \in DOMAIN symbols' /\ new \notin DOMAIN symbols /\ new # 0 /\ new \in Nat
      /\ \A s \in DOMAIN symbols' : s = new \/ s \in DOMAIN symbols
      /\ \A s \in DOMAIN symbols : s \in DOMAIN symbols' /\ symbols'[s].decl = symbols[s].decl
  BY <1>1, <1>4 DEF NewSymbols, SymbolsGrow
<1> HIDE DEF l, new
<1>8. TakesName(table, n, new)
  BY <1>1, <1>5, <1>6, <1>7, InsertedNames
<1>9. FramesLinked' /\ VisitedInOrder'
  BY <1>4, FramesSearch
<1>10. TablesApart'
  BY <1>4, <1>8 DEF Searched, TablesApart, TakesName
<1>11. SymbolsPlaced'
  <2>1. ASSUME NEW s \in DOMAIN symbols'
        PROVE  /\ symbols'[s].decl[1] \in DOMAIN prog /\ listTable[symbols'[s].decl[1]] # 0
               /\ IsParameter(symbols'[s].decl) => listTable[prog[symbols'[s].decl[1]][symbols'[s].decl[2]].body] # 0
    <3>1. CASE s = new
      BY <1>1, <1>2, <1>4, <3>1 DEF IsParameter, l
    <3>2. CASE s \in DOMAIN symbols
      BY <1>7, <3>2 DEF Searched, SymbolsPlaced
    <3>3. QED
      BY <1>7, <3>1, <3>2
  <2>2. QED
    BY <1>4, <2>1 DEF SymbolsPlaced, IsParameter
<1>12. ASSUME NEW m \in DOMAIN prog, key \in Belonging(m) PROVE m = l
  <2>1. ~IsParameter(key)
    BY DEF IsParameter
  <2>2. QED
    BY <1>1, <1>12, <2>1, BelongingFacts DEF l
<1>13. ASSUME NEW m \in DOMAIN prog, listTable[m] # 0
       PROVE  Sound(m)' /\ Complete(m)' /\ ParametersMade(m)'
  <2> DEFINE t == listTable[m]
  <2>1. Sound(m) /\ Complete(m) /\ ParametersMade(m)
    BY <1>13 DEF Searched, TablesHold
  <2>2. Belonging(m)' = Belonging(m)
    BY <1>4, SameBelonging
  <2>3. t \in DOMAIN tables /\ (t = table => m = l)
    <3>1. t \in 0 .. Len(tables)
      BY DEF ScopesInv, Typed
    <3>2. t \in DOMAIN tables
      BY <1>1, <1>13, <3>1
    <3>3. QED
      BY <1>2, <1>13, <3>2 DEF Searched, TablesApart
  <2>4. /\ listTable'[m] = t
        /\ \A w \in Names : tables'[t].names[w] = IF t = table /\ w = n THEN new ELSE tables[t].names[w]
    BY <1>4, <1>8, <2>3 DEF TakesName
  <2>5. Sound(m)'
    <3>1. ASSUME NEW w \in Names, tables'[t].names[w] # 0
          PROVE  /\ tables'[t].names[w] \in DOMAIN symbols'
                 /\ symbols'[tables'[t].names[w]].decl \in Belonging(m)
                 /\ NameOf(prog, symbols'[tables'[t].names[w]].decl) = w
      <4>1. CASE t = table /\ w = n
        <5>1. tables'[t].names[w] = new /\ m = l
          BY <2>3, <2>4, <4>1
        <5>2. QED
          BY <1>4, <1>7, <4>1, <5>1 DEF l, n
      <4>2. CASE ~(t = table /\ w = n)
        <5>1. tables'[t].names[w] = tables[t].names[w]
          BY <2>4, <4>2
        <5>2. QED
          BY <1>7, <2>1, <3>1, <5>1 DEF Sound
      <4>3. QED
        BY <4>1, <4>2
    <3>2. QED
      BY <1>4, <2>2, <2>4, <3>1 DEF Sound
  <2>6. Complete(m)'
    <3>1. ASSUME NEW s \in DOMAIN symbols', symbols'[s].decl \in Belonging(m)
          PROVE  tables'[t].names[NameOf(prog, symbols'[s].decl)] = s
      <4>1. CASE s = new
        <5>1. m = l /\ t = table /\ NameOf(prog, symbols'[s].decl) = n
          BY <1>2, <1>4, <1>12, <3>1, <4>1 DEF n
        <5>2. QED
          BY <1>5, <2>4, <4>1, <5>1
      <4>2. CASE s \in DOMAIN symbols
        <5> DEFINE w == NameOf(prog, symbols[s].decl)
        <5>1. symbols'[s].decl = symbols[s].decl
          BY <1>7, <4>2
        <5>2. tables[t].names[w] = s /\ w \in Names
          BY <1>1, <2>1, <3>1, <4>2, <5>1, SpelledNames DEF Complete
        <5>3. ~(t = table /\ w = n)
          <6>1. s # 0
            BY <1>1, <4>2
          <6>2. tables[table].names[n] = 0
            BY DEF Contains, n
          <6> HIDE DEF w
          <6>3. QED
            BY <5>2, <6>1, <6>2
        <5> HIDE DEF w
        <5>4. tables'[t].names[w] = s
          BY <2>4, <5>2, <5>3
        <5>5. QED
          BY <5>1, <5>4 DEF w
      <4>3. QED
        BY <1>7, <4>1, <4>2
    <3>2. QED
      BY <1>4, <2>2, <2>4, <3>1 DEF Complete
  <2>7. ParametersMade(m)'
    <3>1. \A k : SymbolsOf(k) # {} => SymbolsOf(k)' # {}
      BY <1>4 DEF SymbolsOf, SymbolsGrow
    <3>2. QED
      BY <1>4, <2>1, <3>1 DEF ParametersMade
  <2>8. QED
    BY <2>5, <2>6, <2>7
<1>14. TablesHold'
  BY <1>4, <1>13 DEF TablesHold
<1>15. QED
  BY <1>9, <1>10, <1>11, <1>14 DEF Searched

(* A declaration of the list.                                                *)
LEMMA DeclareNextSearches ==
  ASSUME ScopesInv, Searched, Spelled(prog), DeclareNext
  PROVE  SymbolsGrow /\ prog' = prog /\ (error' = "none" => Searched')
<1> DEFINE i == First(Undeclared)
           decl == prog[Frame.list][i]
           key == <<Frame.list, i, 0, 0>>
<1>1. Going /\ Undeclared # {} /\ Declare(decl, key)
  BY DEF DeclareNext
<1>2. /\ frames # <<>> /\ table # 0 /\ Frame.list \in DOMAIN prog
      /\ DOMAIN prog[Frame.list] \subseteq Nat /\ DOMAIN prog \subseteq Nat
  BY <1>1, WaitingFacts
<1>3. i \in DOMAIN prog[Frame.list] /\ IsDecl(decl)
  <2>1. Undeclared \subseteq Nat
    BY <1>2 DEF Undeclared
  <2>2. i \in Undeclared
    BY <1>1, <2>1, FirstIsOne
  <2>3. QED
    BY <2>2 DEF Undeclared
<1>4. decl \in Statements /\ Typed
  <2>1. IsProgram(prog)
    BY DEF ScopesInv, Typed
  <2>2. QED
    BY <1>2, <1>3, <2>1, StatementFacts DEF ScopesInv
<1>5. /\ key \in Nat \X Nat \X Nat \X Nat /\ key[1] = Frame.list /\ key[3] = 0 /\ key[4] = 0
      /\ key \in Belonging(Frame.list) /\ NameOf(prog, key) = decl.name
  BY <1>2, <1>3 DEF Belonging, Owned, NameOf, DeclOf
<1> HIDE DEF i, decl, key
<1>6. CASE ~Contains(table, decl.name) /\ DeclareEffect(key)
  <2>1. Searched'
    BY <1>1, <1>2, <1>3, <1>4, <1>5, <1>6, DeclareSearches
  <2>2. QED
    BY <1>6, <2>1 DEF DeclareEffect
<1>7. CASE error' = "redefinition" /\ UNCHANGED <<prog, symbols>>
  BY <1>4, <1>7 DEF SymbolsGrow, Typed
<1>8. QED
  BY <1>1, <1>2, <1>3, <1>4, <1>5, <1>6, <1>7, DeclareDoes

(* A declaration of an EXTERN block.                                         *)
LEMMA DeclareExternSearches ==
  ASSUME ScopesInv, Searched, Spelled(prog), DeclareExtern
  PROVE  SymbolsGrow /\ prog' = prog /\ (error' = "none" => Searched')
<1> DEFINE decl == Stmt.decls[node]
           key == DeclHere(node)
<1>1. Visiting({"EXTERN"}) /\ node \in 1 .. Len(Stmt.decls) /\ Declare(decl, key)
  BY DEF DeclareExtern
<1>2. /\ frames # <<>> /\ table # 0 /\ Stmt.kind = "EXTERN" /\ node \in Nat
      /\ Frame.list \in DOMAIN prog /\ Frame.at \in DOMAIN prog[Frame.list]
      /\ Stmt = prog[Frame.list][Frame.at]
      /\ Stmt.decls \in Seq(Prototypes) /\ DOMAIN Stmt.decls = 1 .. Len(Stmt.decls)
  BY <1>1, VisitFacts
<1>3. decl \in Statements /\ IsDecl(decl) /\ Typed
  BY <1>1, <1>2, PrototypeFacts DEF ScopesInv
<1>4. Frame.list \in Nat /\ Frame.at \in Nat
  <2>1. IsProgram(prog)
    BY DEF ScopesInv, Typed
  <2>2. QED
    BY <1>2, <2>1, StatementFacts
<1>5. key = <<Frame.list, Frame.at, node, 0>>
  BY DEF DeclHere
<1>6. /\ key \in Nat \X Nat \X Nat \X Nat
      /\ key[1] = Frame.list /\ key[2] = Frame.at /\ key[3] = node /\ key[4] = 0
  BY <1>2, <1>4, <1>5
<1>7. key \in Belonging(Frame.list)
  BY <1>1, <1>2, <1>5 DEF Belonging, Linked
<1>8. NameOf(prog, key) = decl.name
  <2>1. node # 0
    BY <1>1
  <2> HIDE DEF key
  <2>2. QED
    BY <1>2, <1>6, <2>1 DEF NameOf, DeclOf
<1> HIDE DEF decl, key
<1>9. CASE ~Contains(table, decl.name) /\ DeclareEffect(key)
  <2>1. key[2] <= Frame.at
    BY <1>4, <1>6
  <2>2. Searched'
    BY <1>1, <1>2, <1>3, <1>6, <1>7, <1>8, <1>9, <2>1, DeclareSearches
  <2>3. QED
    BY <1>9, <2>2 DEF DeclareEffect
<1>10. CASE error' = "redefinition" /\ UNCHANGED <<prog, symbols>>
  BY <1>3, <1>10 DEF SymbolsGrow, Typed
<1>11. QED
  BY <1>1, <1>2, <1>3, <1>6, <1>9, <1>10, DeclareDoes

(* The parameters that all fit are different.                                 *)
LEMMA FittingAll ==
  ASSUME NEW params \in Seq(STRING), Fitting(params) = Len(params)
  PROVE  \A p, q \in DOMAIN params : params[p] = params[q] => p = q
<1> DEFINE S == {p \in DOMAIN params : \E q \in 1 .. p - 1 : params[q] = params[p]}
<1>1. Len(params) \in Nat /\ DOMAIN params = 1 .. Len(params)
  OBVIOUS
<1>2. CASE \E p \in DOMAIN params : \E q \in 1 .. p - 1 : params[q] = params[p]
  <2>1. S \subseteq Nat /\ S \subseteq 1 .. Len(params) /\ S # {}
    BY <1>1, <1>2
  <2>2. Fitting(params) = First(S) - 1
    BY <1>2 DEF Fitting
  <2> HIDE DEF S
  <2>3. First(S) \in 1 .. Len(params)
    BY <2>1, FirstIsOne
  <2>4. First(S) - 1 = Len(params)
    BY <2>2
  <2>5. QED
    BY <1>1, <2>3, <2>4
<1>3. CASE ~\E p \in DOMAIN params : \E q \in 1 .. p - 1 : params[q] = params[p]
  <2>1. ASSUME NEW p \in DOMAIN params, NEW q \in DOMAIN params, params[p] = params[q] PROVE ~(q < p)
    <3>1. ASSUME q < p PROVE FALSE
      <4>1. q \in 1 .. p - 1
        BY <1>1, <3>1
      <4>2. QED
        BY <1>3, <2>1, <4>1
    <3>2. QED
      BY <3>1
  <2>2. ASSUME NEW p \in DOMAIN params, NEW q \in DOMAIN params, params[p] = params[q] PROVE p = q
    <3>1. ~(q < p) /\ ~(p < q)
      BY <2>1, <2>2
    <3>2. p \in Nat /\ q \in Nat
      BY <1>1
    <3>3. QED
      BY <3>1, <3>2
  <2>3. QED
    BY <2>2
<1>4. QED
  BY <1>2, <1>3

(* One symbol takes another status, and those that are made follow in order.  *)
LEMMA MarkedInOrder ==
  ASSUME symbols \in Seq(SymbolRecords), NEW s \in DOMAIN symbols,
         NEW status \in {"Declared", "BeingDefined", "Defined"},
         NEW more \in Seq(SymbolRecords),
         symbols' = [symbols EXCEPT ![s].status = status] \o more
  PROVE  /\ \A t \in NewSymbols : \E p \in DOMAIN more : t = Len(symbols) + p
         /\ \A p \in DOMAIN more : /\ Len(symbols) + p \in NewSymbols
                                   /\ symbols'[Len(symbols) + p] = more[p]
<1> DEFINE marked == [symbols EXCEPT ![s].status = status]
           mark == [symbols[s] EXCEPT !.status = status]
<1>1. /\ DOMAIN symbols = 1 .. Len(symbols) /\ Len(symbols) \in Nat
      /\ DOMAIN more = 1 .. Len(more) /\ Len(more) \in Nat
      /\ symbols[s] \in SymbolRecords
  OBVIOUS
<1>2. mark \in SymbolRecords
  BY <1>1 DEF SymbolRecords
<1>3. marked = [symbols EXCEPT ![s] = mark] /\ symbols' = marked \o more
  OBVIOUS
<1> HIDE DEF mark, marked
<1>4. marked \in Seq(SymbolRecords) /\ Len(marked) = Len(symbols)
  BY <1>1, <1>2, <1>3
<1>5. /\ symbols' \in Seq(SymbolRecords) /\ Len(symbols') = Len(symbols) + Len(more)
      /\ \A i \in 1 .. Len(symbols) + Len(more) :
           symbols'[i] = IF i <= Len(symbols) THEN marked[i] ELSE more[i - Len(symbols)]
  <2>1. /\ marked \o more \in Seq(SymbolRecords)
        /\ Len(marked \o more) = Len(marked) + Len(more)
        /\ \A i \in 1 .. Len(marked) + Len(more) :
             (marked \o more)[i] = IF i <= Len(marked) THEN marked[i] ELSE more[i - Len(marked)]
    BY <1>4, ConcatProperties, Zenon
  <2>2. QED
    BY <1>3, <1>4, <2>1
<1>6. DOMAIN symbols' = 1 .. Len(symbols) + Len(more)
  BY <1>1, <1>5
<1>7. ASSUME NEW t \in NewSymbols PROVE \E p \in DOMAIN more : t = Len(symbols) + p
  <2>1. t - Len(symbols) \in DOMAIN more /\ t = Len(symbols) + (t - Len(symbols))
    BY <1>1, <1>6 DEF NewSymbols
  <2>2. QED
    BY <2>1
<1>8. ASSUME NEW p \in DOMAIN more
      PROVE  Len(symbols) + p \in NewSymbols /\ symbols'[Len(symbols) + p] = more[p]
  <2> DEFINE t == Len(symbols) + p
  <2>1. t \in 1 .. Len(symbols) + Len(more) /\ ~(t <= Len(symbols)) /\ t - Len(symbols) = p
    BY <1>1
  <2> HIDE DEF t
  <2>2. t \in DOMAIN symbols' /\ t \notin DOMAIN symbols
    BY <1>1, <1>6, <2>1
  <2>3. symbols'[t] = more[p]
    BY <1>5, <2>1
  <2>4. QED
    BY <2>2, <2>3 DEF NewSymbols, t
<1>9. QED
  BY <1>7, <1>8

(* define of a function with nothing wrong: a symbol for each parameter, and a *)
(* table with their names and no other.                                     *)
ParametersIn(names, params) ==
  /\ \A n \in Names :
       names[n] # 0 => \E p \in DOMAIN params : params[p] = n /\ names[n] = Len(symbols) + p
  /\ \A p \in DOMAIN params : params[p] \in Names => names[params[p]] = Len(symbols) + p

DefineMade(decl, key) ==
  /\ SymbolsGrow /\ prog' = prog
  /\ \A t \in NewSymbols : \E p \in DOMAIN decl.params : t = Len(symbols) + p
  /\ \A p \in DOMAIN decl.params :
       /\ Len(symbols) + p \in NewSymbols
       /\ symbols'[Len(symbols) + p].decl = <<key[1], key[2], key[3], p>>
       /\ symbols'[Len(symbols) + p].role = "param" /\ symbols'[Len(symbols) + p].status = "Defined"
  /\ symbols'[SymbolOf(key)].status = "Defined"
  /\ \A t \in DOMAIN symbols : t # SymbolOf(key) => symbols'[t] = symbols[t]
  /\ Fitting(decl.params) = Len(decl.params) /\ (decl.variadic => symbols[SymbolOf(key)].extern = "C")
  /\ DOMAIN tables' = 1 .. Len(tables) + 1
  /\ \A t \in DOMAIN tables : tables'[t] = tables[t]
  /\ tables'[Len(tables) + 1].parent = table
  /\ ParametersIn(tables'[Len(tables) + 1].names, decl.params)
  /\ listTable' = IF decl.kind = "FUNC" THEN [listTable EXCEPT ![decl.body] = Len(tables) + 1] ELSE listTable

(* define does that.                                                         *)
LEMMA DefineMakes ==
  ASSUME Typed, NEW decl \in Statements, IsFuncDecl(decl),
         NEW key \in Nat \X Nat \X Nat \X Nat, SymbolsOf(key) # {},
         DefineFunction(decl, key), error' = "none", prog' = prog
  PROVE  DefineMade(decl, key)
<1> DEFINE s == SymbolOf(key)
           fits == Fitting(decl.params)
           params == decl.params
           alias(p) == IF externKind = "C" THEN decl.params[p] ELSE ""
           more == [p \in 1 .. fits |->
                      Symbol(decl.params[p], <<key[1], key[2], key[3], p>>, "param",
                             externKind, alias(p), "Defined")]
           names == [n \in Names |-> IF \E p \in 1 .. fits : decl.params[p] = n
                                     THEN Len(symbols) + CHOOSE p \in 1 .. fits : decl.params[p] = n
                                     ELSE 0]
           new == [parent |-> table, names |-> names]
<1>1. /\ symbols \in Seq(SymbolRecords) /\ Len(symbols) \in Nat
      /\ tables \in Seq(TableRecords) /\ Len(tables) \in Nat
      /\ table \in Nat /\ externKind \in {"C", "Default"}
  BY DEF Typed
<1>2. s \in DOMAIN symbols
  BY SymbolOfIs
<1>3. decl.params \in Seq(STRING) /\ Len(decl.params) \in Nat /\ DOMAIN decl.params = 1 .. Len(decl.params)
  <2>1. decl.params \in Seq(STRING)
    BY KindFacts
  <2>2. QED
    BY <2>1
<1>4. ~(decl.variadic /\ symbols[s].extern # "C")
  BY DEF DefineFunction
<1>5. fits = Len(decl.params)
  BY <1>4 DEF DefineFunction
<1>6. /\ symbols' = [symbols EXCEPT ![s].status = "Defined"] \o more
      /\ tables' = Append(tables, new)
      /\ listTable' = IF decl.kind = "FUNC" THEN [listTable EXCEPT ![decl.body] = Len(tables) + 1] ELSE listTable
  BY <1>4, <1>5 DEF DefineFunction
<1>7. \A p, q \in DOMAIN decl.params : decl.params[p] = decl.params[q] => p = q
  BY <1>3, <1>5, FittingAll
<1>8. ASSUME NEW p \in 1 .. fits
      PROVE  /\ more[p] \in SymbolRecords /\ more[p].decl = <<key[1], key[2], key[3], p>>
             /\ more[p].role = "param" /\ more[p].status = "Defined"
  <2>1. p \in Nat /\ decl.params[p] \in STRING
    BY <1>3, <1>5
  <2>2. alias(p) \in {""} \cup STRING
    BY <2>1
  <2> DEFINE k == <<key[1], key[2], key[3], p>>
             a == alias(p)
             n == decl.params[p]
  <2>3. more[p] = Symbol(n, k, "param", externKind, a, "Defined")
    OBVIOUS
  <2>4. k \in Nat \X Nat \X Nat \X Nat /\ a \in {""} \cup STRING /\ n \in STRING
    BY <2>1, <2>2
  <2> HIDE DEF alias, more, k, a, n
  <2>5. more[p] \in SymbolRecords
    BY <1>1, <2>3, <2>4, SymbolIsRecord
  <2>6. more[p].decl = k /\ more[p].role = "param" /\ more[p].status = "Defined"
    BY <2>3 DEF Symbol
  <2>7. QED
    BY <2>5, <2>6 DEF k
<1>9. more \in Seq(SymbolRecords) /\ DOMAIN more = 1 .. fits
  <2>1. DOMAIN more = 1 .. fits
    OBVIOUS
  <2>2. more \in [1 .. fits -> SymbolRecords]
    BY <1>8
  <2> HIDE DEF more, fits
  <2>3. QED
    BY <1>3, <1>5, <2>1, <2>2, SeqDef
<1>10. ParametersIn(names, decl.params)
  <2>1. ASSUME NEW n \in Names, NEW p \in 1 .. fits, decl.params[p] = n PROVE names[n] = Len(symbols) + p
    <3> DEFINE c == CHOOSE q \in 1 .. fits : decl.params[q] = n
    <3>1. c \in 1 .. fits /\ decl.params[c] = n
      BY <2>1
    <3>2. names[n] = Len(symbols) + c
      BY <2>1
    <3> HIDE DEF c, names
    <3>3. c = p
      BY <1>3, <1>5, <1>7, <2>1, <3>1
    <3>4. QED
      BY <3>2, <3>3
  <2>2. ASSUME NEW n \in Names, names[n] # 0 PROVE \E p \in 1 .. fits : decl.params[p] = n
    BY <2>2
  <2> HIDE DEF names, fits
  <2>3. QED
    BY <1>3, <1>5, <2>1, <2>2 DEF ParametersIn
<1>11. new.parent = table /\ new.names = names /\ new \in TableRecords
  <2>1. names \in [Names -> Nat]
    <3>1. ASSUME NEW n \in Names PROVE names[n] \in Nat
      <4>1. CASE names[n] # 0
        <5> HIDE DEF names
        <5>1. PICK p \in DOMAIN decl.params : names[n] = Len(symbols) + p
          BY <1>10, <4>1 DEF ParametersIn
        <5>2. QED
          BY <1>1, <1>3, <5>1
      <4>2. QED
        BY <4>1
    <3>2. QED
      BY <3>1
  <2> HIDE DEF names
  <2>2. QED
    BY <1>1, <2>1 DEF TableRecords
<1>12. /\ Fitting(decl.params) = Len(decl.params)
       /\ decl.variadic => symbols[SymbolOf(key)].extern = "C"
  BY <1>4, <1>5
<1> HIDE DEF more, names, new, s, fits
<1>13. /\ SymbolsGrow /\ symbols'[s].status = "Defined"
       /\ \A t \in DOMAIN symbols : t # s => symbols'[t] = symbols[t]
  BY <1>1, <1>2, <1>6, <1>9, MarkedSymbols
<1>14. /\ \A t \in NewSymbols : \E p \in DOMAIN more : t = Len(symbols) + p
       /\ \A p \in DOMAIN more : /\ Len(symbols) + p \in NewSymbols
                                 /\ symbols'[Len(symbols) + p] = more[p]
  BY <1>1, <1>2, <1>6, <1>9, MarkedInOrder
<1>15. /\ DOMAIN tables' = 1 .. Len(tables) + 1
       /\ \A t \in DOMAIN tables : tables'[t] = tables[t]
       /\ tables'[Len(tables) + 1] = new
  BY <1>1, <1>6, <1>11
<1>16. /\ \A t \in NewSymbols : \E p \in DOMAIN decl.params : t = Len(symbols) + p
       /\ \A p \in DOMAIN decl.params :
            /\ Len(symbols) + p \in NewSymbols
            /\ symbols'[Len(symbols) + p].decl = <<key[1], key[2], key[3], p>>
            /\ symbols'[Len(symbols) + p].role = "param" /\ symbols'[Len(symbols) + p].status = "Defined"
  <2>1. DOMAIN more = DOMAIN decl.params /\ 1 .. fits = DOMAIN decl.params
    BY <1>3, <1>5, <1>9
  <2>2. ASSUME NEW p \in DOMAIN decl.params
        PROVE  /\ symbols'[Len(symbols) + p].decl = <<key[1], key[2], key[3], p>>
               /\ symbols'[Len(symbols) + p].role = "param" /\ symbols'[Len(symbols) + p].status = "Defined"
    <3>1. p \in 1 .. fits /\ symbols'[Len(symbols) + p] = more[p]
      BY <1>14, <2>1
    <3>2. QED
      BY <1>8, <3>1
  <2>3. QED
    BY <1>14, <2>1, <2>2, Zenon
<1>17. tables'[Len(tables) + 1].parent = table /\ ParametersIn(tables'[Len(tables) + 1].names, decl.params)
  BY <1>10, <1>11, <1>15, Zenon
<1>18. /\ symbols'[SymbolOf(key)].status = "Defined"
       /\ \A t \in DOMAIN symbols : t # SymbolOf(key) => symbols'[t] = symbols[t]
  BY <1>13 DEF s
<1>19. QED
  BY <1>6, <1>13, <1>15, <1>16, <1>17, <1>12, <1>18, Zenon DEF DefineMade

(* Every list that had a table keeps it; a body is given one.                 *)
LEMMA DefineSearches ==
  ASSUME ScopesInv, Searched, Spelled(prog), frames # <<>>, frames' = frames,
         NEW decl \in Statements, IsFuncDecl(decl), NEW key \in Nat \X Nat \X Nat \X Nat,
         DefineMade(decl, key), key[1] = Frame.list, key[4] = 0,
         key[3] = 0 => key[2] \in DOMAIN prog[Frame.list] /\ decl = prog[Frame.list][key[2]],
         decl.kind = "FUNC" => key[3] = 0 /\ SymbolsOf(key) # {} /\ symbols[SymbolOf(key)].status = "Declared"
  PROVE  Searched'
<1> DEFINE l == Frame.list
           i == key[2]
           params == decl.params
           b == decl.body
           n == Len(tables) + 1
           new(p) == Len(symbols) + p
<1>1. /\ IsProgram(prog) /\ Len(symbols) \in Nat /\ DOMAIN symbols = 1 .. Len(symbols)
      /\ tables \in Seq(TableRecords) /\ Len(tables) \in Nat /\ DOMAIN tables = 1 .. Len(tables)
      /\ table \in 0 .. Len(tables) /\ listTable \in [DOMAIN prog -> 0 .. Len(tables)]
  BY DEF ScopesInv, Typed
<1>2. l \in DOMAIN prog /\ listTable[l] = table /\ listTable[l] # 0
  <2>1. Len(frames) \in DOMAIN frames /\ Frame.list \in DOMAIN prog
    BY FrameFacts DEF ScopesInv
  <2>2. QED
    BY <2>1 DEF ScopesInv, Nested, InnerTable, Frame
<1>3. params \in Seq(STRING) /\ DOMAIN params \subseteq Nat \ {0}
  <2>1. params \in Seq(STRING)
    BY KindFacts
  <2>2. QED
    BY <2>1
<1>4. /\ SymbolsGrow /\ prog' = prog
      /\ \A t \in NewSymbols : \E p \in DOMAIN params : t = new(p)
      /\ \A p \in DOMAIN params : new(p) \in NewSymbols /\ symbols'[new(p)].decl = <<key[1], key[2], key[3], p>>
      /\ DOMAIN tables' = 1 .. n /\ \A t \in DOMAIN tables : tables'[t] = tables[t]
      /\ tables'[n].parent = table /\ ParametersIn(tables'[n].names, params)
      /\ listTable' = IF decl.kind = "FUNC" THEN [listTable EXCEPT ![b] = n] ELSE listTable
  BY DEF DefineMade
<1>5. ASSUME NEW p \in DOMAIN params
      PROVE  LET k == <<key[1], key[2], key[3], p>>
             IN /\ k[1] = l /\ k[2] = i /\ k[3] = key[3] /\ k[4] = p /\ p # 0
                /\ IsParameter(k) => key[3] = 0 /\ decl.kind = "FUNC" /\ decl = prog[l][i]
  BY <1>3 DEF IsParameter
<1>6. ASSUME decl.kind = "FUNC"
      PROVE  /\ i \in DOMAIN prog[l] /\ decl = prog[l][i] /\ b \in DOMAIN prog /\ b # l /\ listTable[b] = 0
             /\ Parameters(prog, b) = {<<l, i, 0, p>> : p \in DOMAIN params}
  <2>1. i \in DOMAIN prog[l] /\ decl = prog[l][i] /\ key[3] = 0
    BY <1>6
  <2>2. b \in DOMAIN prog /\ b > l /\ Parameters(prog, b) = {<<l, i, 0, p>> : p \in DOMAIN params}
    BY <1>1, <1>2, <1>6, <2>1, BodyFacts, HomeIs
  <2>3. key = Key(l, i)
    BY <2>1 DEF Key
  <2>4. listTable[b] = 0
    <3>1. ASSUME NEW s \in SymbolsOf(Key(l, i)) PROVE symbols[s].status # "Defined"
      <4>1. SymbolOf(key) \in DOMAIN symbols /\ symbols[SymbolOf(key)].decl = key
        BY <1>6, SymbolOfIs
      <4>2. s \in DOMAIN symbols /\ symbols[s].decl = key
        BY <2>3, <3>1 DEF SymbolsOf
      <4>3. Plain(key)
        BY <2>1 DEF Plain
      <4>4. s = SymbolOf(key)
        BY <4>1, <4>2, <4>3 DEF ScopesInv, DeclaredOnce
      <4>5. QED
        BY <1>6, <4>4
    <3>2. FunctionDefined(l, i)
      BY <1>2, <1>6, <2>1 DEF ScopesInv, BodiesHaveTables
    <3>3. QED
      BY <2>1, <3>1, <3>2 DEF FunctionDefined
  <2>5. b # l
    BY <1>1, <1>2, <2>2, StatementFacts
  <2>6. QED
    BY <2>1, <2>2, <2>4, <2>5
<1> HIDE DEF l, i, params, b, n, new
<1>7. ASSUME NEW s \in DOMAIN symbols'
      PROVE  \/ s \in DOMAIN symbols /\ symbols'[s].decl = symbols[s].decl
             \/ \E p \in DOMAIN params : s = new(p) /\ symbols'[s].decl = <<key[1], key[2], key[3], p>>
  BY <1>4 DEF NewSymbols, SymbolsGrow
<1>8. FramesLinked' /\ VisitedInOrder'
  <2>1. ASSUME NEW s \in NewSymbols
        PROVE  symbols'[s].decl[1] = Frame.list /\ symbols'[s].decl[4] # 0
    <3>1. PICK p \in DOMAIN params : s = new(p)
      BY <1>4
    <3>2. symbols'[s].decl = <<key[1], key[2], key[3], p>>
      BY <1>4, <3>1
    <3>3. QED
      BY <1>5, <3>2 DEF l
  <2>2. QED
    BY <1>4, <2>1, FramesSearch
<1>9. /\ \A m \in DOMAIN prog : m # b \/ decl.kind # "FUNC" => listTable'[m] = listTable[m]
      /\ decl.kind = "FUNC" => listTable'[b] = n
  BY <1>1, <1>4, <1>6
<1>10. \A m \in DOMAIN prog : listTable[m] # 0 => listTable'[m] = listTable[m]
  BY <1>6, <1>9
<1>11. TablesApart'
  <2>1. \A m \in DOMAIN prog : listTable[m] # n /\ listTable[m] \in Nat
    BY <1>1 DEF n
  <2>2. \A m, o \in DOMAIN prog : listTable'[m] # 0 /\ listTable'[m] = listTable'[o] => m = o
    BY <1>9, <2>1 DEF Searched, TablesApart
  <2>3. ASSUME NEW t \in DOMAIN tables' PROVE tables'[t].parent < t
    <3>1. CASE t \in DOMAIN tables
      BY <1>4, <3>1 DEF Searched, TablesApart
    <3>2. CASE t \notin DOMAIN tables
      <4>1. t = n
        BY <1>1, <1>4, <3>2 DEF n
      <4>2. table < n
        BY <1>1 DEF n
      <4>3. QED
        BY <1>4, <4>1, <4>2
    <3>3. QED
      BY <3>1, <3>2
  <2>4. QED
    BY <1>4, <2>2, <2>3 DEF TablesApart
<1>12. SymbolsPlaced'
  <2>1. ASSUME NEW s \in DOMAIN symbols'
        PROVE  /\ symbols'[s].decl[1] \in DOMAIN prog /\ listTable'[symbols'[s].decl[1]] # 0
               /\ IsParameter(symbols'[s].decl) => listTable'[prog[symbols'[s].decl[1]][symbols'[s].decl[2]].body] # 0
    <3>1. CASE s \in DOMAIN symbols /\ symbols'[s].decl = symbols[s].decl
      <4> DEFINE k == symbols[s].decl
      <4>1. /\ k[1] \in DOMAIN prog /\ listTable[k[1]] # 0
            /\ IsParameter(k) => listTable[prog[k[1]][k[2]].body] # 0
        BY <3>1 DEF Searched, SymbolsPlaced
      <4>2. IsParameter(k) => prog[k[1]][k[2]].body \in DOMAIN prog
        BY <1>1, <4>1, BodyFacts DEF IsParameter
      <4> HIDE DEF k
      <4>3. /\ k[1] \in DOMAIN prog /\ listTable'[k[1]] # 0
            /\ IsParameter(k) => listTable'[prog[k[1]][k[2]].body] # 0
        BY <1>10, <4>1, <4>2
      <4>4. QED
        BY <3>1, <4>3 DEF k
    <3>2. ASSUME NEW p \in DOMAIN params, symbols'[s].decl = <<key[1], key[2], key[3], p>>
          PROVE  /\ symbols'[s].decl[1] \in DOMAIN prog /\ listTable'[symbols'[s].decl[1]] # 0
                 /\ IsParameter(symbols'[s].decl) => listTable'[prog[symbols'[s].decl[1]][symbols'[s].decl[2]].body] # 0
      <4> DEFINE k == <<key[1], key[2], key[3], p>>
      <4>1. k[1] = l /\ k[2] = i /\ (IsParameter(k) => decl.kind = "FUNC" /\ decl = prog[l][i])
        BY <1>5
      <4>2. symbols'[s].decl = k
        BY <3>2
      <4> HIDE DEF k
      <4>3. listTable'[l] # 0
        BY <1>2, <1>10
      <4>4. IsParameter(k) => listTable'[prog[l][i].body] # 0
        <5>1. n # 0
          BY <1>1 DEF n
        <5>2. QED
          BY <1>9, <4>1, <5>1 DEF b
      <4>5. QED
        BY <1>2, <4>1, <4>2, <4>3, <4>4
    <3>3. QED
      BY <1>7, <3>1, <3>2
  <2>2. QED
    BY <1>4, <2>1 DEF SymbolsPlaced, IsParameter
<1>13. \A k : SymbolsOf(k) # {} => SymbolsOf(k)' # {}
  BY <1>4 DEF SymbolsOf, SymbolsGrow
<1>14. ASSUME NEW m \in DOMAIN prog, listTable[m] # 0
       PROVE  Sound(m)' /\ Complete(m)' /\ ParametersMade(m)'
  <2> DEFINE t == listTable[m]
  <2>1. Sound(m) /\ Complete(m) /\ ParametersMade(m)
    BY <1>14 DEF Searched, TablesHold
  <2>2. Belonging(m)' = Belonging(m)
    BY <1>4, SameBelonging
  <2>3. t \in DOMAIN tables /\ listTable'[m] = t /\ tables'[t] = tables[t]
    <3>1. t \in DOMAIN tables
      BY <1>1, <1>14
    <3>2. QED
      BY <1>4, <1>10, <1>14, <3>1
  <2>4. Sound(m)'
    <3>1. ASSUME NEW w \in Names, tables[t].names[w] # 0
          PROVE  /\ tables[t].names[w] \in DOMAIN symbols'
                 /\ symbols'[tables[t].names[w]].decl \in Belonging(m)
                 /\ NameOf(prog, symbols'[tables[t].names[w]].decl) = w
      BY <1>4, <2>1, <3>1 DEF Sound, SymbolsGrow
    <3> HIDE DEF t
    <3>2. QED
      BY <1>4, <2>2, <2>3, <3>1 DEF Sound
  <2>5. Complete(m)'
    <3>1. ASSUME NEW s \in DOMAIN symbols', symbols'[s].decl \in Belonging(m)
          PROVE  tables[t].names[NameOf(prog, symbols'[s].decl)] = s
      <4>1. CASE s \in DOMAIN symbols /\ symbols'[s].decl = symbols[s].decl
        BY <2>1, <3>1, <4>1 DEF Complete
      <4>2. ASSUME NEW p \in DOMAIN params, symbols'[s].decl = <<key[1], key[2], key[3], p>> PROVE FALSE
        <5> DEFINE k == <<key[1], key[2], key[3], p>>
        <5>1. k[1] = l /\ k[2] = i /\ k[4] # 0 /\ (IsParameter(k) => decl.kind = "FUNC" /\ decl = prog[l][i])
          BY <1>5
        <5>2. k \in Belonging(m)
          BY <3>1, <4>2
        <5> HIDE DEF k
        <5>3. IsParameter(k) /\ prog[k[1]][k[2]].body = m
          BY <1>1, <5>1, <5>2, BelongingFacts
        <5>4. decl.kind = "FUNC" /\ b = m
          BY <5>1, <5>3 DEF b
        <5>5. QED
          BY <1>6, <1>14, <5>4
      <4>3. QED
        BY <1>7, <4>1, <4>2
    <3> HIDE DEF t
    <3>2. QED
      BY <1>4, <2>2, <2>3, <3>1 DEF Complete
  <2>6. ParametersMade(m)'
    BY <1>4, <1>13, <2>1 DEF ParametersMade
  <2>7. QED
    BY <2>4, <2>5, <2>6
<1>15. ASSUME decl.kind = "FUNC" PROVE Sound(b)' /\ Complete(b)' /\ ParametersMade(b)'
  <2>1. /\ b \in DOMAIN prog /\ listTable'[b] = n /\ decl = prog[l][i] /\ listTable[b] = 0 /\ key[3] = 0
        /\ Parameters(prog, b) = {<<l, i, 0, p>> : p \in DOMAIN params}
        /\ Belonging(b)' = Belonging(b)
    BY <1>4, <1>6, <1>9, <1>15, SameBelonging
  <2>2. ASSUME NEW p \in DOMAIN params
        PROVE  LET k == <<key[1], key[2], key[3], p>>
               IN k \in Belonging(b) /\ k \in Parameters(prog, b) /\ NameOf(prog, k) = params[p]
    <3> DEFINE k == <<key[1], key[2], key[3], p>>
    <3>1. k = <<l, i, 0, p>>
      BY <2>1 DEF l, i
    <3>2. k \in Parameters(prog, b)
      BY <2>1, <3>1
    <3>3. k \in Belonging(b)
      BY <3>2 DEF Belonging, Owned
    <3>4. k[1] = l /\ k[2] = i /\ k[3] = 0 /\ k[4] = p /\ p # 0
      BY <1>5, <2>1
    <3> HIDE DEF k
    <3>5. NameOf(prog, k) = params[p]
      BY <2>1, <3>4 DEF NameOf, DeclOf, params
    <3>6. QED
      BY <3>2, <3>3, <3>5 DEF k
  <2>3. Sound(b)'
    <3>1. ASSUME NEW w \in Names, tables'[n].names[w] # 0
          PROVE  /\ tables'[n].names[w] \in DOMAIN symbols'
                 /\ symbols'[tables'[n].names[w]].decl \in Belonging(b)
                 /\ NameOf(prog, symbols'[tables'[n].names[w]].decl) = w
      <4>1. PICK p \in DOMAIN params : params[p] = w /\ tables'[n].names[w] = new(p)
        BY <1>4, <3>1 DEF ParametersIn, new
      <4>2. new(p) \in DOMAIN symbols' /\ symbols'[new(p)].decl = <<key[1], key[2], key[3], p>>
        BY <1>4 DEF NewSymbols
      <4>3. QED
        BY <2>2, <4>1, <4>2
    <3>2. QED
      BY <1>4, <2>1, <3>1 DEF Sound
  <2>4. Complete(b)'
    <3>1. ASSUME NEW s \in DOMAIN symbols', symbols'[s].decl \in Belonging(b)
          PROVE  tables'[n].names[NameOf(prog, symbols'[s].decl)] = s
      <4>1. CASE s \in DOMAIN symbols /\ symbols'[s].decl = symbols[s].decl
        <5> DEFINE k == symbols[s].decl
        <5>1. \/ k[1] = b
              \/ IsParameter(k) /\ prog[k[1]][k[2]].body = b
          BY <1>1, <2>1, <3>1, <4>1, BelongingFacts
        <5>2. /\ listTable[k[1]] # 0
              /\ IsParameter(k) => listTable[prog[k[1]][k[2]].body] # 0
          BY <4>1 DEF Searched, SymbolsPlaced
        <5> HIDE DEF k
        <5>3. QED
          BY <2>1, <5>1, <5>2
      <4>2. ASSUME NEW p \in DOMAIN params, s = new(p), symbols'[s].decl = <<key[1], key[2], key[3], p>>
            PROVE  tables'[n].names[NameOf(prog, symbols'[s].decl)] = s
        <5>1. NameOf(prog, symbols'[s].decl) = params[p]
          BY <2>2, <4>2
        <5>2. params[p] \in Names
          BY <1>1, <2>1, <3>1, <5>1, SpelledNames
        <5>3. tables'[n].names[params[p]] = new(p)
          BY <1>4, <5>2 DEF ParametersIn, new
        <5>4. QED
          BY <4>2, <5>1, <5>3
      <4>3. QED
        BY <1>7, <4>1, <4>2
    <3>2. QED
      BY <1>4, <2>1, <3>1 DEF Complete
  <2>5. ParametersMade(b)'
    <3>1. ASSUME NEW k \in Parameters(prog, b) PROVE SymbolsOf(k)' # {}
      <4>1. PICK p \in DOMAIN params : k = <<l, i, 0, p>>
        BY <2>1
      <4>2. new(p) \in DOMAIN symbols' /\ symbols'[new(p)].decl = <<key[1], key[2], key[3], p>>
        BY <1>4 DEF NewSymbols
      <4>3. k = <<key[1], key[2], key[3], p>>
        BY <2>1, <4>1 DEF l, i
      <4>4. QED
        BY <4>2, <4>3 DEF SymbolsOf
    <3>2. QED
      BY <1>4, <3>1 DEF ParametersMade
  <2>6. QED
    BY <2>3, <2>4, <2>5
<1>16. TablesHold'
  <2>1. ASSUME NEW m \in DOMAIN prog, listTable'[m] # 0
        PROVE  Sound(m)' /\ Complete(m)' /\ ParametersMade(m)'
    <3>1. CASE listTable[m] # 0
      BY <1>14, <3>1
    <3>2. CASE listTable[m] = 0
      <4>1. m = b /\ decl.kind = "FUNC"
        BY <1>9, <2>1, <3>2
      <4>2. QED
        BY <1>15, <4>1
    <3>3. QED
      BY <3>1, <3>2
  <2>2. QED
    BY <1>4, <2>1 DEF TablesHold
<1>17. QED
  BY <1>8, <1>11, <1>12, <1>16 DEF Searched

(* A function of the list.                                                   *)
LEMMA DefineNextSearches ==
  ASSUME ScopesInv, Searched, Spelled(prog), DefineNext
  PROVE  SymbolsGrow /\ (error' = "none" => Searched')
<1> DEFINE i == First(Undefined)
           decl == prog[Frame.list][i]
           key == <<Frame.list, i, 0, 0>>
<1>1. /\ Going /\ Undeclared = {} /\ Undefined # {} /\ DefineFunction(decl, key)
      /\ UNCHANGED <<prog, frames>>
  BY DEF DefineNext
<1>2. /\ frames # <<>> /\ Frame.list \in DOMAIN prog
      /\ DOMAIN prog[Frame.list] \subseteq Nat /\ DOMAIN prog \subseteq Nat
  BY <1>1, WaitingFacts
<1>3. /\ i \in DOMAIN prog[Frame.list] /\ IsFuncDecl(decl)
      /\ symbols[SymbolOf(key)].status = "Declared"
  <2>1. Undefined \subseteq Nat
    BY <1>2 DEF Undefined
  <2>2. i \in Undefined
    BY <1>1, <2>1, FirstIsOne
  <2>3. QED
    BY <2>2 DEF Undefined
<1>4. decl \in Statements /\ Typed
  <2>1. IsProgram(prog)
    BY DEF ScopesInv, Typed
  <2>2. QED
    BY <1>2, <1>3, <2>1, StatementFacts DEF ScopesInv
<1>5. SymbolsOf(key) # {}
  BY <1>1, <1>3 DEF Undeclared, IsDecl, IsFuncDecl
<1>6. /\ key \in Nat \X Nat \X Nat \X Nat /\ key[1] = Frame.list /\ key[2] = i /\ key[3] = 0 /\ key[4] = 0
      /\ decl = prog[Frame.list][i]
  BY <1>2, <1>3
<1> HIDE DEF decl, key, i
<1>7. SymbolsGrow
  BY <1>1, <1>3, <1>4, <1>5, <1>6, DefineDoes DEF DefineEffect
<1>8. ASSUME error' = "none" PROVE Searched'
  <2>1. DefineMade(decl, key)
    BY <1>1, <1>3, <1>4, <1>5, <1>6, <1>8, DefineMakes
  <2>2. key[2] \in DOMAIN prog[Frame.list] /\ decl = prog[Frame.list][key[2]]
    BY <1>3, <1>6
  <2>3. QED
    BY <1>1, <1>2, <1>3, <1>4, <1>5, <1>6, <2>1, <2>2, DefineSearches
<1>9. QED
  BY <1>7, <1>8

(* A function of an EXTERN block.                                            *)
LEMMA DefineExternSearches ==
  ASSUME ScopesInv, Searched, Spelled(prog), DefineExtern
  PROVE  SymbolsGrow /\ (error' = "none" => Searched')
<1> DEFINE k == node - Len(Stmt.decls) - 1
           decl == Stmt.decls[k]
           key == DeclHere(k)
<1>1. /\ Visiting({"EXTERN"}) /\ node \in Len(Stmt.decls) + 2 .. 2 * Len(Stmt.decls) + 1
      /\ DefineFunction(decl, key) /\ UNCHANGED <<prog, frames>>
  BY DEF DefineExtern
<1>2. /\ frames # <<>> /\ Stmt.kind = "EXTERN" /\ StageIs(externKind, node) /\ AtStatement
      /\ Frame.list \in DOMAIN prog /\ Frame.at \in DOMAIN prog[Frame.list]
      /\ Stmt.decls \in Seq(Prototypes) /\ Len(Stmt.decls) \in Nat
      /\ DOMAIN Stmt.decls = 1 .. Len(Stmt.decls) /\ node \in Nat
  BY <1>1, VisitFacts
<1>3. k \in DOMAIN Stmt.decls /\ k < node /\ k # 0 /\ k \in Nat
  BY <1>1, <1>2
<1>4. decl \in Statements /\ decl.kind = "DECLARE" /\ IsFuncDecl(decl) /\ Typed
  BY <1>2, <1>3, PrototypeFacts DEF ScopesInv
<1>5. key \in Nat \X Nat \X Nat \X Nat /\ key[1] = Frame.list /\ key[3] = k /\ key[4] = 0
  <2>1. IsProgram(prog)
    BY DEF ScopesInv, Typed
  <2>2. Frame.list \in Nat /\ Frame.at \in Nat
    BY <1>2, <2>1, StatementFacts
  <2> HIDE DEF k
  <2>3. QED
    BY <1>3, <2>2 DEF DeclHere
<1>6. SymbolsOf(key) # {}
  BY <1>2, <1>3 DEF StageIs
<1> HIDE DEF decl, key, k
<1>7. SymbolsGrow
  BY <1>1, <1>4, <1>5, <1>6, DefineDoes DEF DefineEffect
<1>8. ASSUME error' = "none" PROVE Searched'
  <2>1. DefineMade(decl, key)
    BY <1>1, <1>4, <1>5, <1>6, <1>8, DefineMakes
  <2>2. QED
    BY <1>1, <1>2, <1>3, <1>4, <1>5, <2>1, DefineSearches
<1>9. QED
  BY <1>7, <1>8

-----------------------------------------------------------------------------
(* The module's list, the statements that declare nothing, the nodes.         *)

(* The module's list is entered with nothing declared.                        *)
LEMMA AnalyseSearches ==
  ASSUME ScopesInv, Searched, Analyse
  PROVE  Searched'
<1> DEFINE new == NewTable(table)
           frame == [list |-> 1, at |-> 1, table |-> table, returns |-> returnType]
<1>1. /\ tables = <<>> /\ tables' = <<new>> /\ frames' = <<frame>>
      /\ listTable' = [listTable EXCEPT ![1] = 1] /\ UNCHANGED <<prog, symbols>>
  BY DEF Analyse
<1>2. table = 0
  <2>1. frames = <<>>
    BY <1>1 DEF ScopesInv, Typed
  <2>2. QED
    BY <2>1 DEF ScopesInv, Nested
<1>3. new.parent = 0 /\ \A n \in Names : new.names[n] = 0
  BY <1>2 DEF NewTable
<1>4. frame.list = 1 /\ frame.at = 1
  OBVIOUS
<1> HIDE DEF new, frame
<1>5. /\ DOMAIN tables' = {1} /\ tables'[1] = new
      /\ DOMAIN frames' = {1} /\ frames'[1] = frame /\ Len(frames') = 1
  BY <1>1
<1>6. DOMAIN prog = 1 .. Len(prog) /\ Len(prog) \in Nat \ {0} /\ prog \in Seq(Seq(Statements))
  <2>1. prog \in Seq(Seq(Statements)) /\ prog # <<>>
    BY DEF ScopesInv, Typed, IsProgram
  <2>2. QED
    BY <2>1
<1>7. listTable \in [DOMAIN prog -> {0}]
  BY <1>1 DEF ScopesInv, Typed
<1>8. listTable'[1] = 1 /\ \A l \in DOMAIN prog : l # 1 => listTable'[l] = 0
  BY <1>1, <1>6, <1>7
<1>9. DOMAIN symbols = {}
  BY <1>7 DEF Searched, SymbolsPlaced
<1>10. TablesHold'
  <2>1. Sound(1)' /\ Complete(1)'
    BY <1>1, <1>3, <1>5, <1>8, <1>9 DEF Sound, Complete
  <2>2. ParametersMade(1)'
    BY DEF ParametersMade, Parameters
  <2>3. QED
    BY <1>1, <1>8, <2>1, <2>2 DEF TablesHold
<1>11. TablesApart'
  <2>1. \A l, m \in DOMAIN prog : listTable'[l] # 0 /\ listTable'[l] = listTable'[m] => l = m
    BY <1>8
  <2>2. QED
    BY <1>1, <1>3, <1>5, <2>1 DEF TablesApart
<1>12. SymbolsPlaced'
  BY <1>1, <1>9 DEF SymbolsPlaced
<1>13. FramesLinked'
  BY <1>4, <1>5 DEF FramesLinked
<1>14. VisitedInOrder'
  <2>1. LinkedBefore(1)'
    <3>1. \A i \in DOMAIN prog[1] : ~(i < 1)
      <4>1. prog[1] \in Seq(Statements)
        BY <1>6
      <4>2. QED
        BY <4>1
    <3>2. QED
      BY <1>1, <1>4, <1>5, <3>1 DEF LinkedBefore
  <2>2. NotLinkedAfter(1)' /\ EnteredInOrder(1)'
    BY <1>1, <1>9 DEF NotLinkedAfter, EnteredInOrder
  <2>3. QED
    BY <1>5, <2>1, <2>2 DEF VisitedInOrder
<1>15. QED
  BY <1>10, <1>11, <1>12, <1>13, <1>14 DEF Searched

(* Where the frames stand after a statement.                                  *)
LEMMA FinishAdvances ==
  ASSUME Typed, frames # <<>>, Finish, LinkedHere
  PROVE  Advances
<1>1. /\ Len(frames') = Len(frames) /\ DOMAIN frames' = DOMAIN frames /\ frames' # <<>>
      /\ \A f \in DOMAIN frames : frames'[f].list = frames[f].list
  BY FinishFacts
<1>2. /\ Len(frames) \in DOMAIN frames /\ frames \in Seq(FrameRecords) /\ frames[Len(frames)] \in FrameRecords
  BY FrameFacts DEF Typed
<1> DEFINE n == Len(frames)
           next == [frames[n] EXCEPT !.at = @ + 1]
<1>3. next.at = frames[n].at + 1
  BY <1>2 DEF FrameRecords
<1>4. frames' = [frames EXCEPT ![n] = next]
  BY DEF Finish
<1> HIDE DEF next
<1>5. \A f \in DOMAIN frames : f # n => frames'[f].at = frames[f].at
  BY <1>4
<1>6. frames'[n] = next
  BY <1>2, <1>4
<1>7. Frame'.at = Frame.at + 1
  BY <1>1, <1>3, <1>6 DEF Frame
<1>8. QED
  BY <1>1, <1>5, <1>7 DEF Advances

(* What stays where it is.                                                   *)
LEMMA StillAdvances ==
  ASSUME frames # <<>>, frames' = frames
  PROVE  Advances
BY DEF Advances, Frame

(* A DIM's symbol takes another status.                                      *)
LEMMA MarkSearches ==
  ASSUME ScopesInv, Searched, Visiting({"DIM"}), NEW status \in {"Declared", "BeingDefined", "Defined"},
         symbols' = [symbols EXCEPT ![SymbolOf(DeclHere(0))].status = status],
         UNCHANGED <<prog, tables, listTable>>, Advances
  PROVE  Searched' /\ SymbolsGrow
<1> DEFINE s == SymbolOf(DeclHere(0))
<1>1. /\ frames # <<>> /\ Undeclared = {} /\ Stmt = prog[Frame.list][Frame.at] /\ Stmt.kind = "DIM"
      /\ Frame.at \in DOMAIN prog[Frame.list]
  BY VisitFacts
<1>2. SymbolsOf(DeclHere(0)) # {}
  BY <1>1 DEF Undeclared, DeclHere, IsDecl
<1>3. s \in DOMAIN symbols
  BY <1>2, SymbolOfIs
<1>4. symbols \in Seq(SymbolRecords) /\ symbols' = [symbols EXCEPT ![s].status = status]
  BY DEF ScopesInv, Typed
<1> HIDE DEF s
<1>5. SymbolsGrow /\ NewSymbols = {}
  BY <1>3, <1>4, MarkedSymbol
<1>6. SameDecls
  BY <1>5 DEF SameDecls, SymbolsGrow, NewSymbols
<1>7. QED
  BY <1>5, <1>6, AdvanceKeeps

(* An EXTERN block is left with all its declarations made.                    *)
LEMMA LinkedAtEnd ==
  ASSUME ScopesInv, EndExtern
  PROVE  LinkedHere
<1>1. Visiting({"EXTERN"}) /\ node = 2 * Len(Stmt.decls) + 2
  BY DEF EndExtern
<1>2. /\ StageIs(externKind, node) /\ AtStatement /\ Stmt.kind = "EXTERN"
      /\ Len(Stmt.decls) \in Nat /\ DOMAIN Stmt.decls = 1 .. Len(Stmt.decls)
  BY <1>1, VisitFacts
<1>3. \A k \in DOMAIN Stmt.decls : k < node
  BY <1>1, <1>2
<1>4. QED
  BY <1>2, <1>3 DEF StageIs, LinkedHere

(* A step that looks nothing up.                                             *)
LEMMA Unresolving ==
  ASSUME ResolutionInv, SymbolsGrow, UNCHANGED <<prog, resolved>>, error' = "none" => Searched'
  PROVE  ResolutionInv'
<1>1. \A use \in resolved : use.symbol \in DOMAIN symbols' /\ symbols'[use.symbol].decl = symbols[use.symbol].decl
  BY DEF ResolutionInv, SymbolsGrow
<1>2. ResolvesInnermost'
  BY <1>1 DEF ResolutionInv, ResolvesInnermost
<1>3. QED
  BY <1>1, <1>2 DEF ResolutionInv

(* A step that marks nothing and declares nothing.                            *)
LEMMA QuietSearches ==
  ASSUME ScopesInv, Searched, Advances, UNCHANGED <<prog, symbols, tables, listTable>>
  PROVE  Searched'
<1>1. SameDecls
  BY DEF SameDecls
<1>2. QED
  BY <1>1, AdvanceKeeps

(* What find gives a variable is a symbol, that of the declaration its name     *)
(* means.                                                                   *)
LEMMA FoundIsMeant ==
  ASSUME ScopesInv, ResolutionInv, Visiting({"DIM", "EXPR", "ASSIGN", "RETURN"}), NEW n \in Names,
         Find(table, n) # 0
  PROVE  Find(table, n) \in DOMAIN symbols /\ Meaning(prog, Here, n) = {symbols[Find(table, n)].decl}
<1> DEFINE f == Len(frames)
<1>1. /\ frames # <<>> /\ error = "none" /\ Undeclared = {} /\ Stmt.kind # "EXTERN"
      /\ Frame.at \in DOMAIN prog[Frame.list] /\ Frame.list \in DOMAIN prog
  BY VisitFacts
<1>2. Searched
  BY <1>1 DEF ResolutionInv
<1>3. f \in DOMAIN frames /\ Frame = frames[f] /\ TableOf(f) = table /\ PlaceOf(f) = Here
  <2>1. f \in DOMAIN frames /\ Frame = frames[f]
    BY <1>1, FrameFacts DEF ScopesInv, Frame
  <2>2. TableOf(f) = table
    BY <2>1 DEF ScopesInv, Nested, InnerTable, TableOf
  <2>3. QED
    BY <2>1, <2>2 DEF PlaceOf, Here
<1>4. AllDeclared(f)
  BY <1>1, <1>3 DEF AllDeclared, Undeclared, Key
<1> HIDE DEF f
<1>5. /\ Meaning(prog, Here, n) = IF Find(table, n) = 0 THEN {} ELSE {symbols[Find(table, n)].decl}
      /\ Find(table, n) # 0 => Find(table, n) \in DOMAIN symbols
  BY <1>1, <1>2, <1>3, <1>4, MeaningIsFound DEF f
<1>6. QED
  BY <1>5

(* A node of an expression: a variable gets the symbol find gives.             *)
LEMMA VisitNodeResolves == ScopesInv /\ ResolutionInv /\ VisitNode => ResolutionInv'
<1> SUFFICES ASSUME ScopesInv, ResolutionInv, VisitNode PROVE ResolutionInv'
  OBVIOUS
<1> DEFINE e == Stmt.expr[node + 1]
           n == e.name
           use == [at |-> Here, node |-> node + 1, symbol |-> Find(table, n)]
<1>1. Visiting({"DIM", "EXPR", "ASSIGN", "RETURN"}) /\ node < Len(Stmt.expr)
  BY DEF VisitNode
<1>2. /\ frames # <<>> /\ error = "none" /\ node \in Nat /\ Stmt \in Statements
      /\ Stmt.kind \in {"DIM", "EXPR", "ASSIGN", "RETURN"} /\ Stmt = prog[Frame.list][Frame.at]
      /\ Frame.list \in DOMAIN prog /\ Frame.at \in DOMAIN prog[Frame.list]
  BY <1>1, VisitFacts
<1>3. symbols \in Seq(SymbolRecords)
  BY DEF ScopesInv, Typed
<1>4. CASE NodeRefused(e) # "none"
  <2>1. error' # "none" /\ UNCHANGED <<prog, symbols, resolved>>
    BY <1>4 DEF VisitNode, Refuse
  <2>2. SymbolsGrow
    BY <1>3, <2>1 DEF SymbolsGrow
  <2>3. QED
    BY <2>1, <2>2, Unresolving
<1>5. CASE NodeRefused(e) = "none"
  <2>1. /\ resolved' = IF e.op = "var" THEN resolved \cup {use} ELSE resolved
        /\ UNCHANGED <<prog, symbols, tables, listTable, frames, error>>
    BY <1>5 DEF VisitNode
  <2>2. Searched'
    BY <1>2, <2>1, StillAdvances, QuietSearches DEF ResolutionInv
  <2>3. CASE e.op # "var"
    <3>1. SymbolsGrow
      BY <1>3, <2>1 DEF SymbolsGrow
    <3>2. QED
      BY <2>1, <2>2, <2>3, <3>1, Unresolving
  <2>4. CASE e.op = "var"
    <3>1. n \in Names
      <4>1. Stmt.expr \in Exprs
        BY <1>2 DEF Statements, Prototypes
      <4>2. node + 1 \in DOMAIN Stmt.expr
        BY <1>1, <1>2, <4>1 DEF Exprs
      <4>3. QED
        BY <1>2, <2>4, <4>2 DEF ResolutionInv, Spelled, SpelledNode
    <3>2. Find(table, n) # 0
      <4>1. CASE Find(table, e.name) = 0
        <5>1. NodeRefused(e) = "undeclaredIdentifier"
          BY <2>4, <4>1, Zenon DEF NodeRefused
        <5>2. QED
          BY <1>5, <5>1
      <4>2. QED
        BY <4>1
    <3>3. n = prog[Frame.list][Frame.at].expr[node + 1].name
      BY <1>2
    <3>4. use.at = Here /\ use.node = node + 1 /\ use.symbol = Find(table, n)
          /\ Here[1] = Frame.list /\ Here[2] = Frame.at
      BY DEF Here
    <3> HIDE DEF e, n, use
    <3>5. use.symbol \in DOMAIN symbols /\ Meaning(prog, use.at, n) = {symbols[use.symbol].decl}
      BY <1>1, <3>1, <3>2, <3>4, FoundIsMeant
    <3>6. prog[use.at[1]][use.at[2]].expr[use.node].name = n
      BY <3>3, <3>4
    <3>7. resolved' = resolved \cup {use} /\ prog' = prog /\ symbols' = symbols
      BY <2>1, <2>4 DEF e
    <3>8. ResolvesInnermost'
      BY <3>5, <3>6, <3>7 DEF ResolutionInv, ResolvesInnermost
    <3>9. QED
      BY <2>2, <3>5, <3>7, <3>8 DEF ResolutionInv
  <2>5. QED
    BY <2>3, <2>4
<1>6. QED
  BY <1>4, <1>5

(* The end of a statement, none of an EXTERN block.                            *)
LEMMA FinishSearches ==
  ASSUME ScopesInv, Searched, NEW kinds, Visiting(kinds), "EXTERN" \notin kinds, Finish
  PROVE  Advances
<1>1. frames # <<>> /\ Stmt.kind # "EXTERN"
  BY VisitFacts
<1>2. LinkedHere
  BY <1>1 DEF LinkedHere
<1>3. QED
  BY <1>1, <1>2, FinishAdvances DEF ScopesInv

-----------------------------------------------------------------------------
(* The theorems.                                                             *)

(* Every visit but that of a node.                                           *)
LEMMA VisitsSearch ==
  ASSUME ScopesInv, ResolutionInv, SemaNext
  PROVE  VisitNode \/ /\ SymbolsGrow /\ UNCHANGED <<prog, resolved>>
                      /\ error' = "none" => Searched'
<1>1. symbols \in Seq(SymbolRecords) /\ (symbols' = symbols => SymbolsGrow)
  BY DEF ScopesInv, Typed, SymbolsGrow
<1>2. ASSUME NEW kinds, Visiting(kinds) PROVE frames # <<>> /\ error = "none" /\ Searched
  BY <1>2, VisitFacts DEF ResolutionInv
<1>3. ASSUME NEW kinds, Visiting(kinds), "EXTERN" \notin kinds, Finish
      PROVE  Advances
  BY <1>2, <1>3, FinishSearches
<1>4. Spelled(prog)
  BY DEF ResolutionInv
<1>5. CASE Analyse
  <2>1. UNCHANGED <<prog, symbols, resolved, error>>
    BY <1>5 DEF Analyse
  <2>2. QED
    BY <1>1, <1>5, <2>1, AnalyseSearches DEF ResolutionInv
<1>6. CASE DeclareNext
  <2>1. Going /\ resolved' = resolved
    BY <1>6 DEF DeclareNext, Declare, Refuse
  <2>2. Searched
    BY <2>1 DEF ResolutionInv, Going
  <2>3. QED
    BY <1>4, <1>6, <2>1, <2>2, DeclareNextSearches
<1>7. CASE DefineNext
  <2>1. Going /\ UNCHANGED <<prog, resolved>>
    BY <1>7 DEF DefineNext
  <2>2. Searched
    BY <2>1 DEF ResolutionInv, Going
  <2>3. QED
    BY <1>4, <1>7, <2>1, <2>2, DefineNextSearches
<1>8. CASE VisitDeclare
  <2>1. Visiting({"DECLARE"}) /\ Finish /\ UNCHANGED <<prog, symbols, tables, listTable, resolved>>
    BY <1>8 DEF VisitDeclare
  <2>2. QED
    BY <1>1, <1>2, <1>3, <2>1, QuietSearches
<1>9. CASE BeginDim
  <2>1. /\ Visiting({"DIM"}) /\ UNCHANGED <<prog, tables, listTable, frames, resolved>>
        /\ symbols' = [symbols EXCEPT ![SymbolOf(DeclHere(0))].status = "BeingDefined"]
    BY <1>9 DEF BeginDim
  <2>2. QED
    BY <1>2, <2>1, StillAdvances, MarkSearches
<1>10. CASE EndDim
  <2>1. /\ Visiting({"DIM"}) /\ Finish /\ UNCHANGED <<prog, tables, listTable, resolved>>
        /\ symbols' = [symbols EXCEPT ![SymbolOf(DeclHere(0))].status = "Defined"]
    BY <1>10 DEF EndDim
  <2>2. QED
    BY <1>2, <1>3, <2>1, MarkSearches
<1>11. CASE RefuseReturn
  <2>1. error' # "none" /\ UNCHANGED <<prog, symbols, resolved>>
    BY <1>11 DEF RefuseReturn, Refuse
  <2>2. QED
    BY <1>1, <2>1
<1>12. CASE EndStatement
  <2>1. /\ Visiting({"EXPR", "ASSIGN", "RETURN"}) /\ Finish
        /\ UNCHANGED <<prog, symbols, tables, listTable, resolved>>
    BY <1>12 DEF EndStatement
  <2>2. QED
    BY <1>1, <1>2, <1>3, <2>1, QuietSearches
<1>13. CASE VisitFunction
  <2>1. Visiting({"FUNC"}) /\ UNCHANGED <<prog, symbols, resolved>>
    BY <1>13 DEF VisitFunction
  <2>2. QED
    BY <1>1, <1>2, <1>13, <2>1, EnterSearches
<1>14. CASE BeginExtern \/ EndLinkage
  <2>1. Visiting({"EXTERN"}) /\ UNCHANGED <<prog, symbols, tables, listTable, frames, resolved>>
    BY <1>14 DEF BeginExtern, EndLinkage
  <2>2. QED
    BY <1>1, <1>2, <2>1, StillAdvances, QuietSearches
<1>15. CASE DeclareExtern
  <2>1. Visiting({"EXTERN"}) /\ resolved' = resolved
    BY <1>15 DEF DeclareExtern, Declare, Refuse
  <2>2. QED
    BY <1>2, <1>4, <1>15, <2>1, DeclareExternSearches
<1>16. CASE DefineExtern
  <2>1. Visiting({"EXTERN"}) /\ UNCHANGED <<prog, resolved>>
    BY <1>16 DEF DefineExtern
  <2>2. QED
    BY <1>2, <1>4, <1>16, <2>1, DefineExternSearches
<1>17. CASE EndExtern
  <2>1. Visiting({"EXTERN"}) /\ Finish /\ UNCHANGED <<prog, symbols, tables, listTable, resolved>>
    BY <1>17 DEF EndExtern
  <2>2. Advances
    BY <1>2, <1>17, <2>1, LinkedAtEnd, FinishAdvances DEF ScopesInv
  <2>3. QED
    BY <1>1, <1>2, <2>1, <2>2, QuietSearches
<1>18. CASE EndList
  <2>1. Going /\ Restored /\ UNCHANGED <<prog, symbols, tables, listTable, resolved>>
    BY <1>18 DEF EndList
  <2>2. Searched /\ frames # <<>>
    BY <2>1 DEF ResolutionInv, Going
  <2>3. QED
    BY <1>1, <2>1, <2>2, RestoredSearches
<1>19. CASE Unwind
  <2>1. error' # "none" /\ UNCHANGED <<prog, symbols, resolved>>
    BY <1>19 DEF Unwind
  <2>2. QED
    BY <1>1, <2>1
<1>20. QED
  BY <1>5, <1>6, <1>7, <1>8, <1>9, <1>10, <1>11, <1>12, <1>13, <1>14, <1>15, <1>16, <1>17, <1>18,
     <1>19 DEF SemaNext

(* Before the analysis nothing is declared, entered or resolved.               *)
LEMMA InitResolution == Init => ResolutionInv
<1> SUFFICES ASSUME Init PROVE ResolutionInv
  OBVIOUS
<1>1. Spelled(prog)
  BY ScopesAssumption DEF Init
<1>2. /\ symbols = <<>> /\ tables = <<>> /\ listTable = [l \in DOMAIN prog |-> 0]
      /\ frames = <<>> /\ resolved = {}
  BY DEF Init
<1>3. DOMAIN symbols = {} /\ DOMAIN tables = {} /\ DOMAIN frames = {}
  BY <1>2
<1>4. Searched
  BY <1>2, <1>3 DEF Searched, TablesHold, TablesApart, SymbolsPlaced, FramesLinked, VisitedInOrder
<1>5. ResolvesInnermost
  BY <1>2 DEF ResolvesInnermost
<1>6. QED
  BY <1>1, <1>2, <1>4, <1>5 DEF ResolutionInv

(* What none of the analyser's variables notices.                             *)
LEMMA ElsewhereResolves == ResolutionInv /\ UNCHANGED semaVars => ResolutionInv'
<1> SUFFICES ASSUME ResolutionInv, UNCHANGED semaVars PROVE ResolutionInv'
  OBVIOUS
<1>1. UNCHANGED <<prog, symbols, tables, listTable, frames, resolved, error>>
  BY DEF semaVars
<1>2. ASSUME Searched PROVE Searched'
  <2>1. SameDecls
    BY <1>1 DEF SameDecls
  <2>2. TablesHold' /\ TablesApart' /\ SymbolsPlaced'
    BY <1>1, <1>2, <2>1, TablesStay DEF Searched
  <2>3. \A key : SymbolsOf(key)' = SymbolsOf(key)
    BY <2>1, SameSymbolsOf
  <2>4. FramesLinked'
    BY <1>1, <1>2, <2>3 DEF Searched, FramesLinked, StandsAt, AllDeclared, Key
  <2>5. VisitedInOrder'
    <3>1. ASSUME NEW f \in DOMAIN frames PROVE LinkedBefore(f)' /\ NotLinkedAfter(f)' /\ EnteredInOrder(f)'
      <4>1. LinkedBefore(f) /\ NotLinkedAfter(f) /\ EnteredInOrder(f)
        BY <1>2 DEF Searched, VisitedInOrder
      <4>2. LinkedBefore(f)'
        BY <1>1, <2>3, <4>1 DEF LinkedBefore
      <4>3. NotLinkedAfter(f)' /\ EnteredInOrder(f)'
        BY <1>1, <4>1 DEF NotLinkedAfter, EnteredInOrder
      <4>4. QED
        BY <4>2, <4>3
    <3>2. QED
      BY <1>1, <3>1 DEF VisitedInOrder
  <2>6. QED
    BY <2>2, <2>4, <2>5 DEF Searched
<1>3. ResolvesInnermost'
  BY <1>1 DEF ResolutionInv, ResolvesInnermost
<1>4. QED
  BY <1>1, <1>2, <1>3 DEF ResolutionInv

(* The invariant of the search, of every compilation.                         *)
THEOREM ResolutionInvHolds == CompileSpec => []ResolutionInv
<1>1. CompileInit => ResolutionInv
  BY InitResolution DEF CompileInit
<1>2. ScopesInv /\ ResolutionInv /\ [CompileNext]_vars => ResolutionInv'
  <2>1. CompileNext => SemaNext \/ UNCHANGED semaVars
    <3>1. Finished => UNCHANGED semaVars
      BY DEF Finished, vars
    <3>2. QED
      BY <3>1, GenerateElsewhere DEF CompileNext
  <2>2. UNCHANGED vars => UNCHANGED semaVars
    BY DEF vars
  <2>3. ScopesInv /\ ResolutionInv /\ SemaNext => ResolutionInv'
    BY VisitNodeResolves, VisitsSearch, Unresolving
  <2>4. QED
    BY <2>1, <2>2, <2>3, ElsewhereResolves
<1>3. QED
  BY <1>1, <1>2, ScopesInvHolds, PTL DEF CompileSpec

(* The symbol an AstVarExpr is given is that of the declaration its name means  *)
(* where it stands, innermost first, in whichever order the scopes fill up.  *)
THEOREM ResolvesInnermostHolds == CompileSpec => []ResolvesInnermost
<1>1. ResolutionInv => ResolvesInnermost
  BY DEF ResolutionInv
<1>2. QED
  BY <1>1, ResolutionInvHolds, PTL

-----------------------------------------------------------------------------
(* Which programs are accepted.  WellScoped, place by place: the names of     *)
(* each list are apart, and each of the program's places fits.              *)

NodeFits(p, place, j) ==
  LET e == p[place[1]][place[2]].expr[j]
  IN /\ e.op = "var" => Meaning(p, place, e.name) # {} /\ Usable(p, place, e.name)
     /\ e.op = "call" => \A key \in Meaning(p, place, e.name) : key[4] = 0 /\ IsFuncDecl(DeclOf(p, key))

ReturnFits(p, place) ==
  p[place[1]][place[2]].kind = "RETURN" =>
    place[1] # 1 /\ (FunctionAt(p, place[1]).returns <=> p[place[1]][place[2]].expr # <<>>)

PrototypesFit(stmt) ==
  /\ IsFuncDecl(stmt) => ~stmt.variadic
  /\ stmt.kind = "DECLARE" => Fitting(stmt.params) = Len(stmt.params)
  /\ stmt.kind = "EXTERN" =>
       \A k \in DOMAIN stmt.decls : Fitting(stmt.decls[k].params) = Len(stmt.decls[k].params)

PlaceFits(p, l, i) ==
  /\ \A j \in DOMAIN p[l][i].expr : NodeFits(p, <<l, i>>, j)
  /\ ReturnFits(p, <<l, i>>)
  /\ PrototypesFit(p[l][i])

NamesApart(p) ==
  \A l \in DOMAIN p : \A one, other \in Owned(p, l) \cup Linked(p, l) :
    NameOf(p, one) = NameOf(p, other) => one = other

(* m_returnType is that of the function whose body is visited.              *)
InnerReturns(f) == IF f = Len(frames) THEN returnType ELSE frames[f + 1].returns
ReturnsOf(p, l) == IF l = 1 THEN "none" ELSE IF FunctionAt(p, l).returns THEN "value" ELSE "void"
ReturnTypes == \A f \in DOMAIN frames : InnerReturns(f) = ReturnsOf(prog, frames[f].list)

(* A symbol's declaration stands in the program, and the symbol says what it   *)
(* is; that of a function is defined only if its signature is in order.      *)
KeyStands(p, key) ==
  /\ key[1] \in DOMAIN p /\ key[2] \in DOMAIN p[key[1]]
  /\ key[3] = 0 => IsDecl(p[key[1]][key[2]])
  /\ key[3] # 0 => p[key[1]][key[2]].kind = "EXTERN" /\ key[3] \in DOMAIN p[key[1]][key[2]].decls
RoleOf(p, key) ==
  IF key[4] # 0 THEN "param" ELSE IF IsFuncDecl(DeclOf(p, key)) THEN "function" ELSE "variable"
DefinitionFits(p, key) ==
  /\ Fitting(DeclOf(p, key).params) = Len(DeclOf(p, key).params)
  /\ DeclOf(p, key).variadic => key[3] # 0
SymbolTold(p, symbol) ==
  /\ KeyStands(p, symbol.decl) /\ symbol.role = RoleOf(p, symbol.decl)
  /\ symbol.decl[4] # 0 => symbol.status = "Defined"
  /\ symbol.decl[4] = 0 /\ symbol.status = "Defined" /\ IsFuncDecl(DeclOf(p, symbol.decl)) =>
       DefinitionFits(p, symbol.decl)
SymbolsTold == \A s \in DOMAIN symbols : SymbolTold(prog, symbols[s])

(* How far the visit of a list is tells which of its symbols are defined.     *)
StatusTold(p, frame, symbol, inner) ==
  symbol.decl[1] = frame.list /\ symbol.decl[4] = 0 =>
    /\ DeclOf(p, symbol.decl).kind = "DIM" => (symbol.status = "Defined" <=> symbol.decl[2] < frame.at)
    /\ symbol.decl[3] # 0 /\ symbol.decl[2] < frame.at => symbol.status = "Defined"
    /\ ~inner /\ symbol.decl[3] = 0 /\ IsFuncDecl(DeclOf(p, symbol.decl)) => symbol.status # "Declared"
StatusesTold ==
  \A f \in DOMAIN frames : \A s \in DOMAIN symbols : StatusTold(prog, frames[f], symbols[s], f = Len(frames))

(* And how far the visit of an EXTERN block is, which of its m declarations    *)
(* are made and which are defined.                                          *)
BlockTold(frame, symbol, n, m) ==
  symbol.decl[1] = frame.list /\ symbol.decl[2] = frame.at /\ symbol.decl[4] = 0 =>
    symbol.decl[3] < n /\ (symbol.decl[3] + m + 1 < n => symbol.status = "Defined")
BlockTells ==
  Going /\ AtStatement /\ Stmt.kind = "EXTERN" =>
    \A s \in DOMAIN symbols : BlockTold(Frame, symbols[s], node, Len(Stmt.decls))

(* What has been visited fits: the nodes of the statement at hand, and - done *)
(* being the lists left behind - the places before each frame's.             *)
NodesFit ==
  Going /\ AtStatement => \A j \in 1 .. node : j \in DOMAIN Stmt.expr => NodeFits(prog, Here, j)

HasSymbols(l, i) ==
  /\ IsDecl(prog[l][i]) => SymbolsOf(Key(l, i)) # {}
  /\ prog[l][i].kind = "EXTERN" => \A k \in DOMAIN prog[l][i].decls : SymbolsOf(<<l, i, k, 0>>) # {}
Passed(l, i, done) ==
  PlaceFits(prog, l, i) /\ HasSymbols(l, i) /\ (prog[l][i].kind = "FUNC" => prog[l][i].body \in done)
Left(done) ==
  /\ tables # <<>> /\ frames = <<>> => 1 \in done
  /\ \A f \in DOMAIN frames : \A i \in DOMAIN prog[frames[f].list] :
       i < frames[f].at => Passed(frames[f].list, i, done)
  /\ \A l \in done : listTable[l] # 0 /\ \A i \in DOMAIN prog[l] : Passed(l, i, done)
PlacesPassed == \E done \in SUBSET DOMAIN prog : Left(done)

Accepting == SymbolsTold /\ StatusesTold /\ BlockTells /\ NodesFit /\ PlacesPassed

AcceptanceInv ==
  /\ ReturnTypes
  /\ error = "none" => Accepting
  /\ error # "none" => ~WellScoped(prog)

-----------------------------------------------------------------------------
(* The text.                                                                 *)

(* WellScoped, place by place.                                              *)
LEMMA WellScopedIs ==
  ASSUME NEW p
  PROVE  WellScoped(p) <=> NamesApart(p) /\ \A l \in DOMAIN p : \A i \in DOMAIN p[l] : PlaceFits(p, l, i)
<1>1. ASSUME NEW l \in DOMAIN p, NEW i \in DOMAIN p[l] PROVE <<l, i>> \in Places(p)
  BY <1>1 DEF Places
<1>2. ASSUME NEW place \in Places(p)
      PROVE  /\ place[1] \in DOMAIN p /\ place[2] \in DOMAIN p[place[1]]
             /\ place = <<place[1], place[2]>>
  BY DEF Places
<1>3. ASSUME NEW place, place = <<place[1], place[2]>>
      PROVE  PlaceFits(p, place[1], place[2]) <=>
               LET stmt == p[place[1]][place[2]]
               IN /\ WellScopedNodes(p, place)
                  /\ stmt.kind = "RETURN" =>
                       place[1] # 1 /\ (FunctionAt(p, place[1]).returns <=> stmt.expr # <<>>)
                  /\ IsFuncDecl(stmt) => ~stmt.variadic
                  /\ stmt.kind = "DECLARE" => Fitting(stmt.params) = Len(stmt.params)
                  /\ stmt.kind = "EXTERN" =>
                       \A k \in DOMAIN stmt.decls : Fitting(stmt.decls[k].params) = Len(stmt.decls[k].params)
  <2>1. WellScopedNodes(p, place) <=> \A j \in DOMAIN p[place[1]][place[2]].expr : NodeFits(p, place, j)
    BY DEF WellScopedNodes, NodeFits
  <2>2. PlaceFits(p, place[1], place[2]) <=>
          /\ \A j \in DOMAIN p[place[1]][place[2]].expr : NodeFits(p, place, j)
          /\ ReturnFits(p, place)
          /\ PrototypesFit(p[place[1]][place[2]])
    BY <1>3, Zenon DEF PlaceFits
  <2>3. QED
    BY <2>1, <2>2 DEF ReturnFits, PrototypesFit
<1>4. WellScoped(p) <=> NamesApart(p) /\ \A place \in Places(p) : PlaceFits(p, place[1], place[2])
  BY <1>2, <1>3, Zenon DEF WellScoped, NamesApart
<1>5. (\A place \in Places(p) : PlaceFits(p, place[1], place[2]))
        <=> \A l \in DOMAIN p : \A i \in DOMAIN p[l] : PlaceFits(p, l, i)
  <2>1. ASSUME \A place \in Places(p) : PlaceFits(p, place[1], place[2]),
               NEW l \in DOMAIN p, NEW i \in DOMAIN p[l]
        PROVE  PlaceFits(p, l, i)
    <3>1. PlaceFits(p, <<l, i>>[1], <<l, i>>[2])
      BY <1>1, <2>1, Zenon
    <3>2. <<l, i>>[1] = l /\ <<l, i>>[2] = i
      OBVIOUS
    <3>3. QED
      BY <3>1, <3>2, Zenon
  <2>2. QED
    BY <1>2, <2>1, Zenon
<1>6. QED
  BY <1>4, <1>5

(* Where a place is a pair, so are its nodes' meanings.                       *)
LEMMA HereIs == Here = <<Frame.list, Frame.at>> /\ Here[1] = Frame.list /\ Here[2] = Frame.at
BY DEF Here

(* Only statements of some kinds have expressions.                            *)
LEMMA ExpressionFacts ==
  ASSUME NEW stmt \in Statements
  PROVE  /\ stmt.expr \in Exprs /\ Len(stmt.expr) \in Nat /\ DOMAIN stmt.expr = 1 .. Len(stmt.expr)
         /\ stmt.kind \in {"DECLARE", "FUNC", "EXTERN"} => DOMAIN stmt.expr = {}
         /\ stmt.kind \in {"DIM", "DECLARE", "FUNC", "RETURN", "EXPR", "ASSIGN", "EXTERN"}
<1>1. stmt.expr \in Exprs
  BY EmptySeq DEF Statements, Prototypes, Exprs
<1>2. Len(stmt.expr) \in Nat /\ DOMAIN stmt.expr = 1 .. Len(stmt.expr)
  BY <1>1 DEF Exprs
<1>3. stmt.kind \in {"DECLARE", "FUNC", "EXTERN"} => stmt.expr = <<>>
  BY DEF Statements, Prototypes
<1>4. stmt.kind \in {"DIM", "DECLARE", "FUNC", "RETURN", "EXPR", "ASSIGN", "EXTERN"}
  BY DEF Statements, Prototypes
<1>5. QED
  BY <1>1, <1>2, <1>3, <1>4

-----------------------------------------------------------------------------
(* What the lookup tells.                                                    *)

(* The last frame is the one visited.                                        *)
LEMMA LastFrame ==
  ASSUME ScopesInv, frames # <<>>
  PROVE  /\ Len(frames) \in DOMAIN frames /\ Frame = frames[Len(frames)]
         /\ TableOf(Len(frames)) = table /\ PlaceOf(Len(frames)) = Here
<1>1. Len(frames) \in DOMAIN frames /\ Frame = frames[Len(frames)]
  BY FrameFacts DEF ScopesInv, Frame
<1>2. TableOf(Len(frames)) = table
  BY <1>1 DEF ScopesInv, Nested, InnerTable, TableOf
<1>3. QED
  BY <1>1, <1>2 DEF PlaceOf, Here

(* Once a list's functions are defined or refused, they are defined.          *)
LEMMA FunctionsReady ==
  ASSUME ScopesInv, error = "none", NEW l \in DOMAIN prog, NEW i \in DOMAIN prog[l],
         IsFuncDecl(prog[l][i]), NEW s \in DOMAIN symbols, symbols[s].decl = Key(l, i),
         symbols[s].status # "Declared"
  PROVE  symbols[s].status = "Defined"
<1>1. s \in SymbolsOf(Key(l, i))
  BY DEF SymbolsOf
<1>2. symbols[s].status # "BeingDefined"
  BY <1>1 DEF ScopesInv, BodiesHaveTables
<1>3. symbols[s].status \in {"Declared", "BeingDefined", "Defined"}
  BY SymbolFacts DEF ScopesInv, SymbolRecords
<1>4. QED
  BY <1>2, <1>3

(* A key is its four numbers.                                                *)
LEMMA KeyIs ==
  ASSUME ScopesInv, NEW s \in DOMAIN symbols
  PROVE  /\ symbols[s].decl \in Nat \X Nat \X Nat \X Nat
         /\ symbols[s].decl[1] \in Nat /\ symbols[s].decl[2] \in Nat
         /\ symbols[s].decl[3] \in Nat /\ symbols[s].decl[4] \in Nat
         /\ Plain(symbols[s].decl) => symbols[s].decl = Key(symbols[s].decl[1], symbols[s].decl[2])
         /\ symbols[s].decl = <<symbols[s].decl[1], symbols[s].decl[2], symbols[s].decl[3], symbols[s].decl[4]>>
<1>1. symbols[s].decl \in Nat \X Nat \X Nat \X Nat
  BY SymbolFacts DEF ScopesInv, SymbolRecords
<1>2. QED
  BY <1>1 DEF Plain, Key

(* The functions of the list visited are defined when its statements are.      *)
LEMMA VisitedFunctions ==
  ASSUME ScopesInv, frames # <<>>, error = "none", Undeclared = {}, Undefined = {},
         NEW s \in DOMAIN symbols, KeyStands(prog, symbols[s].decl), Plain(symbols[s].decl),
         symbols[s].decl[1] = Frame.list, IsFuncDecl(DeclOf(prog, symbols[s].decl))
  PROVE  symbols[s].status = "Defined"
<1> DEFINE l == Frame.list
           i == symbols[s].decl[2]
<1>1. symbols[s].decl = Key(l, i)
  BY KeyIs
<1>2. l \in DOMAIN prog /\ i \in DOMAIN prog[l]
  BY DEF KeyStands
<1>3. IsFuncDecl(prog[l][i])
  BY DEF DeclOf, Plain
<1> HIDE DEF i
<1>4. SymbolsOf(Key(l, i)) # {}
  BY <1>1 DEF SymbolsOf
<1>5. symbols[SymbolOf(Key(l, i))].status # "Declared"
  BY <1>2, <1>3 DEF Undefined, Key
<1>6. SymbolOf(Key(l, i)) \in DOMAIN symbols /\ symbols[SymbolOf(Key(l, i))].decl = Key(l, i)
  BY <1>4, SymbolOfIs
<1>7. SymbolOf(Key(l, i)) = s
  BY <1>1, <1>6 DEF ScopesInv, DeclaredOnce
<1>8. QED
  BY <1>1, <1>2, <1>3, <1>5, <1>7, FunctionsReady

(* What find gives while an expression is visited: a symbol of what the name   *)
(* means, if it means anything, which is defined exactly if it can be used.   *)
LEMMA FoundTells ==
  ASSUME ScopesInv, ResolutionInv, SymbolsTold, StatusesTold,
         Visiting({"DIM", "EXPR", "ASSIGN", "RETURN"}), NEW n \in Names
  PROVE  /\ Find(table, n) = 0 => Meaning(prog, Here, n) = {}
         /\ Find(table, n) # 0 =>
              /\ Find(table, n) \in DOMAIN symbols /\ Meaning(prog, Here, n) = {symbols[Find(table, n)].decl}
              /\ symbols[Find(table, n)].status = "Defined" <=> Usable(prog, Here, n)
<1> DEFINE s == Find(table, n)
           key == symbols[s].decl
<1>1. /\ frames # <<>> /\ error = "none" /\ Undeclared = {} /\ Undefined = {} /\ Stmt.kind # "EXTERN"
      /\ Frame.at \in DOMAIN prog[Frame.list] /\ Frame.list \in DOMAIN prog
  BY VisitFacts
<1>2. Searched
  BY <1>1 DEF ResolutionInv
<1>3. Len(frames) \in DOMAIN frames /\ TableOf(Len(frames)) = table /\ PlaceOf(Len(frames)) = Here
      /\ Frame = frames[Len(frames)]
  BY <1>1, LastFrame
<1>4. AllDeclared(Len(frames))
  BY <1>1, <1>3 DEF AllDeclared, Undeclared, Key
<1>5. /\ Meaning(prog, Here, n) = IF s = 0 THEN {} ELSE {key}
      /\ s # 0 => s \in DOMAIN symbols /\ \E h \in DOMAIN frames : Scope(prog, Here, n) = PlaceOf(h)
  <2> DEFINE f == Len(frames)
  <2>1. f \in DOMAIN frames /\ TableOf(f) = table /\ PlaceOf(f) = Here
    BY <1>3
  <2> HIDE DEF f
  <2>2. QED
    BY <1>1, <1>2, <1>4, <2>1, MeaningIsFound DEF f
<1>6. ASSUME s # 0 PROVE symbols[s].status = "Defined" <=> Usable(prog, Here, n)
  <2>1. s \in DOMAIN symbols /\ Meaning(prog, Here, n) = {key}
    BY <1>5, <1>6
  <2>2. PICK h \in DOMAIN frames : Scope(prog, Here, n) = PlaceOf(h)
    BY <1>5, <1>6
  <2> HIDE DEF s
  <2>3. Scope(prog, Here, n)[2] = frames[h].at /\ PlaceOf(h)[1] = frames[h].list /\ PlaceOf(h)[2] = frames[h].at
    BY <2>2 DEF PlaceOf
  <2>4. key \in Visible(prog, PlaceOf(h), n)
    BY <2>1, <2>2 DEF Meaning
  <2>5. key \in Owned(prog, frames[h].list) \/ (key \in Linked(prog, frames[h].list) /\ key[2] < frames[h].at)
    BY <2>3, <2>4 DEF Visible
  <2>6. frames[h].list \in DOMAIN prog /\ IsProgram(prog)
    BY PlaceFacts DEF ScopesInv, Typed
  <2>7. SymbolTold(prog, symbols[s]) /\ StatusTold(prog, frames[h], symbols[s], h = Len(frames))
    BY <2>1 DEF SymbolsTold, StatusesTold
  <2>8. Usable(prog, Here, n) <=> (key[4] = 0 /\ DeclOf(prog, key).kind = "DIM" => key[2] < frames[h].at)
    BY <2>1, <2>3 DEF Usable
  <2>9. CASE key[4] # 0
    BY <2>7, <2>8, <2>9 DEF SymbolTold
  <2>10. CASE key[4] = 0
    <3>1. key[1] = frames[h].list
      <4> DEFINE m == frames[h].list
      <4>1. key \in Belonging(m) /\ m \in DOMAIN prog
        BY <2>5, <2>6 DEF Belonging
      <4> HIDE DEF m
      <4>2. key[1] = m \/ IsParameter(key)
        BY <2>6, <4>1, BelongingFacts
      <4>3. QED
        BY <2>10, <4>2 DEF IsParameter, m
    <3>2. CASE DeclOf(prog, key).kind = "DIM"
      BY <2>7, <2>8, <2>10, <3>1, <3>2 DEF StatusTold
    <3>3. CASE DeclOf(prog, key).kind # "DIM" /\ key[3] # 0
      <4>1. key \notin Owned(prog, frames[h].list)
        <5>1. ASSUME NEW i, key = <<frames[h].list, i, 0, 0>> PROVE FALSE
          BY <3>3, <5>1
        <5>2. ASSUME NEW a, NEW b, NEW c, key = <<a, b, 0, c>> PROVE FALSE
          BY <3>3, <5>2
        <5>3. QED
          BY <5>1, <5>2 DEF Owned, Parameters
      <4>2. QED
        BY <2>5, <2>7, <2>8, <2>10, <3>1, <3>3, <4>1 DEF StatusTold
    <3>4. CASE DeclOf(prog, key).kind # "DIM" /\ key[3] = 0
      <4>1. IsFuncDecl(DeclOf(prog, key)) /\ KeyStands(prog, key)
        <5>1. KeyStands(prog, key)
          BY <2>7 DEF SymbolTold
        <5>2. IsDecl(DeclOf(prog, key))
          BY <3>4, <5>1 DEF KeyStands, DeclOf
        <5>3. QED
          BY <3>4, <5>1, <5>2 DEF IsDecl, IsFuncDecl
      <4>2. Plain(key)
        BY <2>10, <3>4 DEF Plain
      <4>3. symbols[s].status = "Defined"
        <5>1. CASE h = Len(frames)
          <6>1. key[1] = Frame.list
            BY <1>3, <3>1, <5>1
          <6>2. QED
            BY <1>1, <2>1, <4>1, <4>2, <6>1, VisitedFunctions
        <5>2. CASE h # Len(frames)
          <6>1. symbols[s].status # "Declared"
            BY <2>7, <2>10, <3>1, <3>4, <4>1, <5>2 DEF StatusTold
          <6>2. key = Key(key[1], key[2])
            BY <2>1, <4>2, KeyIs
          <6>3. key[1] \in DOMAIN prog /\ key[2] \in DOMAIN prog[key[1]] /\ IsFuncDecl(prog[key[1]][key[2]])
            BY <3>4, <4>1 DEF KeyStands, DeclOf
          <6>4. QED
            BY <1>1, <2>1, <6>1, <6>2, <6>3, FunctionsReady
        <5>3. QED
          BY <5>1, <5>2
      <4>4. QED
        BY <2>8, <3>4, <4>3
    <3>5. QED
      BY <3>2, <3>3, <3>4
  <2>11. QED
    BY <2>9, <2>10
<1>7. QED
  BY <1>5, <1>6

-----------------------------------------------------------------------------
(* What is refused breaks a rule.                                            *)

(* A place that does not fit.                                                *)
LEMMA PlaceRefused ==
  ASSUME NEW l \in DOMAIN prog, NEW i \in DOMAIN prog[l], ~PlaceFits(prog, l, i)
  PROVE  ~WellScoped(prog)
BY WellScopedIs

(* Two declarations of one name.                                             *)
LEMMA NameRefused ==
  ASSUME NEW l \in DOMAIN prog, NEW one \in Belonging(l), NEW other \in Belonging(l),
         NameOf(prog, one) = NameOf(prog, other), one # other
  PROVE  ~WellScoped(prog)
<1>1. ~NamesApart(prog)
  BY DEF NamesApart, Belonging
<1>2. QED
  BY <1>1, WellScopedIs

(* declare finds the name in the table: another declaration put it there.     *)
LEMMA DeclareRefused ==
  ASSUME ScopesInv, Searched, Spelled(prog), frames # <<>>, NEW key \in Belonging(Frame.list),
         Contains(table, NameOf(prog, key)), SymbolsOf(key) = {}
  PROVE  ~WellScoped(prog)
<1> DEFINE l == Frame.list
           n == NameOf(prog, key)
<1>1. IsProgram(prog) /\ l \in DOMAIN prog
  BY FrameFacts DEF ScopesInv, Typed
<1>2. listTable[l] # 0 /\ listTable[l] = table
  <2>1. Len(frames) \in DOMAIN frames /\ Frame = frames[Len(frames)]
    BY LastFrame
  <2>2. QED
    BY <2>1 DEF ScopesInv, Nested, InnerTable
<1>3. n \in Names
  BY <1>1, SpelledNames
<1>4. Sound(l)
  BY <1>1, <1>2 DEF Searched, TablesHold
<1>5. tables[table].names[n] # 0
  BY DEF Contains
<1> DEFINE s == tables[listTable[l]].names[n]
<1>6. s \in DOMAIN symbols /\ symbols[s].decl \in Belonging(l) /\ NameOf(prog, symbols[s].decl) = n
  BY <1>2, <1>3, <1>4, <1>5 DEF Sound
<1>7. symbols[s].decl # key
  BY <1>6 DEF SymbolsOf
<1> HIDE DEF s
<1>8. QED
  BY <1>1, <1>6, <1>7, NameRefused

(* A declaration of the list.                                                *)
LEMMA DeclareNextRefused ==
  ASSUME ScopesInv, ResolutionInv, DeclareNext, error' # "none"
  PROVE  ~WellScoped(prog) /\ prog' = prog
<1> DEFINE i == First(Undeclared)
           decl == prog[Frame.list][i]
           key == <<Frame.list, i, 0, 0>>
<1>1. Going /\ Undeclared # {} /\ Declare(decl, key)
  BY DEF DeclareNext
<1>2. /\ frames # <<>> /\ error = "none" /\ Frame.list \in DOMAIN prog
      /\ DOMAIN prog[Frame.list] \subseteq Nat
  BY <1>1, WaitingFacts
<1>3. i \in DOMAIN prog[Frame.list] /\ IsDecl(decl) /\ SymbolsOf(key) = {}
  <2>1. Undeclared \subseteq Nat
    BY <1>2 DEF Undeclared
  <2>2. i \in Undeclared
    BY <1>1, <2>1, FirstIsOne
  <2>3. QED
    BY <2>2 DEF Undeclared
<1>4. key \in Belonging(Frame.list) /\ NameOf(prog, key) = decl.name
  BY <1>3 DEF Belonging, Owned, NameOf, DeclOf
<1>5. Searched /\ Spelled(prog)
  BY <1>2 DEF ResolutionInv
<1> HIDE DEF i, decl, key
<1>6. Contains(table, decl.name) /\ prog' = prog
  BY <1>1, <1>2 DEF Declare, Refuse
<1>7. QED
  BY <1>2, <1>3, <1>4, <1>5, <1>6, DeclareRefused

(* A declaration of an EXTERN block: it has no symbol yet.                    *)
LEMMA DeclareExternRefused ==
  ASSUME ScopesInv, ResolutionInv, BlockTells, DeclareExtern, error' # "none"
  PROVE  ~WellScoped(prog) /\ prog' = prog
<1> DEFINE decl == Stmt.decls[node]
           key == DeclHere(node)
<1>1. Visiting({"EXTERN"}) /\ node \in 1 .. Len(Stmt.decls) /\ Declare(decl, key)
  BY DEF DeclareExtern
<1>2. /\ frames # <<>> /\ error = "none" /\ Going /\ AtStatement /\ Stmt.kind = "EXTERN" /\ node \in Nat
      /\ Frame.list \in DOMAIN prog /\ Frame.at \in DOMAIN prog[Frame.list]
      /\ Stmt = prog[Frame.list][Frame.at] /\ DOMAIN Stmt.decls = 1 .. Len(Stmt.decls)
  BY <1>1, VisitFacts
<1>3. key = <<Frame.list, Frame.at, node, 0>>
  BY DEF DeclHere
<1>4. key[1] = Frame.list /\ key[2] = Frame.at /\ key[3] = node /\ key[4] = 0
  BY <1>3
<1>5. key \in Belonging(Frame.list)
  BY <1>1, <1>2, <1>3 DEF Belonging, Linked
<1>6. NameOf(prog, key) = decl.name
  <2>1. node # 0
    BY <1>1
  <2> HIDE DEF key
  <2>2. QED
    BY <1>2, <1>4, <2>1 DEF NameOf, DeclOf
<1>7. Searched /\ Spelled(prog)
  BY <1>2 DEF ResolutionInv
<1> HIDE DEF decl, key
<1>8. SymbolsOf(key) = {}
  <2>1. ASSUME NEW s \in DOMAIN symbols, symbols[s].decl = key PROVE FALSE
    <3>1. BlockTold(Frame, symbols[s], node, Len(Stmt.decls))
      BY <1>2 DEF BlockTells
    <3>2. QED
      BY <1>2, <1>4, <2>1, <3>1 DEF BlockTold
  <2>2. QED
    BY <2>1 DEF SymbolsOf
<1>9. Contains(table, decl.name) /\ prog' = prog
  BY <1>1, <1>2 DEF Declare, Refuse
<1>10. QED
  BY <1>2, <1>5, <1>6, <1>7, <1>8, <1>9, DeclareRefused

(* Parameters that do not all fit are not all different.                      *)
LEMMA FittingNotAll ==
  ASSUME NEW params \in Seq(STRING), Fitting(params) # Len(params)
  PROVE  \E p, q \in DOMAIN params : params[p] = params[q] /\ p # q
<1>1. PICK p \in DOMAIN params : \E q \in 1 .. p - 1 : params[q] = params[p]
  BY DEF Fitting
<1>2. PICK q \in 1 .. p - 1 : params[q] = params[p]
  BY <1>1
<1>3. q \in DOMAIN params /\ q # p
  BY <1>1, <1>2
<1>4. QED
  BY <1>1, <1>2, <1>3

(* A function's signature.                                                   *)
LEMMA DefineNextRefused ==
  ASSUME ScopesInv, DefineNext, error' # "none"
  PROVE  ~WellScoped(prog) /\ prog' = prog
<1> DEFINE l == Frame.list
           i == First(Undefined)
           decl == prog[l][i]
           key == <<l, i, 0, 0>>
<1>1. /\ Going /\ Undeclared = {} /\ Undefined # {} /\ DefineFunction(decl, key) /\ prog' = prog
  BY DEF DefineNext
<1>2. /\ frames # <<>> /\ error = "none" /\ l \in DOMAIN prog
      /\ DOMAIN prog[l] \subseteq Nat /\ DOMAIN prog \subseteq Nat
  BY <1>1, WaitingFacts
<1>3. i \in DOMAIN prog[l] /\ IsFuncDecl(decl)
  <2>1. Undefined \subseteq Nat
    BY <1>2 DEF Undefined
  <2>2. i \in Undefined
    BY <1>1, <2>1, FirstIsOne
  <2>3. QED
    BY <2>2 DEF Undefined
<1>4. decl \in Statements /\ IsProgram(prog)
  <2>1. IsProgram(prog)
    BY DEF ScopesInv, Typed
  <2>2. QED
    BY <1>2, <1>3, <2>1, StatementFacts
<1>5. decl.params \in Seq(STRING)
  BY <1>3, <1>4, KindFacts
<1>6. CASE decl.variadic
  <2>1. ~PlaceFits(prog, l, i)
    BY <1>3, <1>6 DEF PlaceFits, PrototypesFit
  <2> HIDE DEF l, i
  <2>2. QED
    BY <1>1, <1>2, <1>3, <2>1, PlaceRefused
<1>7. CASE ~decl.variadic /\ Fitting(decl.params) # Len(decl.params) /\ decl.kind = "DECLARE"
  <2>1. ~PlaceFits(prog, l, i)
    BY <1>7 DEF PlaceFits, PrototypesFit
  <2> HIDE DEF l, i
  <2>2. QED
    BY <1>1, <1>2, <1>3, <2>1, PlaceRefused
<1>8. CASE ~decl.variadic /\ Fitting(decl.params) # Len(decl.params) /\ decl.kind = "FUNC"
  <2> DEFINE b == decl.body
  <2>1. PICK p \in DOMAIN decl.params : \E q \in DOMAIN decl.params : decl.params[p] = decl.params[q] /\ p # q
    BY <1>5, <1>8, FittingNotAll
  <2>2. PICK q \in DOMAIN decl.params : decl.params[p] = decl.params[q] /\ p # q
    BY <2>1
  <2>3. b \in DOMAIN prog /\ Parameters(prog, b) = {<<l, i, 0, k>> : k \in DOMAIN decl.params}
    BY <1>2, <1>3, <1>4, <1>8, HomeIs, BodyFacts
  <2>4. p # 0 /\ q # 0
    BY <1>5
  <2> DEFINE one == <<l, i, 0, p>>
             other == <<l, i, 0, q>>
  <2>5. one \in Belonging(b) /\ other \in Belonging(b)
    BY <2>3 DEF Belonging, Owned
  <2>6. one # other
    BY <2>2
  <2>7. NameOf(prog, one) = decl.params[p] /\ NameOf(prog, other) = decl.params[q]
    BY <2>4 DEF NameOf, DeclOf
  <2> HIDE DEF one, other, b
  <2>8. QED
    BY <1>1, <2>2, <2>3, <2>5, <2>6, <2>7, NameRefused
<1>9. CASE ~decl.variadic /\ Fitting(decl.params) = Len(decl.params)
  BY <1>1, <1>2, <1>9, Zenon DEF DefineFunction
<1>10. QED
  BY <1>3, <1>6, <1>7, <1>8, <1>9 DEF IsFuncDecl

(* That of a function of an EXTERN block, which may be variadic.              *)
LEMMA DefineExternRefused ==
  ASSUME ScopesInv, DefineExtern, error' # "none"
  PROVE  ~WellScoped(prog) /\ prog' = prog
<1> DEFINE k == node - Len(Stmt.decls) - 1
           decl == Stmt.decls[k]
           key == DeclHere(k)
<1>1. /\ Visiting({"EXTERN"}) /\ node \in Len(Stmt.decls) + 2 .. 2 * Len(Stmt.decls) + 1
      /\ DefineFunction(decl, key) /\ prog' = prog
  BY DEF DefineExtern
<1>2. /\ error = "none" /\ Stmt.kind = "EXTERN" /\ StageIs(externKind, node) /\ AtStatement
      /\ Frame.list \in DOMAIN prog /\ Frame.at \in DOMAIN prog[Frame.list]
      /\ Stmt = prog[Frame.list][Frame.at]
      /\ Len(Stmt.decls) \in Nat /\ DOMAIN Stmt.decls = 1 .. Len(Stmt.decls) /\ node \in Nat
  BY <1>1, VisitFacts
<1>3. k \in DOMAIN Stmt.decls /\ k < node /\ k # 0
  BY <1>1, <1>2
<1>4. key[3] = k /\ key[4] = 0
  BY DEF DeclHere
<1>5. SymbolsOf(key) # {}
  BY <1>2, <1>3 DEF StageIs
<1> HIDE DEF decl, key, k
<1>6. symbols[SymbolOf(key)].extern = "C"
  <2>1. SymbolOf(key) \in DOMAIN symbols /\ symbols[SymbolOf(key)].decl = key
    BY <1>5, SymbolOfIs
  <2>2. QED
    BY <1>3, <1>4, <2>1 DEF ScopesInv, LinkageStaysInside
<1>7. Fitting(decl.params) # Len(decl.params)
  BY <1>1, <1>2, <1>6, Zenon DEF DefineFunction
<1>8. ~PlaceFits(prog, Frame.list, Frame.at)
  BY <1>2, <1>3, <1>7 DEF PlaceFits, PrototypesFit, decl
<1>9. QED
  BY <1>1, <1>2, <1>8, PlaceRefused

(* What m_returnType is while a list is visited, and what RETURN makes of it.  *)
LEMMA ReturnTold ==
  ASSUME ScopesInv, ReturnTypes, frames # <<>>, AtStatement, Stmt.kind = "RETURN"
  PROVE  ReturnRefused = "none" <=> ReturnFits(prog, <<Frame.list, Frame.at>>)
<1> DEFINE l == Frame.list
           place == <<l, Frame.at>>
<1>1. Stmt = prog[l][Frame.at] /\ place[1] = l /\ place[2] = Frame.at
  BY AtStatementFacts DEF ScopesInv
<1>2. returnType = ReturnsOf(prog, l)
  <2>1. Len(frames) \in DOMAIN frames /\ Frame = frames[Len(frames)]
    BY LastFrame
  <2>2. QED
    BY <2>1 DEF ReturnTypes, InnerReturns
<1>3. ReturnFits(prog, place) <=> l # 1 /\ (FunctionAt(prog, l).returns <=> Stmt.expr # <<>>)
  <2> HIDE DEF place
  <2>1. QED
    BY <1>1, Zenon DEF ReturnFits
<1>4. CASE l = 1
  <2>1. returnType = "none"
    BY <1>2, <1>4 DEF ReturnsOf
  <2>2. ReturnRefused = "returnOutsideFunction"
    BY <2>1, Zenon DEF ReturnRefused
  <2>3. QED
    BY <1>3, <1>4, <2>2
<1>5. CASE l # 1 /\ FunctionAt(prog, l).returns
  <2>1. returnType = "value"
    BY <1>2, <1>5 DEF ReturnsOf
  <2>2. Stmt.expr = <<>> => ReturnRefused = "returnMissingValue"
    BY <2>1 DEF ReturnRefused
  <2>3. Stmt.expr # <<>> => ReturnRefused = "none"
    BY <2>1 DEF ReturnRefused
  <2>4. QED
    BY <1>3, <1>5, <2>2, <2>3
<1>6. CASE l # 1 /\ ~FunctionAt(prog, l).returns
  <2>1. returnType = "void"
    BY <1>2, <1>6 DEF ReturnsOf
  <2>2. Stmt.expr # <<>> => ReturnRefused = "returnValueInSub"
    BY <2>1 DEF ReturnRefused
  <2>3. Stmt.expr = <<>> => ReturnRefused = "none"
    BY <2>1 DEF ReturnRefused
  <2>4. QED
    BY <1>3, <1>6, <2>2, <2>3
<1>7. QED
  BY <1>4, <1>5, <1>6

(* A RETURN.                                                                 *)
LEMMA RefuseReturnRefused ==
  ASSUME ScopesInv, ReturnTypes, RefuseReturn
  PROVE  ~WellScoped(prog) /\ prog' = prog
<1>1. Visiting({"RETURN"}) /\ ReturnRefused # "none" /\ prog' = prog
  BY DEF RefuseReturn, Refuse
<1>2. /\ frames # <<>> /\ AtStatement /\ Stmt.kind = "RETURN"
      /\ Frame.list \in DOMAIN prog /\ Frame.at \in DOMAIN prog[Frame.list]
  BY <1>1, VisitFacts
<1>3. ~PlaceFits(prog, Frame.list, Frame.at)
  BY <1>1, <1>2, ReturnTold DEF PlaceFits
<1>4. QED
  BY <1>1, <1>2, <1>3, PlaceRefused

(* The name of a node that has one is spelled, and a callee was looked up.     *)
LEMMA NodeFacts ==
  ASSUME ScopesInv, ResolutionInv, NodesFit, VisitNode
  PROVE  /\ Visiting({"DIM", "EXPR", "ASSIGN", "RETURN"})
         /\ Going /\ AtStatement /\ node \in Nat /\ node + 1 \in DOMAIN Stmt.expr
         /\ Stmt = prog[Frame.list][Frame.at] /\ Frame.list \in DOMAIN prog /\ Frame.at \in DOMAIN prog[Frame.list]
         /\ Stmt.expr[node + 1].op \in {"var", "call"} => Stmt.expr[node + 1].name \in Names
         /\ Stmt.expr[node + 1].op = "call" => Meaning(prog, Here, Stmt.expr[node + 1].name) # {}
<1>1. Visiting({"DIM", "EXPR", "ASSIGN", "RETURN"}) /\ node < Len(Stmt.expr)
  BY DEF VisitNode
<1>2. /\ Going /\ AtStatement /\ node \in Nat /\ Stmt \in Statements
      /\ Stmt = prog[Frame.list][Frame.at] /\ Frame.list \in DOMAIN prog /\ Frame.at \in DOMAIN prog[Frame.list]
  BY <1>1, VisitFacts
<1>3. DOMAIN Stmt.expr = 1 .. Len(Stmt.expr) /\ Len(Stmt.expr) \in Nat
  BY <1>2, ExpressionFacts
<1>4. node + 1 \in DOMAIN Stmt.expr
  BY <1>1, <1>2, <1>3
<1>5. \A j \in DOMAIN Stmt.expr : SpelledNode(Stmt.expr, j)
  BY <1>2 DEF ResolutionInv, Spelled
<1>6. Stmt.expr[node + 1].op = "var" => Stmt.expr[node + 1].name \in Names
  BY <1>4, <1>5 DEF SpelledNode
<1>7. ASSUME Stmt.expr[node + 1].op = "call"
      PROVE  Stmt.expr[node + 1].name \in Names /\ Meaning(prog, Here, Stmt.expr[node + 1].name) # {}
  <2> DEFINE k == node + 1
  <2>1. PICK i \in 1 .. k - 1 : Stmt.expr[i].op = "var" /\ Stmt.expr[i].name = Stmt.expr[k].name
    <3>1. SpelledNode(Stmt.expr, k) /\ Stmt.expr[k].op = "call"
      BY <1>4, <1>5, <1>7
    <3> HIDE DEF k
    <3>2. QED
      BY <3>1, Zenon DEF SpelledNode
  <2>2. i \in DOMAIN Stmt.expr /\ i <= node
    BY <1>2, <1>3, <1>4, <2>1
  <2>3. NodeFits(prog, Here, i)
    BY <1>2, <2>2 DEF NodesFit
  <2>4. prog[Here[1]][Here[2]].expr[i] = Stmt.expr[i]
    BY <1>2, HereIs
  <2>5. Meaning(prog, Here, Stmt.expr[i].name) # {}
    BY <2>1, <2>3, <2>4 DEF NodeFits
  <2>6. Stmt.expr[i].name \in Names
    BY <1>5, <2>1, <2>2 DEF SpelledNode
  <2>7. QED
    BY <2>1, <2>5, <2>6
<1>8. QED
  BY <1>1, <1>2, <1>4, <1>6, <1>7

(* A node is refused exactly when it does not fit.                           *)
LEMMA NodeTold ==
  ASSUME ScopesInv, ResolutionInv, SymbolsTold, StatusesTold, NodesFit, VisitNode
  PROVE  NodeRefused(Stmt.expr[node + 1]) = "none" <=> NodeFits(prog, Here, node + 1)
<1> DEFINE e == Stmt.expr[node + 1]
           s == Find(table, e.name)
<1>1. /\ Visiting({"DIM", "EXPR", "ASSIGN", "RETURN"})
      /\ e.op \in {"var", "call"} => e.name \in Names
      /\ e.op = "call" => Meaning(prog, Here, e.name) # {}
      /\ Stmt = prog[Frame.list][Frame.at]
  BY NodeFacts
<1>2. prog[Here[1]][Here[2]].expr[node + 1] = e
  BY <1>1, HereIs
<1>3. NodeFits(prog, Here, node + 1) <=>
        /\ e.op = "var" => Meaning(prog, Here, e.name) # {} /\ Usable(prog, Here, e.name)
        /\ e.op = "call" => \A key \in Meaning(prog, Here, e.name) : key[4] = 0 /\ IsFuncDecl(DeclOf(prog, key))
  BY <1>2 DEF NodeFits
<1>4. ASSUME e.op \in {"var", "call"}
      PROVE  /\ s = 0 => Meaning(prog, Here, e.name) = {}
             /\ s # 0 => /\ s \in DOMAIN symbols /\ Meaning(prog, Here, e.name) = {symbols[s].decl}
                         /\ symbols[s].status = "Defined" <=> Usable(prog, Here, e.name)
  <2> DEFINE n == e.name
  <2>1. n \in Names
    BY <1>1, <1>4
  <2> HIDE DEF n
  <2>2. /\ Find(table, n) = 0 => Meaning(prog, Here, n) = {}
        /\ Find(table, n) # 0 =>
              /\ Find(table, n) \in DOMAIN symbols /\ Meaning(prog, Here, n) = {symbols[Find(table, n)].decl}
              /\ symbols[Find(table, n)].status = "Defined" <=> Usable(prog, Here, n)
    BY <1>1, <2>1, FoundTells
  <2>3. QED
    BY <2>2 DEF n
<1>5. NodeRefused(e) = CASE e.op = "var" /\ s = 0 -> "undeclaredIdentifier"
                         [] e.op = "var" /\ s # 0 /\ symbols[s].status # "Defined" -> "useBeforeDefinition"
                         [] e.op = "call" /\ symbols[s].role # "function" -> "notCallable"
                         [] OTHER -> "none"
  BY DEF NodeRefused
<1> HIDE DEF s, e
<1>6. CASE e.op = "var"
  <2>1. CASE s = 0
    <3>1. NodeRefused(e) = "undeclaredIdentifier"
      BY <1>5, <1>6, <2>1
    <3>2. QED
      BY <1>3, <1>4, <1>6, <2>1, <3>1 DEF e
  <2>2. CASE s # 0
    <3>1. NodeRefused(e) = "none" <=> symbols[s].status = "Defined"
      BY <1>5, <1>6, <2>2
    <3>2. QED
      BY <1>3, <1>4, <1>6, <2>2, <3>1 DEF e
  <2>3. QED
    BY <2>1, <2>2
<1>7. CASE e.op = "call"
  <2>1. s # 0
    BY <1>1, <1>4, <1>7
  <2>2. NodeRefused(e) = "none" <=> symbols[s].role = "function"
    BY <1>5, <1>7
  <2>3. s \in DOMAIN symbols /\ Meaning(prog, Here, e.name) = {symbols[s].decl}
    BY <1>4, <1>7, <2>1
  <2>4. symbols[s].role = RoleOf(prog, symbols[s].decl)
    BY <2>3 DEF SymbolsTold, SymbolTold
  <2>5. symbols[s].role = "function" <=> symbols[s].decl[4] = 0 /\ IsFuncDecl(DeclOf(prog, symbols[s].decl))
    BY <2>4 DEF RoleOf
  <2>6. QED
    BY <1>3, <1>7, <2>2, <2>3, <2>5 DEF e
<1>8. CASE e.op \notin {"var", "call"}
  <2>1. NodeRefused(e) = "none"
    BY <1>5, <1>8
  <2>2. QED
    BY <1>3, <1>8, <2>1 DEF e
<1>9. QED
  BY <1>6, <1>7, <1>8

(* A node.                                                                   *)
LEMMA VisitNodeRefused ==
  ASSUME ScopesInv, ResolutionInv, SymbolsTold, StatusesTold, NodesFit, VisitNode, error' # "none"
  PROVE  ~WellScoped(prog) /\ prog' = prog
<1>1. /\ Visiting({"DIM", "EXPR", "ASSIGN", "RETURN"}) /\ node + 1 \in DOMAIN Stmt.expr
      /\ Stmt = prog[Frame.list][Frame.at] /\ Frame.list \in DOMAIN prog /\ Frame.at \in DOMAIN prog[Frame.list]
  BY NodeFacts
<1>2. error = "none"
  BY <1>1, VisitFacts
<1>3. NodeRefused(Stmt.expr[node + 1]) # "none" /\ prog' = prog
  BY <1>2 DEF VisitNode, Refuse
<1>4. ~NodeFits(prog, Here, node + 1)
  BY <1>3, NodeTold
<1>5. ~PlaceFits(prog, Frame.list, Frame.at)
  <2>1. ~NodeFits(prog, <<Frame.list, Frame.at>>, node + 1)
    BY <1>4, HereIs
  <2>2. QED
    BY <1>1, <2>1 DEF PlaceFits
<1>6. QED
  BY <1>1, <1>3, <1>5, PlaceRefused

(* Whatever the analyser refuses breaks a rule.                               *)
LEMMA SemaRefuses ==
  ASSUME ScopesInv, ResolutionInv, AcceptanceInv, SemaNext, error' # "none"
  PROVE  ~WellScoped(prog) /\ prog' = prog
<1>1. CASE error = "none"
  <2>1. Accepting /\ ReturnTypes
    BY <1>1 DEF AcceptanceInv
  <2>2. CASE \/ Analyse \/ VisitDeclare \/ BeginDim \/ EndDim \/ EndStatement \/ VisitFunction
             \/ BeginExtern \/ EndLinkage \/ EndExtern \/ EndList \/ Unwind
    BY <1>1, <2>2 DEF Analyse, VisitDeclare, BeginDim, EndDim, EndStatement, VisitFunction, BeginExtern,
                      EndLinkage, EndExtern, EndList, Unwind
  <2>3. QED
    BY <2>1, <2>2, DeclareNextRefused, DefineNextRefused, RefuseReturnRefused, VisitNodeRefused,
       DeclareExternRefused, DefineExternRefused DEF SemaNext, Accepting
<1>2. CASE error # "none"
  <2>1. ~Going
    BY <1>2 DEF Going
  <2>2. CASE Analyse
    BY <1>2, <2>2 DEF Analyse, AcceptanceInv
  <2>3. CASE Unwind
    BY <1>2, <2>3 DEF Unwind, AcceptanceInv
  <2>4. QED
    BY <2>1, <2>2, <2>3 DEF SemaNext, DeclareNext, DefineNext, VisitDeclare, BeginDim, EndDim, RefuseReturn,
      EndStatement, VisitNode, VisitFunction, BeginExtern, DeclareExtern, EndLinkage, DefineExtern, EndExtern,
      EndList, Visiting
<1>3. QED
  BY <1>1, <1>2

-----------------------------------------------------------------------------
(* Where the steps lead.                                                     *)

(* The steps that stay at their list: at their statement or at the next.      *)
InList ==
  /\ frames # <<>> /\ frames' # <<>> /\ Len(frames') = Len(frames) /\ DOMAIN frames' = DOMAIN frames
  /\ \A f \in DOMAIN frames : /\ frames'[f].list = frames[f].list /\ frames'[f].returns = frames[f].returns
                              /\ f # Len(frames) => frames'[f] = frames[f]
  /\ UNCHANGED <<prog, returnType>>
  /\ \/ frames' = frames
     \/ Frame'.at = Frame.at + 1 /\ node' = 0

(* Finish is one of them.                                                    *)
LEMMA FinishInList ==
  ASSUME ScopesInv, frames # <<>>, Finish, UNCHANGED <<prog, returnType>>
  PROVE  InList
<1>1. /\ Len(frames') = Len(frames) /\ DOMAIN frames' = DOMAIN frames /\ frames' # <<>> /\ node' = 0
      /\ \A f \in DOMAIN frames : frames'[f].list = frames[f].list /\ frames'[f].returns = frames[f].returns
  BY FinishFacts DEF ScopesInv
<1>2. /\ Len(frames) \in DOMAIN frames /\ frames \in Seq(FrameRecords) /\ frames[Len(frames)] \in FrameRecords
  BY FrameFacts DEF ScopesInv, Typed
<1> DEFINE n == Len(frames)
           next == [frames[n] EXCEPT !.at = @ + 1]
<1>3. next.at = frames[n].at + 1
  BY <1>2 DEF FrameRecords
<1>4. frames' = [frames EXCEPT ![n] = next]
  BY DEF Finish
<1> HIDE DEF next
<1>5. \A f \in DOMAIN frames : f # n => frames'[f] = frames[f]
  BY <1>4
<1>6. frames'[n] = next
  BY <1>2, <1>4
<1>7. Frame'.at = Frame.at + 1
  BY <1>1, <1>3, <1>6 DEF Frame
<1>8. QED
  BY <1>1, <1>5, <1>7 DEF InList

(* So is what leaves the frames.                                             *)
LEMMA StillInList ==
  ASSUME frames # <<>>, UNCHANGED <<prog, frames, returnType>>
  PROVE  InList
BY DEF InList

(* A body is entered with nothing declared in it.                            *)
EnterEffect ==
  /\ frames # <<>> /\ Len(frames') = Len(frames) + 1 /\ DOMAIN frames' = 1 .. Len(frames) + 1
  /\ \A f \in DOMAIN frames : f \in DOMAIN frames' /\ f # Len(frames) + 1 /\ frames'[f] = frames[f]
  /\ \A f \in DOMAIN frames' : f \in DOMAIN frames \/ f = Len(frames) + 1
  /\ LET new == frames'[Len(frames) + 1]
     IN /\ Frame' = new /\ new.list = Stmt.body /\ new.at = 1 /\ new.returns = returnType
        /\ new.list \in DOMAIN prog
        /\ \A s \in DOMAIN symbols : symbols[s].decl[1] # new.list
  /\ node = 0 /\ UNCHANGED <<prog, symbols, tables, listTable, node, error>>

(* That is what SUB and FUNCTION do.                                          *)
LEMMA EnterFacts ==
  ASSUME ScopesInv, ResolutionInv, VisitFunction
  PROVE  EnterEffect
<1> DEFINE b == Stmt.body
           new == [list |-> b, at |-> 1, table |-> table, returns |-> returnType]
           n == Len(frames) + 1
<1>1. /\ Visiting({"FUNC"}) /\ frames' = Append(frames, new)
      /\ UNCHANGED <<prog, symbols, tables, listTable, node, error>>
  BY DEF VisitFunction
<1>2. /\ frames # <<>> /\ error = "none" /\ Stmt = prog[Frame.list][Frame.at] /\ Stmt.kind = "FUNC"
      /\ Frame.list \in DOMAIN prog /\ Frame.at \in DOMAIN prog[Frame.list] /\ StageIs(externKind, node)
  BY <1>1, VisitFacts
<1>3. b \in DOMAIN prog
  BY <1>1, BodyTable
<1>4. /\ Len(frames) \in Nat \ {0} /\ DOMAIN frames = 1 .. Len(frames) /\ frames \in Seq(FrameRecords)
      /\ Len(frames) \in DOMAIN frames /\ Frame = frames[Len(frames)] /\ Frame.at \in Nat
  BY <1>2, FrameFacts, PlaceFacts DEF ScopesInv, Typed, Frame
<1>5. node = 0
  BY <1>2 DEF StageIs
<1>6. new.list = b /\ new.at = 1 /\ new.returns = returnType
  OBVIOUS
<1>7. \A s \in DOMAIN symbols : symbols[s].decl[1] # b
  <2>1. EnteredInOrder(Len(frames))
    BY <1>2, <1>4 DEF ResolutionInv, Searched, VisitedInOrder
  <2>2. ASSUME NEW s \in DOMAIN symbols, symbols[s].decl[1] = b PROVE FALSE
    <3>1. Frame.at < Frame.at \/ (Frame.at = Frame.at /\ Len(frames) # Len(frames))
      BY <1>2, <1>4, <2>1, <2>2 DEF EnteredInOrder
    <3>2. QED
      BY <1>4, <3>1
  <2>3. QED
    BY <2>2
<1> HIDE DEF new, b
<1>8. /\ Len(frames') = n /\ DOMAIN frames' = 1 .. n /\ frames'[n] = new
      /\ \A f \in DOMAIN frames : f \in DOMAIN frames' /\ frames'[f] = frames[f]
  BY <1>1, <1>4
<1>9. /\ \A f \in DOMAIN frames' : f \in DOMAIN frames \/ f = n
      /\ \A f \in DOMAIN frames : f # n
  BY <1>4, <1>8
<1>10. Frame' = frames'[n]
  BY <1>8 DEF Frame
<1>11. QED
  BY <1>1, <1>2, <1>3, <1>5, <1>6, <1>7, <1>8, <1>9, <1>10 DEF EnterEffect, b

(* A list is left for the next place of the one around.                       *)
LeaveEffect ==
  /\ frames # <<>> /\ Len(frames') = Len(frames) - 1 /\ Len(frames) \in Nat \ {0}
  /\ DOMAIN frames' = 1 .. Len(frames) - 1
  /\ \A f \in DOMAIN frames' :
       /\ f \in DOMAIN frames /\ f # Len(frames) /\ f + 1 \in DOMAIN frames /\ f \in Nat
       /\ frames'[f].list = frames[f].list /\ frames'[f].returns = frames[f].returns
       /\ frames'[f].at = IF f = Len(frames) - 1 THEN frames[f].at + 1 ELSE frames[f].at
  /\ returnType' = frames[Len(frames)].returns /\ node' = 0
  /\ UNCHANGED <<prog, symbols, tables, listTable, error>>

(* That is how a list ends, with an error or without.                         *)
LEMMA LeaveFacts ==
  ASSUME ScopesInv, EndList \/ Unwind
  PROVE  LeaveEffect
<1>1. frames # <<>> /\ Restored /\ UNCHANGED <<prog, symbols, tables, listTable, error>>
  BY DEF EndList, Unwind, Going
<1>2. /\ Len(frames') = Len(frames) - 1 /\ DOMAIN frames' = 1 .. Len(frames) - 1
      /\ \A f \in DOMAIN frames' :
           f \in DOMAIN frames /\ frames'[f].list = frames[f].list /\ frames'[f].returns = frames[f].returns
      /\ returnType' = Frame.returns /\ node' = 0
  BY <1>1, RestoredFacts DEF ScopesInv
<1>3. \A f \in DOMAIN frames' : frames'[f].at = IF f = Len(frames) - 1 THEN frames[f].at + 1 ELSE frames[f].at
  BY <1>1, RestoredPlaces DEF ScopesInv
<1>4. Len(frames) \in Nat \ {0} /\ DOMAIN frames = 1 .. Len(frames) /\ Frame = frames[Len(frames)]
  BY <1>1, FrameFacts, LastFrame DEF ScopesInv
<1>5. \A f \in DOMAIN frames' : f # Len(frames) /\ f + 1 \in DOMAIN frames /\ f \in Nat
  BY <1>2, <1>4
<1>6. QED
  BY <1>1, <1>2, <1>3, <1>4, <1>5 DEF LeaveEffect

(* The module's list is entered.                                             *)
AnalyseEffect ==
  /\ frames = <<>> /\ symbols = <<>> /\ DOMAIN symbols = {} /\ returnType = "none" /\ node = 0
  /\ Len(frames') = 1 /\ DOMAIN frames' = {1} /\ frames' # <<>>
  /\ frames'[1].list = 1 /\ frames'[1].at = 1 /\ Frame' = frames'[1]
  /\ UNCHANGED <<prog, symbols, node, returnType, error>>

(* That is how the analysis begins.                                           *)
LEMMA AnalyseFacts ==
  ASSUME ScopesInv, ResolutionInv, Analyse, error = "none"
  PROVE  AnalyseEffect
<1> DEFINE frame == [list |-> 1, at |-> 1, table |-> table, returns |-> returnType]
<1>1. tables = <<>> /\ frames' = <<frame>> /\ UNCHANGED <<prog, symbols, node, returnType, error>>
  BY DEF Analyse
<1>2. frames = <<>> /\ returnType = "none" /\ node = 0
  BY <1>1 DEF ScopesInv, Typed, Nested, Staged
<1>3. frame.list = 1 /\ frame.at = 1
  OBVIOUS
<1> HIDE DEF frame
<1>4. Len(frames') = 1 /\ DOMAIN frames' = {1} /\ frames'[1] = frame /\ frames' # <<>>
  BY <1>1
<1>5. DOMAIN symbols = {}
  <2>1. listTable \in [DOMAIN prog -> {0}]
    BY <1>1 DEF ScopesInv, Typed
  <2>2. QED
    BY <2>1 DEF ResolutionInv, Searched, SymbolsPlaced
<1>6. symbols = <<>>
  BY <1>5 DEF ScopesInv, Typed
<1>7. QED
  BY <1>1, <1>2, <1>3, <1>4, <1>5, <1>6 DEF AnalyseEffect, Frame

-----------------------------------------------------------------------------
(* m_returnType.                                                             *)

(* m_returnType stays as long as the list does.                               *)
LEMMA ReturnsInList ==
  ASSUME ScopesInv, ReturnTypes, InList
  PROVE  ReturnTypes'
<1>1. DOMAIN frames = 1 .. Len(frames) /\ Len(frames) \in Nat
  BY FrameFacts DEF ScopesInv, InList
<1>2. ASSUME NEW f \in DOMAIN frames PROVE InnerReturns(f)' = InnerReturns(f)
  <2>1. CASE f = Len(frames)
    BY <2>1 DEF InList, InnerReturns
  <2>2. CASE f # Len(frames)
    <3>1. f + 1 \in DOMAIN frames
      BY <1>1, <2>2
    <3>2. QED
      BY <2>2, <3>1 DEF InList, InnerReturns
  <2>3. QED
    BY <2>1, <2>2
<1>3. QED
  BY <1>2 DEF ReturnTypes, InList

(* A body returns what its function says.                                     *)
LEMMA ReturnsEntered ==
  ASSUME ScopesInv, ResolutionInv, ReturnTypes, VisitFunction
  PROVE  ReturnTypes'
<1> DEFINE n == Len(frames) + 1
<1>1. EnterEffect
  BY EnterFacts
<1>2. /\ Visiting({"FUNC"}) /\ returnType' = IF Stmt.returns THEN "value" ELSE "void"
  BY DEF VisitFunction
<1>3. /\ Stmt.kind = "FUNC" /\ Stmt = prog[Frame.list][Frame.at] /\ Frame.list \in DOMAIN prog
      /\ Frame.at \in DOMAIN prog[Frame.list] /\ IsProgram(prog)
  BY <1>2, VisitFacts DEF ScopesInv, Typed
<1>4. Home(prog, Stmt.body) = <<Frame.list, Frame.at>> /\ Stmt.body # 1
  BY <1>3, HomeIs
<1>5. FunctionAt(prog, Stmt.body) = Stmt
  BY <1>3, <1>4 DEF FunctionAt
<1>6. returnType' = ReturnsOf(prog, Stmt.body)
  BY <1>2, <1>4, <1>5 DEF ReturnsOf
<1>7. ASSUME NEW f \in DOMAIN frames' PROVE InnerReturns(f)' = ReturnsOf(prog, frames'[f].list)
  <2>1. CASE f = n
    BY <1>1, <1>6, <2>1 DEF EnterEffect, InnerReturns
  <2>2. CASE f # n
    <3>1. f \in DOMAIN frames /\ frames'[f] = frames[f] /\ f # Len(frames')
      BY <1>1, <2>2 DEF EnterEffect
    <3>2. InnerReturns(f)' = InnerReturns(f)
      <4>1. CASE f = Len(frames)
        BY <1>1, <3>1, <4>1 DEF EnterEffect, InnerReturns
      <4>2. CASE f # Len(frames)
        <5>1. f + 1 \in DOMAIN frames
          BY <3>1, <4>2, FrameFacts DEF ScopesInv
        <5>2. QED
          BY <1>1, <3>1, <4>2, <5>1 DEF EnterEffect, InnerReturns
      <4>3. QED
        BY <4>1, <4>2
    <3>3. QED
      BY <3>1, <3>2 DEF ReturnTypes
  <2>3. QED
    BY <2>1, <2>2
<1>8. QED
  BY <1>1, <1>7 DEF ReturnTypes, EnterEffect

(* And the restorer gives the list around its own back.                       *)
LEMMA ReturnsLeft ==
  ASSUME ScopesInv, ReturnTypes, EndList \/ Unwind
  PROVE  ReturnTypes'
<1>1. LeaveEffect
  BY LeaveFacts
<1>2. ASSUME NEW f \in DOMAIN frames' PROVE InnerReturns(f)' = InnerReturns(f)
  <2>1. /\ f \in DOMAIN frames /\ f # Len(frames) /\ f \in Nat /\ f + 1 \in DOMAIN frames
        /\ Len(frames') = Len(frames) - 1 /\ Len(frames) \in Nat /\ DOMAIN frames' = 1 .. Len(frames) - 1
    BY <1>1 DEF LeaveEffect
  <2>2. CASE f = Len(frames')
    <3>1. f + 1 = Len(frames)
      BY <2>1, <2>2
    <3>2. QED
      BY <1>1, <2>1, <2>2, <3>1 DEF LeaveEffect, InnerReturns
  <2>3. CASE f # Len(frames')
    <3>1. f + 1 \in DOMAIN frames'
      BY <2>1, <2>3
    <3>2. QED
      BY <1>1, <2>1, <2>3, <3>1 DEF LeaveEffect, InnerReturns
  <2>4. QED
    BY <2>2, <2>3
<1>3. QED
  BY <1>1, <1>2 DEF ReturnTypes, LeaveEffect

(* At module level there is nothing to return from.                          *)
LEMMA ReturnsAnalysed ==
  ASSUME ScopesInv, Analyse
  PROVE  ReturnTypes'
<1> DEFINE frame == [list |-> 1, at |-> 1, table |-> table, returns |-> returnType]
<1>1. tables = <<>> /\ frames' = <<frame>> /\ returnType' = returnType
  BY DEF Analyse
<1>2. returnType = "none"
  BY <1>1 DEF ScopesInv, Typed, Nested
<1>3. frame.list = 1
  OBVIOUS
<1> HIDE DEF frame
<1>4. Len(frames') = 1 /\ DOMAIN frames' = {1} /\ frames'[1] = frame
  BY <1>1
<1>5. QED
  BY <1>1, <1>2, <1>3, <1>4 DEF ReturnTypes, InnerReturns, ReturnsOf

(* The steps that neither enter nor leave a list stay in it.                  *)
LEMMA StepsInList ==
  ASSUME ScopesInv, SemaNext
  PROVE  Analyse \/ VisitFunction \/ EndList \/ Unwind \/ InList
<1>1. ASSUME NEW decl, NEW key, Declare(decl, key)
      PROVE  UNCHANGED <<prog, frames, returnType>>
  BY <1>1 DEF Declare, Refuse
<1>2. CASE DeclareNext
  BY <1>1, <1>2, StillInList DEF DeclareNext, Going
<1>3. CASE DeclareExtern
  BY <1>1, <1>3, StillInList DEF DeclareExtern, Visiting, Going
<1>4. CASE DefineNext \/ DefineExtern
  BY <1>4, StillInList DEF DefineNext, DefineExtern, Visiting, Going
<1>5. CASE BeginDim \/ RefuseReturn \/ BeginExtern \/ EndLinkage
  BY <1>5, StillInList DEF BeginDim, RefuseReturn, Refuse, BeginExtern, EndLinkage, Visiting, Going
<1>6. CASE VisitNode
  <2>1. UNCHANGED <<prog, frames, returnType>> /\ frames # <<>>
    BY <1>6 DEF VisitNode, Refuse, Visiting, Going
  <2>2. QED
    BY <2>1, StillInList
<1>7. CASE VisitDeclare \/ EndDim \/ EndStatement \/ EndExtern
  BY <1>7, FinishInList DEF VisitDeclare, EndDim, EndStatement, EndExtern, Visiting, Going
<1>8. QED
  BY <1>2, <1>3, <1>4, <1>5, <1>6, <1>7 DEF SemaNext

(* So m_returnType is always that of the body visited.                       *)
LEMMA ReturnsKept ==
  ASSUME ScopesInv, ResolutionInv, ReturnTypes, SemaNext
  PROVE  ReturnTypes'
BY StepsInList, ReturnsAnalysed, ReturnsEntered, ReturnsLeft, ReturnsInList

-----------------------------------------------------------------------------
(* What the steps do to the symbols.                                         *)

(* One is declared...                                                        *)
Adds(key) ==
  /\ key[1] = Frame.list /\ key[4] = 0 /\ KeyStands(prog, key)
  /\ DOMAIN symbols' = DOMAIN symbols \cup {Len(symbols) + 1}
  /\ \A s \in DOMAIN symbols : symbols'[s] = symbols[s]
  /\ LET new == symbols'[Len(symbols) + 1]
     IN new.decl = key /\ new.status = "Declared" /\ SymbolTold(prog, new)
  /\ UNCHANGED <<prog, frames>>

(* ... or the one of a declaration gets its status, and its parameters theirs. *)
Marks(key, status) ==
  /\ key[1] = Frame.list /\ key[4] = 0 /\ KeyStands(prog, key)
  /\ SymbolOf(key) \in DOMAIN symbols
  /\ \A s \in DOMAIN symbols : symbols[s].decl = key <=> s = SymbolOf(key)
  /\ DOMAIN symbols \subseteq DOMAIN symbols'
  /\ \A s \in DOMAIN symbols : /\ symbols'[s].decl = symbols[s].decl /\ symbols'[s].role = symbols[s].role
                               /\ s # SymbolOf(key) => symbols'[s] = symbols[s]
  /\ symbols'[SymbolOf(key)].status = status
  /\ \A s \in NewSymbols : symbols'[s].decl[4] # 0 /\ SymbolTold(prog, symbols'[s])
  /\ status = "Defined" /\ IsFuncDecl(DeclOf(prog, key)) => DefinitionFits(prog, key)
  /\ prog' = prog

(* What declare() does that finds the name free.                             *)
LEMMA DeclareAdds ==
  ASSUME ScopesInv, frames # <<>>, NEW decl, NEW key, Declare(decl, key), error' = "none",
         key[1] = Frame.list, key[4] = 0, KeyStands(prog, key), DeclOf(prog, key) = decl
  PROVE  Adds(key)
<1> DEFINE role == IF IsFuncDecl(decl) THEN "function" ELSE "variable"
           new == Symbol(decl.name, key, role, externKind, IF externKind = "C" THEN decl.source ELSE "", "Declared")
<1>1. symbols' = Append(symbols, new) /\ UNCHANGED <<prog, frames>>
  BY DEF Declare, Refuse, Insert
<1>2. new.decl = key /\ new.role = role /\ new.status = "Declared"
  BY DEF Symbol
<1>3. role = RoleOf(prog, key)
  BY DEF RoleOf
<1> HIDE DEF role, new
<1>4. Len(symbols) \in Nat /\ DOMAIN symbols = 1 .. Len(symbols) /\ symbols \in Seq(SymbolRecords)
  BY SymbolFacts DEF ScopesInv, Typed
<1>5. /\ DOMAIN symbols' = DOMAIN symbols \cup {Len(symbols) + 1}
      /\ \A s \in DOMAIN symbols : symbols'[s] = symbols[s]
      /\ symbols'[Len(symbols) + 1] = new
  BY <1>1, <1>4
<1>6. SymbolTold(prog, new)
  BY <1>2, <1>3 DEF SymbolTold
<1>7. QED
  BY <1>1, <1>2, <1>5, <1>6 DEF Adds

(* A declaration of the list.                                                *)
LEMMA DeclareNextAdds ==
  ASSUME ScopesInv, DeclareNext, error' = "none"
  PROVE  \E i \in Undeclared : Adds(Key(Frame.list, i))
<1> DEFINE i == First(Undeclared)
           decl == prog[Frame.list][i]
           key == Key(Frame.list, i)
<1>1. Going /\ Undeclared # {} /\ Declare(decl, key)
  BY DEF DeclareNext, Key
<1>2. /\ frames # <<>> /\ error = "none" /\ Frame.list \in DOMAIN prog
      /\ DOMAIN prog[Frame.list] \subseteq Nat
  BY <1>1, WaitingFacts
<1>3. i \in Undeclared /\ i \in DOMAIN prog[Frame.list] /\ IsDecl(decl)
  <2>1. Undeclared \subseteq Nat
    BY <1>2 DEF Undeclared
  <2>2. i \in Undeclared
    BY <1>1, <2>1, FirstIsOne
  <2>3. QED
    BY <2>2 DEF Undeclared
<1>4. key[1] = Frame.list /\ key[2] = i /\ key[3] = 0 /\ key[4] = 0
  BY DEF Key
<1> HIDE DEF i, key
<1>5. KeyStands(prog, key) /\ DeclOf(prog, key) = decl
  BY <1>2, <1>3, <1>4 DEF KeyStands, DeclOf
<1> HIDE DEF decl
<1>6. Adds(key)
  BY <1>1, <1>2, <1>4, <1>5, DeclareAdds
<1>7. QED
  BY <1>3, <1>6 DEF key

(* A declaration of an EXTERN block.                                         *)
LEMMA DeclareExternAdds ==
  ASSUME ScopesInv, DeclareExtern, error' = "none"
  PROVE  Adds(DeclHere(node)) /\ node' = node + 1
<1> DEFINE decl == Stmt.decls[node]
           key == DeclHere(node)
<1>1. Visiting({"EXTERN"}) /\ node \in 1 .. Len(Stmt.decls) /\ Declare(decl, key)
  BY DEF DeclareExtern
<1>2. /\ frames # <<>> /\ error = "none" /\ Stmt.kind = "EXTERN" /\ node \in Nat
      /\ Frame.list \in DOMAIN prog /\ Frame.at \in DOMAIN prog[Frame.list]
      /\ Stmt = prog[Frame.list][Frame.at] /\ DOMAIN Stmt.decls = 1 .. Len(Stmt.decls)
  BY <1>1, VisitFacts
<1>3. key[1] = Frame.list /\ key[2] = Frame.at /\ key[3] = node /\ key[4] = 0
  BY DEF DeclHere
<1>4. node # 0 /\ node \in DOMAIN Stmt.decls
  BY <1>1, <1>2
<1>5. node' = node + 1
  BY DEF DeclareExtern, Declare, Refuse
<1> HIDE DEF key
<1>6. KeyStands(prog, key) /\ DeclOf(prog, key) = decl
  BY <1>2, <1>3, <1>4 DEF KeyStands, DeclOf
<1> HIDE DEF decl
<1>7. Adds(key)
  BY <1>1, <1>2, <1>3, <1>6, DeclareAdds
<1>8. QED
  BY <1>5, <1>7 DEF key

(* DIM marks its variable.                                                   *)
LEMMA DimMarks ==
  ASSUME ScopesInv, Visiting({"DIM"}), NEW status \in {"Declared", "BeingDefined", "Defined"},
         symbols' = [symbols EXCEPT ![SymbolOf(DeclHere(0))].status = status], prog' = prog
  PROVE  Marks(DeclHere(0), status) /\ NewSymbols = {}
<1> DEFINE key == DeclHere(0)
           s == SymbolOf(key)
<1>1. /\ frames # <<>> /\ Undeclared = {} /\ Stmt = prog[Frame.list][Frame.at] /\ Stmt.kind = "DIM"
      /\ Frame.at \in DOMAIN prog[Frame.list] /\ Frame.list \in DOMAIN prog
  BY VisitFacts
<1>2. SymbolsOf(key) # {}
  BY <1>1 DEF Undeclared, DeclHere, IsDecl
<1>3. key[1] = Frame.list /\ key[2] = Frame.at /\ key[3] = 0 /\ key[4] = 0
  BY DEF DeclHere
<1>4. symbols \in Seq(SymbolRecords) /\ symbols' = [symbols EXCEPT ![s].status = status]
  BY DEF ScopesInv, Typed
<1> HIDE DEF key
<1>5. s \in DOMAIN symbols /\ symbols[s].decl = key
  BY <1>2, SymbolOfIs
<1>6. \A t \in DOMAIN symbols : symbols[t].decl = key <=> t = s
  BY <1>3, <1>5 DEF ScopesInv, DeclaredOnce, Plain
<1>7. KeyStands(prog, key) /\ ~IsFuncDecl(DeclOf(prog, key))
  BY <1>1, <1>3 DEF KeyStands, DeclOf, IsDecl, IsFuncDecl
<1> HIDE DEF s
<1>8. /\ SymbolsGrow /\ NewSymbols = {} /\ symbols'[s].status = status
      /\ \A t \in DOMAIN symbols : t # s => symbols'[t] = symbols[t]
  BY <1>4, <1>5, MarkedSymbol
<1>9. QED
  BY <1>3, <1>5, <1>6, <1>7, <1>8 DEF Marks, SymbolsGrow, s, key

(* What accept(AstFuncDecl&) marks.                                           *)
LEMMA DefineMarks ==
  ASSUME ScopesInv, NEW decl \in Statements, IsFuncDecl(decl),
         NEW key \in Nat \X Nat \X Nat \X Nat, DefineMade(decl, key),
         key[1] = Frame.list, key[4] = 0, KeyStands(prog, key), DeclOf(prog, key) = decl,
         SymbolsOf(key) # {}, \A s, t \in SymbolsOf(key) : s = t
  PROVE  Marks(key, "Defined")
<1> DEFINE s == SymbolOf(key)
<1>1. s \in DOMAIN symbols /\ symbols[s].decl = key
  BY SymbolOfIs
<1>2. \A t \in DOMAIN symbols : symbols[t].decl = key <=> t = s
  BY <1>1 DEF SymbolsOf
<1>3. DefinitionFits(prog, key)
  <2>1. decl.variadic => key[3] # 0
    BY <1>1 DEF DefineMade, ScopesInv, LinkageStaysInside
  <2>2. QED
    BY <2>1 DEF DefinitionFits, DefineMade
<1>4. decl.params \in Seq(STRING) /\ DOMAIN decl.params \subseteq Nat \ {0}
  <2>1. decl.params \in Seq(STRING)
    BY KindFacts
  <2>2. QED
    BY <2>1
<1>5. ASSUME NEW t \in NewSymbols PROVE symbols'[t].decl[4] # 0 /\ SymbolTold(prog, symbols'[t])
  <2>1. PICK p \in DOMAIN decl.params : t = Len(symbols) + p
    BY <1>5 DEF DefineMade
  <2> DEFINE mine == <<key[1], key[2], key[3], p>>
  <2>2. symbols'[t].decl = mine /\ symbols'[t].role = "param" /\ symbols'[t].status = "Defined"
    BY <2>1 DEF DefineMade
  <2>3. mine[1] = key[1] /\ mine[2] = key[2] /\ mine[3] = key[3] /\ mine[4] = p /\ p # 0
    BY <1>4
  <2> HIDE DEF mine
  <2>4. KeyStands(prog, mine)
    BY <2>3 DEF KeyStands
  <2>5. RoleOf(prog, mine) = "param"
    BY <2>3 DEF RoleOf
  <2>6. QED
    BY <2>2, <2>3, <2>4, <2>5 DEF SymbolTold
<1>6. QED
  BY <1>1, <1>2, <1>3, <1>5 DEF Marks, DefineMade, SymbolsGrow

(* A function of the list.                                                   *)
LEMMA DefineNextMarks ==
  ASSUME ScopesInv, DefineNext, error' = "none"
  PROVE  \E i \in Undefined : Marks(Key(Frame.list, i), "Defined")
<1> DEFINE i == First(Undefined)
           decl == prog[Frame.list][i]
           key == Key(Frame.list, i)
<1>1. Going /\ Undeclared = {} /\ Undefined # {} /\ DefineFunction(decl, key) /\ prog' = prog
  BY DEF DefineNext, Key
<1>2. /\ frames # <<>> /\ Frame.list \in DOMAIN prog
      /\ DOMAIN prog[Frame.list] \subseteq Nat /\ DOMAIN prog \subseteq Nat
  BY <1>1, WaitingFacts
<1>3. i \in Undefined /\ i \in DOMAIN prog[Frame.list] /\ IsFuncDecl(decl)
  <2>1. Undefined \subseteq Nat
    BY <1>2 DEF Undefined
  <2>2. i \in Undefined
    BY <1>1, <2>1, FirstIsOne
  <2>3. QED
    BY <2>2 DEF Undefined
<1>4. decl \in Statements /\ Typed
  <2>1. IsProgram(prog)
    BY DEF ScopesInv, Typed
  <2>2. QED
    BY <1>2, <1>3, <2>1, StatementFacts DEF ScopesInv
<1>5. SymbolsOf(key) # {}
  BY <1>1, <1>3 DEF Undeclared, IsDecl, IsFuncDecl, Key
<1>6. /\ key \in Nat \X Nat \X Nat \X Nat /\ key[1] = Frame.list /\ key[2] = i /\ key[3] = 0 /\ key[4] = 0
  BY <1>2, <1>3 DEF Key
<1> HIDE DEF key, i
<1>7. KeyStands(prog, key) /\ DeclOf(prog, key) = decl
  BY <1>2, <1>3, <1>6 DEF KeyStands, DeclOf, IsDecl, IsFuncDecl
<1>8. \A s, t \in SymbolsOf(key) : s = t
  BY <1>6 DEF SymbolsOf, ScopesInv, DeclaredOnce, Plain
<1> HIDE DEF decl
<1>9. DefineMade(decl, key)
  BY <1>1, <1>3, <1>4, <1>5, <1>6, DefineMakes
<1>10. Marks(key, "Defined")
  BY <1>3, <1>4, <1>5, <1>6, <1>7, <1>8, <1>9, DefineMarks
<1>11. QED
  BY <1>3, <1>10 DEF key

(* A function of an EXTERN block, whose name tells it from the others.         *)
LEMMA DefineExternMarks ==
  ASSUME ScopesInv, ResolutionInv, DefineExtern, error' = "none"
  PROVE  /\ node - Len(Stmt.decls) - 1 \in DOMAIN Stmt.decls /\ node' = node + 1
         /\ Marks(DeclHere(node - Len(Stmt.decls) - 1), "Defined")
<1> DEFINE k == node - Len(Stmt.decls) - 1
           decl == Stmt.decls[k]
           key == DeclHere(k)
<1>1. /\ Visiting({"EXTERN"}) /\ node \in Len(Stmt.decls) + 2 .. 2 * Len(Stmt.decls) + 1
      /\ DefineFunction(decl, key) /\ prog' = prog /\ node' = node + 1
  BY DEF DefineExtern
<1>2. /\ frames # <<>> /\ error = "none" /\ Stmt.kind = "EXTERN" /\ StageIs(externKind, node) /\ AtStatement
      /\ Frame.list \in DOMAIN prog /\ Frame.at \in DOMAIN prog[Frame.list]
      /\ Stmt = prog[Frame.list][Frame.at]
      /\ Stmt.decls \in Seq(Prototypes) /\ Len(Stmt.decls) \in Nat
      /\ DOMAIN Stmt.decls = 1 .. Len(Stmt.decls) /\ node \in Nat
  BY <1>1, VisitFacts
<1>3. k \in DOMAIN Stmt.decls /\ k < node /\ k # 0 /\ k \in Nat
  <2> DEFINE m == Len(Stmt.decls)
  <2>1. m \in Nat /\ node \in m + 2 .. 2 * m + 1 /\ DOMAIN Stmt.decls = 1 .. m
    BY <1>1, <1>2
  <2> HIDE DEF m
  <2>2. node - m - 1 \in 1 .. m /\ node - m - 1 < node /\ node - m - 1 # 0 /\ node - m - 1 \in Nat
    BY <2>1
  <2>3. QED
    BY <2>1, <2>2 DEF m
<1>4. decl \in Statements /\ decl.kind = "DECLARE" /\ IsFuncDecl(decl) /\ Typed
  BY <1>2, <1>3, PrototypeFacts DEF ScopesInv
<1>5. key = <<Frame.list, Frame.at, k, 0>>
  BY DEF DeclHere
<1>6. /\ key \in Nat \X Nat \X Nat \X Nat
      /\ key[1] = Frame.list /\ key[2] = Frame.at /\ key[3] = k /\ key[4] = 0
  <2>1. IsProgram(prog)
    BY DEF ScopesInv, Typed
  <2>2. Frame.list \in Nat /\ Frame.at \in Nat
    BY <1>2, <2>1, StatementFacts
  <2> HIDE DEF k, key
  <2>3. QED
    BY <1>3, <1>5, <2>2
<1>7. SymbolsOf(key) # {}
  BY <1>2, <1>3 DEF StageIs
<1>8. key \in Belonging(Frame.list)
  BY <1>2, <1>3, <1>5 DEF Belonging, Linked
<1> HIDE DEF key, k
<1>9. KeyStands(prog, key) /\ DeclOf(prog, key) = decl
  BY <1>2, <1>3, <1>6 DEF KeyStands, DeclOf
<1>10. \A s, t \in SymbolsOf(key) : s = t
  <2>1. listTable[Frame.list] # 0
    BY <1>2, LastFrame DEF ScopesInv, Nested, InnerTable
  <2>2. Complete(Frame.list)
    BY <1>2, <2>1 DEF ResolutionInv, Searched, TablesHold
  <2>3. QED
    BY <1>8, <2>2 DEF Complete, SymbolsOf
<1> HIDE DEF decl
<1>11. DefineMade(decl, key)
  BY <1>1, <1>4, <1>6, <1>7, DefineMakes
<1>12. Marks(key, "Defined")
  BY <1>4, <1>6, <1>7, <1>9, <1>10, <1>11, DefineMarks
<1>13. QED
  BY <1>1, <1>3, <1>12 DEF key, k

(* So the symbols go on saying what they are.                                *)
LEMMA AddedTold ==
  ASSUME SymbolsTold, NEW key, Adds(key)
  PROVE  SymbolsTold'
BY DEF SymbolsTold, Adds

(* The same when one is marked.                                              *)
LEMMA MarkedTold ==
  ASSUME SymbolsTold, NEW key, NEW status, Marks(key, status)
  PROVE  SymbolsTold'
<1>1. ASSUME NEW s \in DOMAIN symbols PROVE SymbolTold(prog, symbols'[s])
  <2>1. SymbolTold(prog, symbols[s])
    BY DEF SymbolsTold
  <2>2. symbols'[s].decl = symbols[s].decl /\ symbols'[s].role = symbols[s].role
    BY DEF Marks
  <2>3. CASE s = SymbolOf(key)
    <3>1. symbols[s].decl = key /\ symbols'[s].status = status /\ key[4] = 0
      BY <2>3 DEF Marks
    <3>2. QED
      BY <2>1, <2>2, <3>1 DEF SymbolTold, Marks
  <2>4. CASE s # SymbolOf(key)
    BY <2>1, <2>4 DEF Marks
  <2>5. QED
    BY <2>3, <2>4
<1>2. QED
  BY <1>1 DEF SymbolsTold, Marks, NewSymbols

-----------------------------------------------------------------------------
(* What the symbols, the frames and node tell.                               *)

(* A list is visited in one frame only.                                      *)
LEMMA OtherLists ==
  ASSUME ScopesInv, frames # <<>>, NEW f \in DOMAIN frames, f # Len(frames)
  PROVE  frames[f].list # Frame.list
<1>1. /\ f < Len(frames) /\ Len(frames) \in DOMAIN frames /\ Frame = frames[Len(frames)]
  <2>1. DOMAIN frames = 1 .. Len(frames) /\ Len(frames) \in Nat
    BY FrameFacts DEF ScopesInv
  <2>2. QED
    BY <2>1, LastFrame
<1>2. frames[f].list < frames[Len(frames)].list
  BY <1>1 DEF ScopesInv, Nested
<1>3. frames[f].list \in Nat
  BY PlaceFacts
<1>4. QED
  BY <1>1, <1>2, <1>3

(* Finish goes one statement on.                                             *)
LEMMA FinishPlace ==
  ASSUME ScopesInv, frames # <<>>, Finish
  PROVE  /\ node' = 0 /\ frames' # <<>> /\ DOMAIN frames' = DOMAIN frames /\ Len(frames') = Len(frames)
         /\ Frame' = frames'[Len(frames)] /\ Frame'.list = Frame.list /\ Frame'.at = Frame.at + 1
         /\ \A f \in DOMAIN frames : f # Len(frames) => frames'[f] = frames[f]
<1> DEFINE n == Len(frames)
           next == [frames[n] EXCEPT !.at = @ + 1]
<1>1. Len(frames') = n /\ DOMAIN frames' = DOMAIN frames /\ frames' # <<>> /\ node' = 0
  BY FinishFacts DEF ScopesInv
<1>2. n \in DOMAIN frames /\ frames[n] \in FrameRecords /\ Frame = frames[n]
  BY FrameFacts, LastFrame DEF ScopesInv
<1>3. next.at = frames[n].at + 1 /\ next.list = frames[n].list
  BY <1>2 DEF FrameRecords
<1>4. frames' = [frames EXCEPT ![n] = next]
  BY DEF Finish
<1> HIDE DEF next
<1>5. frames'[n] = next /\ \A f \in DOMAIN frames : f # n => frames'[f] = frames[f]
  BY <1>2, <1>4
<1>6. Frame' = frames'[n]
  BY <1>1 DEF Frame
<1>7. QED
  BY <1>1, <1>2, <1>3, <1>5, <1>6

(* What a symbol's status tells once the statement at hand is passed.         *)
LEMMA NextTold ==
  ASSUME NEW p, NEW symbol, NEW frame, NEW next, NEW inner, next.list = frame.list, next.at = frame.at + 1,
         frame.at \in Nat, symbol.decl[2] \in Nat, StatusTold(p, frame, symbol, inner),
         symbol.decl[1] = frame.list /\ symbol.decl[4] = 0 /\ symbol.decl[2] = frame.at =>
           symbol.status = "Defined" \/ (symbol.decl[3] = 0 /\ DeclOf(p, symbol.decl).kind # "DIM")
  PROVE  StatusTold(p, next, symbol, TRUE)
<1>1. symbol.decl[2] < next.at <=> symbol.decl[2] < frame.at \/ symbol.decl[2] = frame.at
  OBVIOUS
<1>2. CASE symbol.decl[2] = frame.at
  <2>1. ~(symbol.decl[2] < frame.at)
    BY <1>2
  <2>2. symbol.decl[2] < next.at
    BY <1>2
  <2>3. QED
    BY <1>2, <2>1, <2>2 DEF StatusTold
<1>3. CASE symbol.decl[2] # frame.at
  BY <1>1, <1>3 DEF StatusTold
<1>4. QED
  BY <1>2, <1>3

(* Where a list goes on, no symbol of an EXTERN block is made yet.            *)
LEMMA FreshBlock ==
  ASSUME SymbolsTold',
         \A s \in DOMAIN symbols' :
           symbols'[s].decl[1] = Frame'.list /\ symbols'[s].decl[3] # 0 /\ symbols'[s].decl[4] = 0 =>
             symbols'[s].decl[2] # Frame'.at
  PROVE  BlockTells'
<1>1. ASSUME Stmt'.kind = "EXTERN", NEW s \in DOMAIN symbols', symbols'[s].decl[1] = Frame'.list,
             symbols'[s].decl[2] = Frame'.at, symbols'[s].decl[4] = 0
      PROVE  FALSE
  <2>1. symbols'[s].decl[3] = 0
    BY <1>1
  <2>2. IsDecl(prog'[Frame'.list][Frame'.at])
    BY <1>1, <2>1 DEF SymbolsTold, SymbolTold, KeyStands
  <2>3. QED
    BY <1>1, <2>2 DEF IsDecl, Stmt
<1>2. QED
  BY <1>1 DEF BlockTells, BlockTold

(* A statement is passed whose symbols, if it has any, are defined.           *)
LEMMA FinishTells ==
  ASSUME ScopesInv, Searched, frames # <<>>, Finish, prog' = prog,
         StatusesTold, SymbolsTold', DOMAIN symbols' = DOMAIN symbols,
         \A s \in DOMAIN symbols :
           /\ symbols'[s].decl = symbols[s].decl
           /\ symbols'[s] = symbols[s] \/ (symbols[s].decl[1] = Frame.list /\ symbols[s].decl[2] = Frame.at
                                           /\ symbols'[s].status = "Defined"),
         \A s \in DOMAIN symbols :
           symbols[s].decl[1] = Frame.list /\ symbols[s].decl[2] = Frame.at /\ symbols[s].decl[4] = 0 =>
             \/ symbols'[s].status = "Defined"
             \/ symbols[s].decl[3] = 0 /\ DeclOf(prog, symbols[s].decl).kind # "DIM"
  PROVE  StatusesTold' /\ BlockTells' /\ NodesFit'
<1> DEFINE n == Len(frames)
<1>1. /\ node' = 0 /\ frames' # <<>> /\ DOMAIN frames' = DOMAIN frames /\ Len(frames') = n
      /\ Frame' = frames'[n] /\ Frame'.list = Frame.list /\ Frame'.at = Frame.at + 1
      /\ \A f \in DOMAIN frames : f # n => frames'[f] = frames[f]
  BY FinishPlace
<1>2. n \in DOMAIN frames /\ Frame = frames[n] /\ Frame.at \in Nat
  BY LastFrame, PlaceFacts
<1> HIDE DEF n
<1>3. NodesFit'
  BY <1>1 DEF NodesFit
<1>4. BlockTells'
  <2>1. NotLinkedAfter(n)
    BY <1>2 DEF Searched, VisitedInOrder
  <2>2. ASSUME NEW s \in DOMAIN symbols', symbols'[s].decl[1] = Frame'.list, symbols'[s].decl[3] # 0,
               symbols'[s].decl[4] = 0
        PROVE  symbols'[s].decl[2] # Frame'.at
    <3>1. symbols[s].decl[2] <= Frame.at
      BY <1>1, <1>2, <2>1, <2>2 DEF NotLinkedAfter
    <3>2. symbols'[s].decl[2] = symbols[s].decl[2] /\ symbols[s].decl[2] \in Nat
      BY <2>2, KeyIs
    <3>3. QED
      BY <1>1, <1>2, <3>1, <3>2
  <2>3. QED
    BY <2>2, FreshBlock
<1>5. ASSUME NEW f \in DOMAIN frames, NEW s \in DOMAIN symbols
      PROVE  StatusTold(prog, frames'[f], symbols'[s], f = n)
  <2>1. StatusTold(prog, frames[f], symbols[s], f = n)
    BY DEF StatusesTold, n
  <2>2. symbols[s].decl[2] \in Nat /\ symbols'[s].decl = symbols[s].decl
    BY KeyIs
  <2>3. CASE f # n
    <3>1. frames[f].list # Frame.list
      BY <2>3, OtherLists DEF n
    <3>2. frames'[f] = frames[f]
      BY <1>1, <2>3
    <3>3. CASE symbols'[s] = symbols[s]
      BY <2>1, <3>2, <3>3
    <3>4. CASE symbols[s].decl[1] = Frame.list
      BY <2>2, <3>1, <3>2, <3>4 DEF StatusTold
    <3>5. QED
      BY <3>3, <3>4
  <2>4. CASE f = n /\ symbols'[s] = symbols[s]
    <3> DEFINE symbol == symbols[s]
               next == frames'[f]
    <3>1. next.list = Frame.list /\ next.at = Frame.at + 1 /\ symbol.decl[2] \in Nat
      BY <1>1, <2>2, <2>4
    <3>2. StatusTold(prog, Frame, symbol, f = n)
      BY <1>2, <2>1, <2>4
    <3>3. symbol.decl[1] = Frame.list /\ symbol.decl[4] = 0 /\ symbol.decl[2] = Frame.at =>
            symbol.status = "Defined" \/ (symbol.decl[3] = 0 /\ DeclOf(prog, symbol.decl).kind # "DIM")
      BY <2>4
    <3>4. symbols'[s] = symbol
      BY <2>4
    <3> HIDE DEF symbol, next
    <3>5. StatusTold(prog, next, symbol, TRUE)
      BY <1>2, <3>1, <3>2, <3>3, NextTold
    <3>6. f = n
      BY <2>4
    <3>7. QED
      BY <3>4, <3>5, <3>6 DEF next
  <2>5. CASE f = n /\ symbols[s].decl[2] = Frame.at /\ symbols'[s].status = "Defined"
    <3>1. frames'[f].at = Frame.at + 1 /\ symbols'[s].decl[2] = Frame.at
      BY <1>1, <2>2, <2>5
    <3>2. symbols'[s].decl[2] < frames'[f].at
      BY <1>2, <3>1
    <3>3. QED
      BY <2>5, <3>2 DEF StatusTold
  <2>6. QED
    BY <2>3, <2>4, <2>5
<1>6. StatusesTold'
  BY <1>1, <1>5 DEF StatusesTold
<1>7. QED
  BY <1>3, <1>4, <1>6

(* All of it.                                                               *)
Told == SymbolsTold /\ StatusesTold /\ BlockTells /\ NodesFit

(* The statements that change no symbol.                                     *)
LEMMA PassTells ==
  ASSUME ScopesInv, ResolutionInv, Told, VisitDeclare \/ EndStatement \/ EndExtern
  PROVE  Told'
<1>1. /\ \/ Visiting({"DECLARE"}) \/ Visiting({"EXPR", "ASSIGN", "RETURN"})
         \/ Visiting({"EXTERN"}) /\ node = 2 * Len(Stmt.decls) + 2
      /\ Finish /\ UNCHANGED <<prog, symbols>>
  BY DEF VisitDeclare, EndStatement, EndExtern
<1>2. /\ frames # <<>> /\ error = "none" /\ Going /\ AtStatement
      /\ Stmt.kind \in {"DECLARE", "EXPR", "ASSIGN", "RETURN", "EXTERN"} /\ Stmt = prog[Frame.list][Frame.at]
      /\ Stmt.kind = "EXTERN" => Len(Stmt.decls) \in Nat /\ DOMAIN Stmt.decls = 1 .. Len(Stmt.decls)
                                 /\ node = 2 * Len(Stmt.decls) + 2
  <2>1. CASE Visiting({"DECLARE"})
    BY <2>1, VisitFacts
  <2>2. CASE Visiting({"EXPR", "ASSIGN", "RETURN"})
    BY <2>2, VisitFacts
  <2>3. CASE Visiting({"EXTERN"}) /\ node = 2 * Len(Stmt.decls) + 2
    BY <2>3, VisitFacts
  <2>4. QED
    BY <1>1, <2>1, <2>2, <2>3
<1>3. Searched
  BY <1>2 DEF ResolutionInv
<1>4. ASSUME NEW s \in DOMAIN symbols, symbols[s].decl[1] = Frame.list, symbols[s].decl[2] = Frame.at,
             symbols[s].decl[4] = 0
      PROVE  \/ symbols[s].status = "Defined"
             \/ symbols[s].decl[3] = 0 /\ DeclOf(prog, symbols[s].decl).kind # "DIM"
  <2>1. KeyStands(prog, symbols[s].decl)
    BY DEF Told, SymbolsTold, SymbolTold
  <2>2. CASE symbols[s].decl[3] = 0
    BY <1>2, <1>4, <2>2 DEF DeclOf
  <2>3. CASE symbols[s].decl[3] # 0
    <3> DEFINE k == symbols[s].decl[3]
               m == Len(Stmt.decls)
    <3>1. Stmt.kind = "EXTERN" /\ k \in DOMAIN Stmt.decls
      BY <1>2, <1>4, <2>1, <2>3 DEF KeyStands
    <3>2. m \in Nat /\ k \in 1 .. m /\ node = 2 * m + 2
      BY <1>2, <3>1
    <3>3. BlockTold(Frame, symbols[s], node, m)
      BY <1>2, <3>1 DEF Told, BlockTells
    <3> HIDE DEF k, m
    <3>4. k + m + 1 < node
      BY <3>2
    <3>5. QED
      BY <1>4, <3>3, <3>4 DEF BlockTold, k
  <2>4. QED
    BY <2>2, <2>3
<1>5. SymbolsTold'
  BY <1>1 DEF Told, SymbolsTold
<1>6. StatusesTold' /\ BlockTells' /\ NodesFit'
  BY <1>1, <1>2, <1>3, <1>4, <1>5, FinishTells DEF Told
<1>7. QED
  BY <1>5, <1>6 DEF Told

(* A variable is defined once its initialiser is passed.                     *)
LEMMA EndDimTells ==
  ASSUME ScopesInv, ResolutionInv, Told, EndDim
  PROVE  Told'
<1> DEFINE key == DeclHere(0)
           s0 == SymbolOf(key)
<1>1. /\ Visiting({"DIM"}) /\ Finish /\ prog' = prog
      /\ symbols' = [symbols EXCEPT ![s0].status = "Defined"]
  BY DEF EndDim
<1>2. /\ frames # <<>> /\ error = "none" /\ Stmt.kind = "DIM" /\ Stmt = prog[Frame.list][Frame.at]
  BY <1>1, VisitFacts
<1>3. Searched
  BY <1>2 DEF ResolutionInv
<1>4. Marks(key, "Defined") /\ NewSymbols = {}
  BY <1>1, DimMarks
<1>5. key[1] = Frame.list /\ key[2] = Frame.at /\ key[3] = 0 /\ key[4] = 0 /\ key = Key(Frame.list, Frame.at)
  BY DEF DeclHere, Key
<1> HIDE DEF key
<1>6. SymbolsTold'
  BY <1>4, MarkedTold DEF Told
<1>7. DOMAIN symbols' = DOMAIN symbols
  BY <1>4 DEF Marks, NewSymbols
<1> HIDE DEF s0
<1>8. ASSUME NEW s \in DOMAIN symbols
      PROVE  /\ symbols'[s].decl = symbols[s].decl
             /\ symbols'[s] = symbols[s] \/ (symbols[s].decl[1] = Frame.list /\ symbols[s].decl[2] = Frame.at
                                             /\ symbols'[s].status = "Defined")
  <2>1. symbols'[s].decl = symbols[s].decl /\ (s # s0 => symbols'[s] = symbols[s])
    BY <1>4 DEF Marks, s0
  <2>2. s = s0 => symbols[s].decl = key /\ symbols'[s].status = "Defined"
    BY <1>4 DEF Marks, s0
  <2>3. QED
    BY <1>5, <2>1, <2>2
<1>9. ASSUME NEW s \in DOMAIN symbols, symbols[s].decl[1] = Frame.list, symbols[s].decl[2] = Frame.at,
             symbols[s].decl[4] = 0
      PROVE  symbols'[s].status = "Defined"
  <2>1. KeyStands(prog, symbols[s].decl)
    BY DEF Told, SymbolsTold, SymbolTold
  <2>2. symbols[s].decl[3] = 0
    BY <1>2, <1>9, <2>1 DEF KeyStands
  <2>3. symbols[s].decl = key
    BY <1>5, <1>9, <2>2, KeyIs DEF Plain
  <2>4. QED
    BY <1>4, <2>3 DEF Marks
<1>10. StatusesTold' /\ BlockTells' /\ NodesFit'
  BY <1>1, <1>2, <1>3, <1>6, <1>7, <1>8, <1>9, FinishTells DEF Told
<1>11. QED
  BY <1>6, <1>10 DEF Told

(* One is marked at the place where the visit is.                            *)
LEMMA MarkTells ==
  ASSUME ScopesInv, frames # <<>>, StatusesTold, NEW key, NEW status, Marks(key, status), frames' = frames,
         DeclOf(prog, key).kind = "DIM" => (status = "Defined" <=> key[2] < Frame.at),
         key[3] # 0 /\ key[2] < Frame.at => status = "Defined"
  PROVE  StatusesTold'
<1>1. Len(frames) \in DOMAIN frames /\ Frame = frames[Len(frames)]
  BY LastFrame
<1>2. ASSUME NEW f \in DOMAIN frames, NEW s \in DOMAIN symbols'
      PROVE  StatusTold(prog, frames[f], symbols'[s], f = Len(frames))
  <2>1. CASE s \in NewSymbols
    BY <2>1 DEF Marks, StatusTold
  <2>2. CASE s \in DOMAIN symbols /\ s # SymbolOf(key)
    BY <2>2 DEF Marks, StatusesTold
  <2>3. CASE s = SymbolOf(key)
    <3>1. symbols'[s].decl = key /\ key[1] = Frame.list /\ symbols'[s].status = status
      BY <2>3 DEF Marks
    <3>2. CASE f = Len(frames)
      BY <1>1, <3>1, <3>2 DEF StatusTold
    <3>3. CASE f # Len(frames)
      BY <3>1, <3>3, OtherLists DEF StatusTold
    <3>4. QED
      BY <3>2, <3>3
  <2>4. QED
    BY <2>1, <2>2, <2>3 DEF NewSymbols
<1>3. QED
  BY <1>2 DEF StatusesTold, Marks

(* One is declared there or later.                                           *)
LEMMA AddTells ==
  ASSUME ScopesInv, frames # <<>>, StatusesTold, NEW key, Adds(key), ~(key[2] < Frame.at)
  PROVE  StatusesTold'
<1>1. Len(frames) \in DOMAIN frames /\ Frame = frames[Len(frames)] /\ frames' = frames /\ prog' = prog
  BY LastFrame DEF Adds
<1>2. ASSUME NEW f \in DOMAIN frames, NEW s \in DOMAIN symbols'
      PROVE  StatusTold(prog, frames[f], symbols'[s], f = Len(frames))
  <2>1. CASE s \in DOMAIN symbols
    BY <2>1 DEF Adds, StatusesTold
  <2>2. CASE s = Len(symbols) + 1
    <3>1. symbols'[s].decl = key /\ key[1] = Frame.list /\ symbols'[s].status = "Declared"
      BY <2>2 DEF Adds
    <3>2. CASE f = Len(frames)
      BY <1>1, <3>1, <3>2 DEF StatusTold
    <3>3. CASE f # Len(frames)
      BY <3>1, <3>3, OtherLists DEF StatusTold
    <3>4. QED
      BY <3>2, <3>3
  <2>3. QED
    BY <2>1, <2>2 DEF Adds
<1>3. QED
  BY <1>1, <1>2 DEF StatusesTold

(* Before an initialiser.                                                    *)
LEMMA BeginDimTells ==
  ASSUME ScopesInv, Told, BeginDim
  PROVE  Told'
<1> DEFINE key == DeclHere(0)
<1>1. /\ Visiting({"DIM"}) /\ UNCHANGED <<prog, frames, node, error>>
      /\ symbols' = [symbols EXCEPT ![SymbolOf(key)].status = "BeingDefined"]
  BY DEF BeginDim
<1>2. frames # <<>> /\ Stmt.kind = "DIM" /\ Frame.at \in Nat
  BY <1>1, VisitFacts, FrameFacts DEF ScopesInv
<1>3. Marks(key, "BeingDefined")
  BY <1>1, DimMarks
<1>4. key[2] = Frame.at /\ ~(key[2] < Frame.at)
  BY <1>2 DEF DeclHere
<1>5. SymbolsTold'
  BY <1>3, MarkedTold DEF Told
<1> HIDE DEF key
<1>6. StatusesTold'
  BY <1>1, <1>2, <1>3, <1>4, MarkTells DEF Told
<1>7. BlockTells' /\ NodesFit'
  BY <1>1, <1>2 DEF Told, BlockTells, NodesFit, Frame, Stmt, AtStatement, Going, Here
<1>8. QED
  BY <1>5, <1>6, <1>7 DEF Told

(* A node that is let through.                                               *)
LEMMA VisitNodeTells ==
  ASSUME ScopesInv, ResolutionInv, Told, VisitNode, error' = "none"
  PROVE  Told'
<1>1. /\ Visiting({"DIM", "EXPR", "ASSIGN", "RETURN"}) /\ Going /\ AtStatement /\ node \in Nat
      /\ Stmt.kind # "EXTERN"
  BY NodeFacts, VisitFacts DEF Told
<1>2. NodeRefused(Stmt.expr[node + 1]) = "none" /\ node' = node + 1 /\ UNCHANGED <<prog, symbols, frames>>
  BY DEF VisitNode, Refuse
<1>3. NodeFits(prog, Here, node + 1)
  BY <1>2, NodeTold DEF Told
<1>4. ASSUME NEW j \in 1 .. node + 1, j \in DOMAIN Stmt.expr PROVE NodeFits(prog, Here, j)
  <2>1. j \in 1 .. node \/ j = node + 1
    BY <1>1
  <2>2. QED
    BY <1>1, <1>3, <1>4, <2>1 DEF Told, NodesFit
<1>5. NodesFit'
  BY <1>2, <1>4 DEF NodesFit, Here, Stmt, Frame
<1>6. SymbolsTold' /\ StatusesTold'
  BY <1>2 DEF Told, SymbolsTold, StatusesTold
<1>7. BlockTells'
  BY <1>1, <1>2 DEF BlockTells, Stmt, Frame
<1>8. QED
  BY <1>5, <1>6, <1>7 DEF Told

(* The linkage switched on and off.                                          *)
LEMMA LinkageTells ==
  ASSUME ScopesInv, Told, BeginExtern \/ EndLinkage
  PROVE  Told'
<1>1. /\ Visiting({"EXTERN"}) /\ UNCHANGED <<prog, symbols, frames>>
      /\ \/ node = 0 /\ node' = 1
         \/ node = Len(Stmt.decls) + 1 /\ node' = node + 1
  BY DEF BeginExtern, EndLinkage
<1>2. /\ frames # <<>> /\ Going /\ AtStatement /\ Stmt \in Statements /\ Stmt.kind = "EXTERN"
      /\ Stmt = prog[Frame.list][Frame.at] /\ Len(Stmt.decls) \in Nat
  BY <1>1, VisitFacts
<1>3. DOMAIN Stmt.expr = {}
  BY <1>2, ExpressionFacts
<1>4. SymbolsTold' /\ StatusesTold' /\ NodesFit'
  BY <1>1, <1>3 DEF Told, SymbolsTold, StatusesTold, NodesFit, Stmt, Frame
<1>5. ASSUME NEW s \in DOMAIN symbols PROVE BlockTold(Frame, symbols[s], node', Len(Stmt.decls))
  <2> DEFINE k == symbols[s].decl[3]
             m == Len(Stmt.decls)
  <2>1. BlockTold(Frame, symbols[s], node, m)
    BY <1>2 DEF Told, BlockTells
  <2>2. SUFFICES ASSUME symbols[s].decl[1] = Frame.list, symbols[s].decl[2] = Frame.at, symbols[s].decl[4] = 0
                 PROVE  k < node' /\ ~(k + m + 1 < node')
    BY DEF BlockTold
  <2>3. k \in Nat /\ k < node /\ m \in Nat
    BY <1>2, <2>1, <2>2, KeyIs DEF BlockTold
  <2>4. k # 0
    <3>1. KeyStands(prog, symbols[s].decl)
      BY DEF Told, SymbolsTold, SymbolTold
    <3>2. QED
      BY <1>2, <2>2, <3>1 DEF KeyStands, IsDecl
  <2>5. (node = 0 /\ node' = 1) \/ (node = m + 1 /\ node' = node + 1)
    BY <1>1
  <2> HIDE DEF k, m
  <2>6. QED
    BY <2>3, <2>4, <2>5
<1>6. BlockTells'
  BY <1>1, <1>5 DEF BlockTells, Stmt, Frame
<1>7. QED
  BY <1>4, <1>6 DEF Told

(* A declaration of the list, which has passed none that is not declared.     *)
LEMMA DeclareNextTells ==
  ASSUME ScopesInv, Told, PlacesPassed, DeclareNext, error' = "none"
  PROVE  Told'
<1>1. PICK i \in Undeclared : Adds(Key(Frame.list, i))
  BY DeclareNextAdds
<1> DEFINE key == Key(Frame.list, i)
           n == Len(frames)
<1>2. Going /\ frames # <<>> /\ Undeclared # {} /\ node' = node
  BY DEF DeclareNext, Going
<1>3. /\ n \in DOMAIN frames /\ Frame = frames[n] /\ Frame.at \in Nat /\ Frame.list \in DOMAIN prog
      /\ DOMAIN prog[Frame.list] \subseteq Nat
  BY <1>2, LastFrame, PlaceFacts
<1>4. /\ i \in DOMAIN prog[Frame.list] /\ IsDecl(prog[Frame.list][i]) /\ SymbolsOf(key) = {}
      /\ i \in Nat
  BY <1>3 DEF Undeclared, Key
<1>5. ~(i < Frame.at)
  <2>1. PICK done : Left(done)
    BY DEF PlacesPassed
  <2>2. i < Frame.at => HasSymbols(Frame.list, i)
    BY <1>3, <1>4, <2>1 DEF Left, Passed
  <2>3. QED
    BY <1>4, <2>2 DEF HasSymbols
<1>6. key[1] = Frame.list /\ key[2] = i /\ key[3] = 0 /\ key[4] = 0
  BY DEF Key
<1>7. node = 0
  BY <1>2 DEF ScopesInv, Staged
<1> HIDE DEF key, n
<1>8. Adds(key)
  BY <1>1 DEF key
<1>9. SymbolsTold' /\ StatusesTold'
  BY <1>2, <1>5, <1>6, <1>8, AddTells, AddedTold DEF Told
<1>10. NodesFit'
  BY <1>2, <1>7 DEF NodesFit
<1>11. ASSUME AtStatement, Stmt.kind = "EXTERN", NEW s \in DOMAIN symbols'
       PROVE  BlockTold(Frame, symbols'[s], node, Len(Stmt.decls))
  <2>1. CASE s \in DOMAIN symbols
    BY <1>2, <1>8, <1>11, <2>1 DEF Told, BlockTells, Adds
  <2>2. CASE s = Len(symbols) + 1
    <3>1. symbols'[s].decl = key
      BY <1>8, <2>2 DEF Adds
    <3>2. i # Frame.at
      BY <1>4, <1>11 DEF Stmt, IsDecl
    <3>3. QED
      BY <1>6, <3>1, <3>2 DEF BlockTold
  <2>3. QED
    BY <1>8, <2>1, <2>2 DEF Adds
<1>12. UNCHANGED <<prog, frames>>
  BY <1>8 DEF Adds
<1>13. BlockTells'
  BY <1>2, <1>11, <1>12 DEF BlockTells, Stmt, Frame, AtStatement
<1>14. QED
  BY <1>9, <1>10, <1>13 DEF Told

(* A declaration of an EXTERN block.                                         *)
LEMMA DeclareExternTells ==
  ASSUME ScopesInv, Told, DeclareExtern, error' = "none"
  PROVE  Told'
<1> DEFINE key == DeclHere(node)
           m == Len(Stmt.decls)
<1>1. Adds(key) /\ node' = node + 1
  BY DeclareExternAdds
<1>2. Visiting({"EXTERN"}) /\ node \in 1 .. m
  BY DEF DeclareExtern
<1>3. /\ frames # <<>> /\ Going /\ AtStatement /\ Stmt \in Statements /\ Stmt.kind = "EXTERN"
      /\ Stmt = prog[Frame.list][Frame.at] /\ m \in Nat /\ node \in Nat
  BY <1>2, VisitFacts
<1>4. Frame.at \in Nat /\ DOMAIN Stmt.expr = {}
  BY <1>3, FrameFacts, ExpressionFacts DEF ScopesInv
<1>5. key[1] = Frame.list /\ key[2] = Frame.at /\ key[3] = node /\ key[4] = 0
  BY DEF DeclHere
<1>6. ~(key[2] < Frame.at) /\ UNCHANGED <<prog, frames>>
  BY <1>1, <1>4, <1>5 DEF Adds
<1> HIDE DEF key
<1>7. SymbolsTold' /\ StatusesTold'
  BY <1>1, <1>3, <1>6, AddTells, AddedTold DEF Told
<1>8. NodesFit'
  BY <1>4, <1>6 DEF NodesFit, Stmt, Frame
<1>9. ASSUME NEW s \in DOMAIN symbols' PROVE BlockTold(Frame, symbols'[s], node + 1, m)
  <2>1. CASE s \in DOMAIN symbols
    <3>1. BlockTold(Frame, symbols[s], node, m) /\ symbols'[s] = symbols[s] /\ symbols[s].decl[3] \in Nat
      BY <1>1, <1>3, <2>1, KeyIs DEF Told, BlockTells, Adds
    <3> DEFINE k == symbols[s].decl[3]
    <3>2. k \in Nat
      BY <3>1
    <3> HIDE DEF k, m
    <3>3. k < node => k < node + 1 /\ ~(k + m + 1 < node + 1)
      BY <1>2, <1>3, <3>2
    <3>4. QED
      BY <3>1, <3>3 DEF BlockTold, k
  <2>2. CASE s = Len(symbols) + 1
    <3>1. symbols'[s].decl[3] = node
      BY <1>1, <1>5, <2>2 DEF Adds
    <3>2. node < node + 1 /\ ~(node + m + 1 < node + 1)
      BY <1>3
    <3>3. QED
      BY <3>1, <3>2 DEF BlockTold
  <2>3. QED
    BY <1>1, <2>1, <2>2 DEF Adds
<1>10. BlockTells'
  BY <1>1, <1>6, <1>9 DEF BlockTells, Stmt, Frame
<1>11. QED
  BY <1>7, <1>8, <1>10 DEF Told

(* A function of the list.                                                   *)
LEMMA DefineNextTells ==
  ASSUME ScopesInv, Told, DefineNext, error' = "none"
  PROVE  Told'
<1>1. PICK i \in Undefined : Marks(Key(Frame.list, i), "Defined")
  BY DefineNextMarks
<1> DEFINE key == Key(Frame.list, i)
<1>2. Going /\ frames # <<>> /\ Undefined # {} /\ UNCHANGED <<prog, frames, node>>
  BY DEF DefineNext, Going
<1>3. IsFuncDecl(prog[Frame.list][i])
  BY DEF Undefined
<1>4. key[1] = Frame.list /\ key[2] = i /\ key[3] = 0 /\ key[4] = 0
  BY DEF Key
<1>5. node = 0
  BY <1>2 DEF ScopesInv, Staged
<1> HIDE DEF key
<1>6. Marks(key, "Defined")
  BY <1>1 DEF key
<1>7. DeclOf(prog, key).kind # "DIM"
  BY <1>3, <1>4 DEF DeclOf, IsFuncDecl
<1>8. SymbolsTold' /\ StatusesTold'
  BY <1>2, <1>4, <1>6, <1>7, MarkTells, MarkedTold DEF Told
<1>9. NodesFit'
  BY <1>2, <1>5 DEF NodesFit
<1>10. ASSUME AtStatement, Stmt.kind = "EXTERN", NEW s \in DOMAIN symbols'
       PROVE  BlockTold(Frame, symbols'[s], node, Len(Stmt.decls))
  <2>1. CASE s \in DOMAIN symbols
    <3>1. BlockTold(Frame, symbols[s], node, Len(Stmt.decls)) /\ symbols[s].decl[3] \in Nat
      BY <1>2, <1>10, <2>1, KeyIs DEF Told, BlockTells
    <3>2. symbols'[s].decl = symbols[s].decl
      BY <1>6, <2>1 DEF Marks
    <3>3. ~(symbols[s].decl[3] < node)
      BY <1>5, <3>1
    <3>4. QED
      BY <3>1, <3>2, <3>3 DEF BlockTold
  <2>2. CASE s \in NewSymbols
    BY <1>6, <2>2 DEF Marks, BlockTold
  <2>3. QED
    BY <2>1, <2>2 DEF NewSymbols
<1>11. BlockTells'
  BY <1>2, <1>10 DEF BlockTells, Stmt, Frame, AtStatement
<1>12. QED
  BY <1>8, <1>9, <1>11 DEF Told

(* A function of an EXTERN block.                                            *)
LEMMA DefineExternTells ==
  ASSUME ScopesInv, ResolutionInv, Told, DefineExtern, error' = "none"
  PROVE  Told'
<1> DEFINE m == Len(Stmt.decls)
           k == node - m - 1
           key == DeclHere(k)
<1>1. k \in DOMAIN Stmt.decls /\ node' = node + 1 /\ Marks(key, "Defined")
  BY DefineExternMarks
<1>2. Visiting({"EXTERN"}) /\ UNCHANGED <<prog, frames>>
  BY DEF DefineExtern
<1>3. /\ frames # <<>> /\ Going /\ AtStatement /\ Stmt \in Statements /\ Stmt.kind = "EXTERN"
      /\ Stmt = prog[Frame.list][Frame.at] /\ m \in Nat /\ node \in Nat
  BY <1>2, VisitFacts
<1>4. /\ Frame.at \in Nat /\ DOMAIN Stmt.expr = {} /\ Stmt.decls \in Seq(Prototypes)
      /\ DOMAIN Stmt.decls = 1 .. m
  BY <1>2, <1>3, VisitFacts, FrameFacts, ExpressionFacts DEF ScopesInv
<1>5. key[1] = Frame.list /\ key[2] = Frame.at /\ key[3] = k /\ key[4] = 0
  BY DEF DeclHere
<1>6. key = <<Frame.list, Frame.at, k, 0>>
  BY DEF DeclHere
<1> HIDE DEF key
<1>7. ~(key[2] < Frame.at)
  BY <1>4, <1>5
<1>8. DeclOf(prog, key).kind # "DIM"
  <2>1. k # 0
    BY <1>1, <1>4
  <2>2. DeclOf(prog, key) = Stmt.decls[k]
    BY <1>3, <1>5, <2>1 DEF DeclOf
  <2>3. QED
    BY <1>1, <1>4, <2>2, PrototypeFacts
<1>9. SymbolsTold' /\ StatusesTold'
  BY <1>1, <1>2, <1>3, <1>7, <1>8, MarkTells, MarkedTold DEF Told
<1>10. NodesFit'
  BY <1>2, <1>4 DEF NodesFit, Stmt, Frame
<1>11. ASSUME NEW s \in DOMAIN symbols' PROVE BlockTold(Frame, symbols'[s], node + 1, m)
  <2>1. CASE s \in NewSymbols
    BY <1>1, <2>1 DEF Marks, BlockTold
  <2>2. CASE s \in DOMAIN symbols
    <3> DEFINE h == symbols[s].decl[3]
    <3>1. /\ BlockTold(Frame, symbols[s], node, m) /\ symbols'[s].decl = symbols[s].decl /\ h \in Nat
          /\ symbols[s].decl = <<symbols[s].decl[1], symbols[s].decl[2], h, symbols[s].decl[4]>>
      BY <1>1, <1>3, <2>2, KeyIs DEF Told, BlockTells, Marks
    <3> HIDE DEF h, m, k
    <3>2. /\ h < node => h < node + 1
          /\ h + m + 1 < node + 1 => h + m + 1 < node \/ h = node - m - 1
      BY <1>3, <3>1
    <3>3. CASE s = SymbolOf(key)
      BY <1>1, <3>1, <3>2, <3>3 DEF BlockTold, Marks, h
    <3>4. CASE s # SymbolOf(key)
      <4>1. symbols'[s] = symbols[s] /\ symbols[s].decl # key
        BY <1>1, <2>2, <3>4 DEF Marks
      <4>2. symbols[s].decl[1] = Frame.list /\ symbols[s].decl[2] = Frame.at /\ symbols[s].decl[4] = 0 => h # k
        BY <1>6, <3>1, <4>1
      <4>3. QED
        BY <3>1, <3>2, <4>1, <4>2 DEF BlockTold, h, k
    <3>5. QED
      BY <3>3, <3>4
  <2>3. QED
    BY <2>1, <2>2 DEF NewSymbols
<1>12. BlockTells'
  BY <1>1, <1>2, <1>11 DEF BlockTells, Stmt, Frame
<1>13. QED
  BY <1>9, <1>10, <1>12 DEF Told

(* A body, in which nothing is declared; the functions around are defined.     *)
LEMMA EnterTells ==
  ASSUME ScopesInv, ResolutionInv, Told, VisitFunction
  PROVE  Told'
<1>1. EnterEffect
  BY EnterFacts
<1> DEFINE n == Len(frames)
<1>2. Visiting({"FUNC"})
  BY DEF VisitFunction
<1>3. frames # <<>> /\ error = "none" /\ Undeclared = {} /\ Undefined = {}
  BY <1>2, VisitFacts
<1>4. Frame = frames[n]
  BY <1>3, LastFrame
<1> HIDE DEF n
<1>5. SymbolsTold' /\ NodesFit'
  BY <1>1 DEF EnterEffect, Told, SymbolsTold, NodesFit
<1>6. BlockTells'
  BY <1>1, <1>5, FreshBlock DEF EnterEffect
<1>7. ASSUME NEW f \in DOMAIN frames, NEW s \in DOMAIN symbols
      PROVE  StatusTold(prog, frames[f], symbols[s], FALSE)
  <2>1. StatusTold(prog, frames[f], symbols[s], f = n)
    BY DEF Told, StatusesTold, n
  <2>2. CASE f # n
    BY <2>1, <2>2 DEF StatusTold
  <2>3. CASE f = n
    <3>1. ASSUME symbols[s].decl[1] = frames[f].list, symbols[s].decl[4] = 0, symbols[s].decl[3] = 0,
                 IsFuncDecl(DeclOf(prog, symbols[s].decl))
          PROVE  symbols[s].status # "Declared"
      <4>1. KeyStands(prog, symbols[s].decl) /\ Plain(symbols[s].decl) /\ symbols[s].decl[1] = Frame.list
        BY <1>4, <2>3, <3>1 DEF Told, SymbolsTold, SymbolTold, Plain
      <4>2. QED
        BY <1>3, <3>1, <4>1, VisitedFunctions
    <3>2. QED
      BY <2>1, <3>1 DEF StatusTold
  <2>4. QED
    BY <2>2, <2>3
<1>8. ASSUME NEW f \in DOMAIN frames', NEW s \in DOMAIN symbols
      PROVE  StatusTold(prog, frames'[f], symbols[s], f = n + 1)
  <2>1. CASE f = n + 1
    BY <1>1, <2>1 DEF EnterEffect, StatusTold, n
  <2>2. CASE f \in DOMAIN frames
    <3>1. frames'[f] = frames[f] /\ (f = n + 1) = FALSE
      BY <1>1, <2>2 DEF EnterEffect, n
    <3>2. StatusTold(prog, frames[f], symbols[s], FALSE)
      BY <1>7, <2>2
    <3>3. QED
      BY <3>1, <3>2
  <2>3. QED
    BY <1>1, <2>1, <2>2 DEF EnterEffect, n
<1>9. StatusesTold'
  BY <1>1, <1>8 DEF StatusesTold, EnterEffect, n
<1>10. QED
  BY <1>5, <1>6, <1>9 DEF Told

(* The list around, whose function is passed.                                *)
LEMMA LeaveTells ==
  ASSUME ScopesInv, ResolutionInv, Told, EndList
  PROVE  Told'
<1>1. LeaveEffect
  BY LeaveFacts
<1> DEFINE n == Len(frames)
           m == Len(frames) - 1
<1>2. error = "none" /\ frames # <<>>
  BY DEF EndList, Going
<1>3. Searched
  BY <1>2 DEF ResolutionInv
<1>4. SymbolsTold' /\ NodesFit'
  BY <1>1 DEF LeaveEffect, Told, SymbolsTold, NodesFit
<1>5. UNCHANGED <<prog, symbols>>
  BY <1>1 DEF LeaveEffect
<1>6. ASSUME m \in DOMAIN frames'
      PROVE  /\ Frame' = frames'[m] /\ m \in DOMAIN frames /\ m # n
             /\ frames'[m].list = frames[m].list /\ frames'[m].at = frames[m].at + 1 /\ frames[m].at \in Nat
             /\ frames[m].at \in DOMAIN prog[frames[m].list] /\ prog[frames[m].list][frames[m].at].kind = "FUNC"
             /\ NotLinkedAfter(m)
  <2>1. /\ Frame' = frames'[m] /\ m \in DOMAIN frames /\ m # n
        /\ frames'[m].list = frames[m].list /\ frames'[m].at = frames[m].at + 1
    BY <1>1, <1>6 DEF LeaveEffect, Frame
  <2>2. StandsAt(m) /\ NotLinkedAfter(m)
    BY <1>3, <2>1 DEF Searched, FramesLinked, VisitedInOrder
  <2>3. frames[m].at \in Nat
    BY <2>1, PlaceFacts
  <2>4. QED
    BY <2>1, <2>2, <2>3 DEF StandsAt
<1>7. BlockTells'
  <2>1. CASE m \in DOMAIN frames'
    <3>1. ASSUME NEW s \in DOMAIN symbols', symbols'[s].decl[1] = Frame'.list, symbols'[s].decl[3] # 0,
                 symbols'[s].decl[4] = 0
          PROVE  symbols'[s].decl[2] # Frame'.at
      <4>1. symbols[s].decl[2] <= frames[m].at /\ symbols[s].decl[2] \in Nat
        BY <1>5, <1>6, <2>1, <3>1, KeyIs DEF NotLinkedAfter
      <4>2. Frame'.at = frames[m].at + 1 /\ frames[m].at \in Nat
        BY <1>6, <2>1
      <4>3. QED
        BY <1>5, <4>1, <4>2
    <3>2. QED
      BY <1>4, <3>1, FreshBlock
  <2>2. CASE m \notin DOMAIN frames'
    <3>1. DOMAIN frames' = {}
      BY <1>1, <2>2 DEF LeaveEffect
    <3>2. frames' = <<>>
      BY <1>1, <3>1 DEF LeaveEffect, EndList, Restored
    <3>3. QED
      BY <3>2 DEF BlockTells, Going
  <2>3. QED
    BY <2>1, <2>2
<1>8. ASSUME NEW f \in DOMAIN frames', NEW s \in DOMAIN symbols
      PROVE  StatusTold(prog, frames'[f], symbols[s], f = m)
  <2>1. f \in DOMAIN frames /\ frames'[f].list = frames[f].list
    BY <1>1 DEF LeaveEffect
  <2>2. StatusTold(prog, frames[f], symbols[s], f = n)
    BY <2>1 DEF Told, StatusesTold
  <2>3. CASE f # m
    <3>1. frames'[f].at = frames[f].at /\ f # n
      BY <1>1, <2>3 DEF LeaveEffect
    <3>2. QED
      BY <2>1, <2>2, <2>3, <3>1 DEF StatusTold
  <2>4. CASE f = m
    <3> DEFINE symbol == symbols[s]
               frame == frames[m]
               next == frames'[m]
    <3>1. /\ next.list = frame.list /\ next.at = frame.at + 1 /\ frame.at \in Nat /\ symbol.decl[2] \in Nat
          /\ prog[frame.list][frame.at].kind = "FUNC"
      BY <1>6, <2>4, KeyIs
    <3>2. StatusTold(prog, frame, symbol, f = n)
      BY <2>2, <2>4
    <3>3. KeyStands(prog, symbol.decl)
      BY DEF Told, SymbolsTold, SymbolTold
    <3> HIDE DEF symbol, frame, next
    <3>4. symbol.decl[1] = frame.list /\ symbol.decl[4] = 0 /\ symbol.decl[2] = frame.at =>
            symbol.decl[3] = 0 /\ DeclOf(prog, symbol.decl).kind # "DIM"
      BY <3>1, <3>3 DEF KeyStands, DeclOf
    <3>5. StatusTold(prog, next, symbol, TRUE)
      BY <3>1, <3>2, <3>4, NextTold
    <3>6. QED
      BY <2>4, <3>5 DEF symbol, next
  <2>5. QED
    BY <2>3, <2>4
<1>9. StatusesTold'
  BY <1>1, <1>5, <1>8 DEF StatusesTold, LeaveEffect
<1>10. QED
  BY <1>4, <1>7, <1>9 DEF Told

(* The module's list.                                                        *)
LEMMA AnalyseTells ==
  ASSUME ScopesInv, ResolutionInv, Analyse, error = "none"
  PROVE  Told'
<1>1. AnalyseEffect
  BY AnalyseFacts
<1>2. QED
  BY <1>1 DEF AnalyseEffect, Told, SymbolsTold, StatusesTold, BlockTells, NodesFit

(* All the steps.                                                            *)
LEMMA StepsTell ==
  ASSUME ScopesInv, ResolutionInv, Told, PlacesPassed, SemaNext, error' = "none"
  PROVE  Told'
<1>1. CASE Analyse
  BY <1>1, AnalyseTells DEF Analyse
<1>2. CASE DeclareNext \/ DefineNext \/ DeclareExtern \/ DefineExtern
  BY <1>2, DeclareNextTells, DefineNextTells, DeclareExternTells, DefineExternTells
<1>3. CASE VisitDeclare \/ EndStatement \/ EndExtern \/ EndDim \/ BeginDim
  BY <1>3, PassTells, EndDimTells, BeginDimTells
<1>4. CASE RefuseReturn
  BY <1>4 DEF RefuseReturn, Refuse
<1>5. CASE VisitNode \/ VisitFunction \/ BeginExtern \/ EndLinkage \/ EndList
  BY <1>5, VisitNodeTells, EnterTells, LinkageTells, LeaveTells
<1>6. CASE Unwind
  BY <1>6 DEF Unwind
<1>7. QED
  BY <1>1, <1>2, <1>3, <1>4, <1>5, <1>6 DEF SemaNext

-----------------------------------------------------------------------------
(* What has been visited fits.                                               *)

(* EXTERN is left with its functions' signatures in order.                   *)
LEMMA BlockFits ==
  ASSUME ScopesInv, Told, EndExtern
  PROVE  \A k \in DOMAIN Stmt.decls : Fitting(Stmt.decls[k].params) = Len(Stmt.decls[k].params)
<1>1. LinkedHere
  BY LinkedAtEnd
<1>2. Visiting({"EXTERN"}) /\ node = 2 * Len(Stmt.decls) + 2
  BY DEF EndExtern
<1>3. /\ Going /\ AtStatement /\ Stmt.kind = "EXTERN" /\ Stmt = prog[Frame.list][Frame.at]
      /\ Stmt.decls \in Seq(Prototypes) /\ Len(Stmt.decls) \in Nat /\ DOMAIN Stmt.decls = 1 .. Len(Stmt.decls)
  BY <1>2, VisitFacts
<1> DEFINE m == Len(Stmt.decls)
<1>4. m \in Nat /\ node = 2 * m + 2 /\ DOMAIN Stmt.decls = 1 .. m
  BY <1>2, <1>3
<1>5. ASSUME NEW k \in DOMAIN Stmt.decls
      PROVE  Fitting(Stmt.decls[k].params) = Len(Stmt.decls[k].params)
  <2> DEFINE key == DeclHere(k)
  <2>1. SymbolsOf(key) # {}
    BY <1>1, <1>3 DEF LinkedHere
  <2>2. PICK s \in DOMAIN symbols : symbols[s].decl = key
    BY <2>1 DEF SymbolsOf
  <2>3. key[1] = Frame.list /\ key[2] = Frame.at /\ key[3] = k /\ key[4] = 0
    BY DEF DeclHere
  <2> HIDE DEF key, m
  <2>4. k \in 1 .. m
    BY <1>4
  <2>5. k < node /\ k + m + 1 < node /\ k # 0
    BY <1>4, <2>4
  <2>6. BlockTold(Frame, symbols[s], node, m)
    BY <1>3 DEF Told, BlockTells, m
  <2>7. symbols[s].status = "Defined"
    BY <2>2, <2>3, <2>5, <2>6 DEF BlockTold
  <2>8. DeclOf(prog, key) = Stmt.decls[k]
    BY <1>3, <2>3, <2>5 DEF DeclOf
  <2>9. IsFuncDecl(Stmt.decls[k])
    BY <1>3, PrototypeFacts
  <2>10. SymbolTold(prog, symbols[s])
    BY DEF Told, SymbolsTold
  <2>11. QED
    BY <2>2, <2>3, <2>7, <2>8, <2>9, <2>10 DEF SymbolTold, DefinitionFits
<1>6. QED
  BY <1>5

(* DECLARE is passed with its signature in order.                            *)
LEMMA DeclareFits ==
  ASSUME ScopesInv, Told, Visiting({"DECLARE"})
  PROVE  ~Stmt.variadic /\ Fitting(Stmt.params) = Len(Stmt.params)
<1>1. /\ frames # <<>> /\ error = "none" /\ Undeclared = {} /\ Undefined = {}
      /\ Stmt.kind = "DECLARE" /\ Stmt = prog[Frame.list][Frame.at] /\ Frame.at \in DOMAIN prog[Frame.list]
      /\ Stmt \in Statements
  BY VisitFacts
<1> DEFINE key == Key(Frame.list, Frame.at)
<1>2. SymbolsOf(key) # {}
  BY <1>1 DEF Undeclared, IsDecl, Key
<1>3. PICK s \in DOMAIN symbols : symbols[s].decl = key
  BY <1>2 DEF SymbolsOf
<1>4. key[1] = Frame.list /\ key[2] = Frame.at /\ key[3] = 0 /\ key[4] = 0
  BY DEF Key
<1> HIDE DEF key
<1>5. DeclOf(prog, key) = Stmt /\ IsFuncDecl(Stmt) /\ Plain(key)
  BY <1>1, <1>4 DEF DeclOf, IsFuncDecl, Plain
<1>6. SymbolTold(prog, symbols[s])
  BY DEF Told, SymbolsTold
<1>7. symbols[s].status = "Defined"
  BY <1>1, <1>3, <1>4, <1>5, <1>6, VisitedFunctions DEF SymbolTold
<1>8. QED
  BY <1>3, <1>4, <1>5, <1>6, <1>7 DEF SymbolTold, DefinitionFits

(* Each statement fits when it is left.                                      *)
LEMMA StatementFits ==
  ASSUME ScopesInv, ReturnTypes, Told, VisitDeclare \/ EndDim \/ EndStatement \/ EndExtern
  PROVE  /\ PlaceFits(prog, Frame.list, Frame.at) /\ HasSymbols(Frame.list, Frame.at)
         /\ Stmt.kind # "FUNC" /\ frames # <<>> /\ Finish /\ prog' = prog
<1>1. Finish /\ prog' = prog
  BY DEF VisitDeclare, EndDim, EndStatement, EndExtern
<1>2. /\ Going /\ AtStatement /\ frames # <<>> /\ Stmt \in Statements /\ Stmt = prog[Frame.list][Frame.at]
      /\ Undeclared = {} /\ Frame.at \in DOMAIN prog[Frame.list] /\ Frame.list \in DOMAIN prog /\ node \in Nat
      /\ Stmt.kind \in {"DECLARE", "DIM", "EXPR", "ASSIGN", "RETURN", "EXTERN"}
      /\ Stmt.kind = "EXTERN" => DOMAIN Stmt.decls = 1 .. Len(Stmt.decls)
  <2>1. CASE VisitDeclare
    BY <2>1, VisitFacts DEF VisitDeclare
  <2>2. CASE EndDim
    BY <2>2, VisitFacts DEF EndDim
  <2>3. CASE EndStatement
    BY <2>3, VisitFacts DEF EndStatement
  <2>4. CASE EndExtern
    BY <2>4, VisitFacts DEF EndExtern
  <2>5. QED
    BY <2>1, <2>2, <2>3, <2>4
<1>3. Stmt.kind \notin {"DECLARE", "EXTERN"} => node = Len(Stmt.expr)
  BY DEF VisitDeclare, EndDim, EndStatement, EndExtern, Visiting
<1>4. ASSUME NEW j \in DOMAIN Stmt.expr PROVE NodeFits(prog, Here, j)
  <2>1. DOMAIN Stmt.expr = 1 .. Len(Stmt.expr) /\ Stmt.kind \notin {"DECLARE", "EXTERN"}
    BY <1>2, <1>4, ExpressionFacts
  <2>2. j \in 1 .. node
    BY <1>3, <1>4, <2>1
  <2>3. QED
    BY <1>2, <1>4, <2>2 DEF Told, NodesFit
<1>5. Stmt.kind = "RETURN" => ReturnRefused = "none"
  BY DEF VisitDeclare, EndDim, EndStatement, EndExtern, Visiting
<1>6. ReturnFits(prog, <<Frame.list, Frame.at>>)
  <2>1. CASE Stmt.kind = "RETURN"
    BY <1>2, <1>5, <2>1, ReturnTold
  <2>2. CASE Stmt.kind # "RETURN"
    BY <1>2, <2>2 DEF ReturnFits
  <2>3. QED
    BY <2>1, <2>2
<1>7. PrototypesFit(Stmt)
  <2>1. CASE Stmt.kind = "DECLARE"
    <3>1. Visiting({"DECLARE"})
      BY <2>1 DEF VisitDeclare, EndDim, EndStatement, EndExtern, Visiting
    <3>2. QED
      BY <2>1, <3>1, DeclareFits DEF PrototypesFit
  <2>2. CASE Stmt.kind = "EXTERN"
    <3>1. EndExtern
      BY <2>2 DEF VisitDeclare, EndDim, EndStatement, EndExtern, Visiting
    <3>2. QED
      BY <2>2, <3>1, BlockFits DEF PrototypesFit, IsFuncDecl
  <2>3. CASE Stmt.kind \notin {"DECLARE", "EXTERN"}
    BY <1>2, <2>3 DEF PrototypesFit, IsFuncDecl
  <2>4. QED
    BY <2>1, <2>2, <2>3
<1>8. HasSymbols(Frame.list, Frame.at)
  <2>1. IsDecl(Stmt) => SymbolsOf(Key(Frame.list, Frame.at)) # {}
    BY <1>2 DEF Undeclared, Key
  <2>2. ASSUME Stmt.kind = "EXTERN", NEW k \in DOMAIN Stmt.decls
        PROVE  SymbolsOf(<<Frame.list, Frame.at, k, 0>>) # {}
    <3>1. EndExtern
      BY <2>2 DEF VisitDeclare, EndDim, EndStatement, EndExtern, Visiting
    <3>2. LinkedHere
      BY <3>1, LinkedAtEnd
    <3>3. QED
      BY <1>2, <2>2, <3>2 DEF LinkedHere, DeclHere
  <2>3. QED
    BY <1>2, <2>1, <2>2 DEF HasSymbols
<1>9. PlaceFits(prog, Frame.list, Frame.at)
  <2>1. \A j \in DOMAIN prog[Frame.list][Frame.at].expr : NodeFits(prog, <<Frame.list, Frame.at>>, j)
    BY <1>2, <1>4 DEF Here
  <2>2. QED
    BY <1>2, <1>6, <1>7, <2>1 DEF PlaceFits
<1>10. QED
  BY <1>1, <1>2, <1>8, <1>9

(* SUB and FUNCTION fit when their body is left.                             *)
LEMMA FunctionFits ==
  ASSUME ScopesInv, Searched, NEW f \in DOMAIN frames, f # Len(frames)
  PROVE  PlaceFits(prog, frames[f].list, frames[f].at) /\ HasSymbols(frames[f].list, frames[f].at)
<1> DEFINE l == frames[f].list
           i == frames[f].at
<1>1. /\ i \in DOMAIN prog[l] /\ prog[l][i].kind = "FUNC" /\ AllDeclared(f)
  BY DEF Searched, FramesLinked, StandsAt
<1>2. l \in DOMAIN prog /\ IsProgram(prog)
  BY PlaceFacts DEF ScopesInv, Typed
<1>3. SymbolsOf(Key(l, i)) # {}
  BY <1>1 DEF AllDeclared, IsDecl
<1> HIDE DEF l, i
<1>4. prog[l][i] \in Statements
  BY <1>1, <1>2, StatementFacts
<1>5. DOMAIN prog[l][i].expr = {} /\ prog[l][i].variadic = FALSE
  BY <1>1, <1>4, ExpressionFacts, KindFacts
<1> DEFINE at2 == <<l, i>>
<1>6. at2[1] = l /\ at2[2] = i
  OBVIOUS
<1> HIDE DEF at2
<1>7. ReturnFits(prog, at2) /\ PrototypesFit(prog[l][i])
  BY <1>1, <1>5, <1>6 DEF ReturnFits, PrototypesFit
<1>8. PlaceFits(prog, l, i)
  BY <1>5, <1>7 DEF PlaceFits, at2
<1>9. HasSymbols(l, i)
  BY <1>1, <1>3 DEF HasSymbols
<1>10. QED
  BY <1>8, <1>9 DEF l, i

(* What a step keeps of the places passed.                                   *)
Keeps ==
  /\ prog' = prog
  /\ \A key : SymbolsOf(key) # {} => SymbolsOf(key)' # {}
  /\ \A l \in DOMAIN prog : listTable[l] # 0 => listTable'[l] # 0

(* All of them but the first do.                                             *)
LEMMA StepsKeep ==
  ASSUME ScopesInv, ResolutionInv, SemaNext, ~Analyse
  PROVE  Keeps
<1>1. SymbolsGrow /\ prog' = prog
  <2>1. CASE VisitNode
    <3>1. UNCHANGED <<prog, symbols>>
      BY <2>1 DEF VisitNode, Refuse
    <3>2. QED
      BY <3>1 DEF SymbolsGrow, ScopesInv, Typed
  <2>2. CASE ~VisitNode
    BY <2>2, VisitsSearch
  <2>3. QED
    BY <2>1, <2>2
<1>2. ASSUME NEW key, SymbolsOf(key) # {} PROVE SymbolsOf(key)' # {}
  <2>1. PICK s \in DOMAIN symbols : symbols[s].decl = key
    BY <1>2 DEF SymbolsOf
  <2>2. s \in DOMAIN symbols' /\ symbols'[s].decl = key
    BY <1>1, <2>1 DEF SymbolsGrow
  <2>3. QED
    BY <2>2 DEF SymbolsOf
<1>3. ASSUME NEW l \in DOMAIN prog, listTable[l] # 0 PROVE listTable'[l] # 0
  <2>1. ASSUME NEW decl, NEW key, Declare(decl, key) PROVE listTable' = listTable
    BY <2>1 DEF Declare, Refuse
  <2>2. ASSUME NEW decl, NEW key, DefineFunction(decl, key) PROVE listTable'[l] # 0
    <3>1. listTable' = listTable \/ listTable' = [listTable EXCEPT ![decl.body] = Len(tables) + 1]
      BY <2>2 DEF DefineFunction
    <3>2. l \in DOMAIN listTable /\ Len(tables) \in Nat
      BY DEF ScopesInv, Typed
    <3>3. Len(tables) + 1 # 0
      BY <3>2
    <3>4. QED
      BY <1>3, <3>1, <3>2, <3>3
  <2>3. CASE DeclareNext \/ DeclareExtern
    BY <1>3, <2>1, <2>3 DEF DeclareNext, DeclareExtern
  <2>4. CASE DefineNext \/ DefineExtern
    BY <2>2, <2>4 DEF DefineNext, DefineExtern
  <2>5. CASE VisitDeclare \/ BeginDim \/ EndDim \/ EndStatement \/ EndExtern
    BY <1>3, <2>5 DEF VisitDeclare, BeginDim, EndDim, EndStatement, EndExtern
  <2>6. CASE RefuseReturn \/ VisitNode \/ VisitFunction \/ BeginExtern \/ EndLinkage
    BY <1>3, <2>6 DEF RefuseReturn, VisitNode, Refuse, VisitFunction, BeginExtern, EndLinkage
  <2>7. CASE EndList \/ Unwind
    BY <1>3, <2>7 DEF EndList, Unwind
  <2>8. QED
    BY <2>3, <2>4, <2>5, <2>6, <2>7 DEF SemaNext
<1>4. QED
  BY <1>1, <1>2, <1>3 DEF Keeps

(* What is passed stays passed, when more is.                                *)
LEMMA PassedStays ==
  ASSUME Keeps, NEW l, NEW i, NEW done, NEW more, done \subseteq more, Passed(l, i, done)
  PROVE  Passed(l, i, more)'
<1>1. HasSymbols(l, i)'
  BY DEF Passed, HasSymbols, Keeps
<1>2. QED
  BY <1>1 DEF Passed, Keeps

(* A list left behind stays behind.                                          *)
LEMMA BehindStays ==
  ASSUME Keeps, NEW done \in SUBSET DOMAIN prog, NEW more, done \subseteq more, Left(done), NEW l \in done
  PROVE  listTable'[l] # 0 /\ \A i \in DOMAIN prog'[l] : Passed(l, i, more)'
<1>1. listTable'[l] # 0
  BY DEF Left, Keeps
<1>2. ASSUME NEW i \in DOMAIN prog'[l] PROVE Passed(l, i, more)'
  <2>1. Passed(l, i, done)
    BY <1>2 DEF Left, Keeps
  <2>2. QED
    BY <2>1, PassedStays
<1>3. QED
  BY <1>1, <1>2

(* The steps at a statement.                                                 *)
LEMMA PlacesStill ==
  ASSUME Keeps, PlacesPassed, frames # <<>> \/ tables' = tables, frames' = frames
  PROVE  PlacesPassed'
<1>1. PICK done \in SUBSET DOMAIN prog : Left(done)
  BY DEF PlacesPassed
<1>2. ASSUME NEW f \in DOMAIN frames', NEW l, l = frames'[f].list, NEW i \in DOMAIN prog'[l], i < frames'[f].at
      PROVE  Passed(l, i, done)'
  <2>1. Passed(l, i, done)
    BY <1>1, <1>2 DEF Left, Keeps
  <2>2. QED
    BY <2>1, PassedStays
<1>3. \A l \in done : listTable'[l] # 0 /\ \A i \in DOMAIN prog'[l] : Passed(l, i, done)'
  BY <1>1, BehindStays
<1>4. tables' # <<>> /\ frames' = <<>> => 1 \in done
  BY <1>1 DEF Left
<1>5. Left(done)'
  BY <1>2, <1>3, <1>4 DEF Left
<1>6. QED
  BY <1>5 DEF PlacesPassed, Keeps

(* A statement is left.                                                      *)
LEMMA PlacesFinish ==
  ASSUME ScopesInv, ReturnTypes, Told, Keeps, PlacesPassed, VisitDeclare \/ EndDim \/ EndStatement \/ EndExtern
  PROVE  PlacesPassed'
<1> DEFINE n == Len(frames)
           m == Frame.list
           at0 == Frame.at
<1>1. PICK done \in SUBSET DOMAIN prog : Left(done)
  BY DEF PlacesPassed
<1>2. /\ PlaceFits(prog, m, at0) /\ HasSymbols(m, at0)
      /\ Stmt.kind # "FUNC" /\ frames # <<>> /\ Finish /\ prog' = prog
  BY StatementFits
<1>3. /\ frames' # <<>> /\ DOMAIN frames' = DOMAIN frames
      /\ frames'[n].list = m /\ frames'[n].at = at0 + 1
      /\ \A f \in DOMAIN frames : f # n => frames'[f] = frames[f]
  BY <1>2, FinishPlace
<1>4. Frame = frames[n] /\ at0 \in Nat /\ DOMAIN prog[m] \subseteq Nat
  BY <1>2, LastFrame, PlaceFacts
<1>5. Passed(m, at0, done)
  BY <1>2 DEF Passed, Stmt
<1> HIDE DEF n
<1>6. ASSUME NEW f \in DOMAIN frames', NEW l, l = frames'[f].list, NEW i \in DOMAIN prog'[l], i < frames'[f].at
      PROVE  Passed(l, i, done)'
  <2>1. CASE f # n
    <3>1. Passed(l, i, done)
      BY <1>1, <1>3, <1>6, <2>1 DEF Left, Keeps
    <3>2. QED
      BY <3>1, PassedStays
  <2>2. CASE f = n
    <3>1. l = m /\ l = frames[n].list /\ i \in DOMAIN prog[l] /\ i \in Nat /\ i < at0 + 1 /\ n \in DOMAIN frames
      BY <1>2, <1>3, <1>4, <1>6, <2>2
    <3>2. i < at0 \/ i = at0
      BY <1>4, <3>1
    <3>3. CASE i < at0
      <4>1. Passed(l, i, done)
        BY <1>1, <1>4, <3>1, <3>3 DEF Left
      <4>2. QED
        BY <4>1, PassedStays
    <3>4. CASE i = at0
      <4>1. Passed(l, i, done)
        BY <1>5, <3>1, <3>4
      <4>2. QED
        BY <4>1, PassedStays
    <3>5. QED
      BY <3>2, <3>3, <3>4
  <2>3. QED
    BY <2>1, <2>2
<1>7. \A l \in done : listTable'[l] # 0 /\ \A i \in DOMAIN prog'[l] : Passed(l, i, done)'
  BY <1>1, BehindStays
<1>8. Left(done)'
  BY <1>3, <1>6, <1>7 DEF Left
<1>9. QED
  BY <1>2, <1>8 DEF PlacesPassed

(* A body is entered.                                                        *)
LEMMA PlacesEntered ==
  ASSUME ScopesInv, ResolutionInv, Keeps, PlacesPassed, VisitFunction
  PROVE  PlacesPassed'
<1> DEFINE n == Len(frames) + 1
<1>1. PICK done \in SUBSET DOMAIN prog : Left(done)
  BY DEF PlacesPassed
<1>2. EnterEffect
  BY EnterFacts
<1>3. /\ \A f \in DOMAIN frames' : f \in DOMAIN frames \/ f = n
      /\ \A f \in DOMAIN frames : frames'[f] = frames[f]
      /\ frames'[n].at = 1 /\ frames'[n].list \in DOMAIN prog /\ prog' = prog
      /\ n \in DOMAIN frames' /\ frames' # <<>>
  <2>1. frames # <<>> /\ Len(frames) \in Nat
    BY <1>2, FrameFacts DEF EnterEffect, ScopesInv
  <2>2. n \in DOMAIN frames' /\ frames' # <<>>
    BY <1>2, <2>1 DEF EnterEffect
  <2>3. QED
    BY <1>2, <2>2 DEF EnterEffect
<1> HIDE DEF n
<1>4. ASSUME NEW f \in DOMAIN frames', NEW l, l = frames'[f].list, NEW i \in DOMAIN prog'[l], i < frames'[f].at
      PROVE  Passed(l, i, done)'
  <2>1. CASE f \in DOMAIN frames
    <3>1. Passed(l, i, done)
      BY <1>1, <1>3, <1>4, <2>1 DEF Left
    <3>2. QED
      BY <3>1, PassedStays
  <2>2. CASE f = n
    <3>1. l \in DOMAIN prog /\ i \in DOMAIN prog[l] /\ i < 1
      BY <1>3, <1>4, <2>2
    <3>2. DOMAIN prog[l] = 1 .. Len(prog[l])
      BY <3>1, StatementFacts DEF ScopesInv, Typed
    <3>3. QED
      BY <3>1, <3>2
  <2>3. QED
    BY <1>3, <2>1, <2>2
<1>5. \A l \in done : listTable'[l] # 0 /\ \A i \in DOMAIN prog'[l] : Passed(l, i, done)'
  BY <1>1, BehindStays
<1>6. Left(done)'
  BY <1>3, <1>4, <1>5 DEF Left
<1>7. QED
  BY <1>3, <1>6 DEF PlacesPassed

(* A list is left behind, and the function passed whose body it is.           *)
LEMMA PlacesLeft ==
  ASSUME ScopesInv, ResolutionInv, Keeps, PlacesPassed, EndList
  PROVE  PlacesPassed'
<1> DEFINE n == Len(frames)
<1>1. PICK done \in SUBSET DOMAIN prog : Left(done)
  BY DEF PlacesPassed
<1>2. PICK m : m = Frame.list
  OBVIOUS
<1> DEFINE more == done \cup {m}
<1>3. LeaveEffect
  BY LeaveFacts
<1>4. frames # <<>> /\ error = "none" /\ Frame.at > Len(prog[Frame.list])
  BY DEF EndList, Going
<1>5. Searched
  BY <1>4 DEF ResolutionInv
<1>6. /\ n \in DOMAIN frames /\ Frame = frames[n] /\ m = frames[n].list /\ m \in DOMAIN prog
      /\ Frame.at \in Nat /\ listTable[m] # 0
  BY <1>2, <1>4, LastFrame, PlaceFacts DEF TableOf
<1>7. DOMAIN prog[m] = 1 .. Len(prog[m]) /\ Len(prog[m]) \in Nat
  BY <1>6, StatementFacts DEF ScopesInv, Typed
<1>8. \A i \in DOMAIN prog[m] : Passed(m, i, done)
  <2>1. ASSUME NEW i \in DOMAIN prog[m] PROVE i < frames[n].at
    BY <1>2, <1>4, <1>6, <1>7, <2>1
  <2>2. QED
    BY <1>1, <1>6, <2>1 DEF Left
<1>9. done \subseteq more /\ more \in SUBSET DOMAIN prog
  BY <1>1, <1>6
<1>10. ASSUME NEW l \in more
       PROVE  listTable'[l] # 0 /\ \A i \in DOMAIN prog'[l] : Passed(l, i, more)'
  <2>1. CASE l \in done
    BY <1>1, <1>9, <2>1, BehindStays
  <2>2. CASE l = m
    <3>1. listTable'[l] # 0
      BY <1>6, <2>2 DEF Keeps
    <3>2. ASSUME NEW i \in DOMAIN prog'[l] PROVE Passed(l, i, more)'
      <4>1. Passed(l, i, done)
        BY <1>8, <2>2, <3>2 DEF Keeps
      <4>2. QED
        BY <1>9, <4>1, PassedStays
    <3>3. QED
      BY <3>1, <3>2
  <2>3. QED
    BY <2>1, <2>2
<1>11. ASSUME NEW f \in DOMAIN frames', NEW l, l = frames'[f].list, NEW i \in DOMAIN prog'[l], i < frames'[f].at
       PROVE  Passed(l, i, more)'
  <2>1. /\ f \in DOMAIN frames /\ f # n /\ f \in Nat /\ l = frames[f].list
        /\ frames'[f].at = IF f = n - 1 THEN frames[f].at + 1 ELSE frames[f].at
    BY <1>3, <1>11 DEF LeaveEffect
  <2>2. i \in DOMAIN prog[l] /\ i \in Nat /\ frames[f].at \in Nat
    BY <1>11, <2>1, PlaceFacts DEF Keeps
  <2>3. CASE i < frames[f].at
    <3>1. Passed(l, i, done)
      BY <1>1, <2>1, <2>2, <2>3 DEF Left
    <3>2. QED
      BY <1>9, <3>1, PassedStays
  <2>4. CASE ~(i < frames[f].at)
    <3>1. f = n - 1 /\ i = frames[f].at
      BY <1>11, <2>1, <2>2, <2>4
    <3>2. f + 1 = n
      BY <1>3, <2>1, <3>1 DEF LeaveEffect
    <3>3. PlaceFits(prog, l, i) /\ HasSymbols(l, i)
      BY <1>5, <2>1, <3>1, FunctionFits
    <3>4. prog[l][i].body = m
      <4>1. StandsAt(f)
        BY <1>5, <2>1 DEF Searched, FramesLinked
      <4>2. QED
        BY <1>6, <2>1, <3>1, <3>2, <4>1 DEF StandsAt
    <3>5. Passed(l, i, more)
      BY <3>3, <3>4 DEF Passed
    <3> HIDE DEF more
    <3>6. QED
      BY <3>5, PassedStays
  <2>5. QED
    BY <2>3, <2>4
<1>12. frames' = <<>> => 1 \in more
  <2>1. ASSUME frames' = <<>> PROVE n = 1
    <3>1. Len(frames') = 0
      BY <2>1
    <3>2. QED
      BY <1>3, <3>1 DEF LeaveEffect
  <2>2. frames[1].list = 1
    BY <1>4, <1>5 DEF Searched, FramesLinked
  <2>3. QED
    BY <1>6, <2>1, <2>2
<1> HIDE DEF more
<1>13. Left(more)'
  BY <1>10, <1>11, <1>12 DEF Left
<1>14. QED
  BY <1>9, <1>13 DEF PlacesPassed, Keeps

(* Nothing is passed yet.                                                    *)
LEMMA PlacesBegun ==
  ASSUME ScopesInv, ResolutionInv, Analyse, error = "none"
  PROVE  PlacesPassed'
<1>1. AnalyseEffect
  BY AnalyseFacts
<1>2. DOMAIN prog = 1 .. Len(prog) /\ Len(prog) \in Nat \ {0}
  BY DEF ScopesInv, Typed, IsProgram
<1>3. 1 \in DOMAIN prog
  BY <1>2
<1>4. DOMAIN prog[1] = 1 .. Len(prog[1])
  BY <1>3, StatementFacts DEF ScopesInv, Typed
<1>5. ASSUME NEW f \in DOMAIN frames', NEW i \in DOMAIN prog'[frames'[f].list], i < frames'[f].at PROVE FALSE
  <2>1. i \in DOMAIN prog[1] /\ i < 1
    BY <1>1, <1>5 DEF AnalyseEffect
  <2>2. QED
    BY <1>4, <2>1
<1>6. Left({})'
  BY <1>1, <1>5 DEF Left, AnalyseEffect
<1>7. QED
  BY <1>6 DEF PlacesPassed

(* All the steps.                                                            *)
LEMMA StepsPass ==
  ASSUME ScopesInv, ResolutionInv, ReturnTypes, Told, PlacesPassed, SemaNext, error' = "none"
  PROVE  PlacesPassed'
<1>1. CASE Analyse
  BY <1>1, PlacesBegun DEF Analyse
<1>2. CASE VisitDeclare \/ EndDim \/ EndStatement \/ EndExtern
  <2>1. ~Analyse
    BY <1>2, VisitFacts DEF Analyse, VisitDeclare, EndDim, EndStatement, EndExtern, ScopesInv, Typed
  <2>2. QED
    BY <1>2, <2>1, StepsKeep, PlacesFinish
<1>3. CASE ~Analyse /\ (VisitFunction \/ EndList)
  BY <1>3, StepsKeep, PlacesEntered, PlacesLeft
<1>4. CASE Unwind
  BY <1>4 DEF Unwind
<1>5. CASE ~Analyse /\ (\/ DeclareNext \/ DefineNext \/ BeginDim \/ RefuseReturn \/ VisitNode
                        \/ BeginExtern \/ DeclareExtern \/ EndLinkage \/ DefineExtern)
  <2>1. ASSUME NEW decl, NEW key, Declare(decl, key) PROVE frames' = frames
    BY <2>1 DEF Declare, Refuse
  <2>2. frames # <<>> /\ frames' = frames
    <3>1. CASE DeclareNext \/ DeclareExtern
      BY <2>1, <3>1 DEF DeclareNext, DeclareExtern, Visiting, Going
    <3>2. CASE DefineNext \/ DefineExtern \/ BeginDim \/ RefuseReturn
      BY <3>2 DEF DefineNext, DefineExtern, BeginDim, RefuseReturn, Refuse, Visiting, Going
    <3>3. CASE VisitNode \/ BeginExtern \/ EndLinkage
      BY <3>3 DEF VisitNode, Refuse, BeginExtern, EndLinkage, Visiting, Going
    <3>4. QED
      BY <1>5, <3>1, <3>2, <3>3
  <2>3. QED
    BY <1>5, <2>2, StepsKeep, PlacesStill
<1>6. QED
  BY <1>1, <1>2, <1>3, <1>4, <1>5 DEF SemaNext

-----------------------------------------------------------------------------
(* The invariant.                                                            *)

(* Before the analysis.                                                      *)
LEMMA InitAccepts == Init => AcceptanceInv
<1> SUFFICES ASSUME Init PROVE AcceptanceInv
  OBVIOUS
<1>1. symbols = <<>> /\ frames = <<>> /\ tables = <<>> /\ error = "none"
  BY DEF Init
<1>2. DOMAIN symbols = {} /\ DOMAIN frames = {}
  BY <1>1
<1>3. Left({})
  BY <1>1, <1>2 DEF Left
<1>4. PlacesPassed
  BY <1>3 DEF PlacesPassed
<1>5. SymbolsTold /\ StatusesTold /\ ReturnTypes
  BY <1>2 DEF SymbolsTold, StatusesTold, ReturnTypes
<1>6. BlockTells /\ NodesFit
  BY <1>1 DEF BlockTells, NodesFit, Going
<1>7. QED
  BY <1>1, <1>4, <1>5, <1>6 DEF AcceptanceInv, Accepting

(* During it.                                                                *)
LEMMA StepAccepts ==
  ASSUME ScopesInv, ResolutionInv, AcceptanceInv, SemaNext
  PROVE  AcceptanceInv'
<1>1. ReturnTypes'
  BY ReturnsKept DEF AcceptanceInv
<1>2. ASSUME error' # "none" PROVE ~WellScoped(prog')
  BY <1>2, SemaRefuses
<1>3. ASSUME error' = "none" PROVE Accepting'
  <2>1. error = "none"
    BY <1>3 DEF SemaNext, Analyse, DeclareNext, DefineNext, VisitDeclare, BeginDim, EndDim, RefuseReturn,
         EndStatement, VisitNode, VisitFunction, BeginExtern, DeclareExtern, EndLinkage, DefineExtern,
         EndExtern, EndList, Unwind, Visiting, Going
  <2>2. Told /\ PlacesPassed /\ ReturnTypes
    BY <2>1 DEF AcceptanceInv, Accepting, Told
  <2>3. Told' /\ PlacesPassed'
    BY <1>3, <2>2, StepsTell, StepsPass
  <2>4. QED
    BY <2>3 DEF Told, Accepting
<1>4. QED
  BY <1>1, <1>2, <1>3 DEF AcceptanceInv

(* Beside it.                                                                *)
LEMMA ElsewhereAccepts == AcceptanceInv /\ UNCHANGED semaVars => AcceptanceInv'
<1> SUFFICES ASSUME AcceptanceInv, UNCHANGED semaVars PROVE AcceptanceInv'
  OBVIOUS
<1>1. /\ prog' = prog /\ symbols' = symbols /\ tables' = tables /\ listTable' = listTable
      /\ frames' = frames /\ node' = node /\ returnType' = returnType /\ error' = error
  BY DEF semaVars
<1>2. ReturnTypes'
  BY <1>1 DEF AcceptanceInv, ReturnTypes, InnerReturns
<1>3. ASSUME error = "none" PROVE Accepting'
  <2>1. Accepting
    BY <1>3 DEF AcceptanceInv
  <2>2. SymbolsTold' /\ StatusesTold'
    BY <1>1, <2>1 DEF Accepting, SymbolsTold, StatusesTold
  <2>3. BlockTells' /\ NodesFit'
    BY <1>1, <2>1 DEF Accepting, BlockTells, NodesFit, Going, AtStatement, Stmt, Frame, Here
  <2>4. PlacesPassed'
    <3>1. Keeps
      BY <1>1 DEF Keeps, SymbolsOf
    <3>2. QED
      BY <1>1, <2>1, <3>1, PlacesStill DEF Accepting
  <2>5. QED
    BY <2>2, <2>3, <2>4 DEF Accepting
<1>4. QED
  BY <1>1, <1>2, <1>3 DEF AcceptanceInv

(* When the analysis ends, no list is left.                                   *)
LEMMA AllLeft ==
  ASSUME IsProgram(prog), NEW done \in SUBSET DOMAIN prog, Left(done), 1 \in done
  PROVE  done = DOMAIN prog
<1> DEFINE S == DOMAIN prog \ done
<1>1. DOMAIN prog = 1 .. Len(prog) /\ Len(prog) \in Nat
  BY DEF IsProgram
<1>2. S \subseteq Nat
  BY <1>1
<1>3. SUFFICES ASSUME S # {} PROVE FALSE
  OBVIOUS
<1> DEFINE b == First(S)
<1>4. b \in S /\ \A j \in S : b <= j
  BY <1>2, <1>3, FirstIsOne
<1> HIDE DEF b
<1>5. b \in DOMAIN prog /\ b # 1 /\ b \notin done
  BY <1>4
<1>6. PICK l \in DOMAIN prog :
        \E i \in DOMAIN prog[l] : prog[l][i].kind = "FUNC" /\ prog[l][i].body = b /\ l < b
  BY <1>5, HomeOf
<1>7. l \in done
  <2>1. l \in Nat /\ b \in Nat /\ ~(b <= l)
    BY <1>1, <1>5, <1>6
  <2>2. QED
    BY <1>4, <2>1
<1>8. QED
  BY <1>5, <1>6, <1>7 DEF Left, Passed

(* Every declaration of a list left behind has its symbol.                    *)
LEMMA BelongingHasSymbols ==
  ASSUME NEW done \in SUBSET DOMAIN prog, Left(done), NEW l \in done, ParametersMade(l),
         NEW key \in Belonging(l)
  PROVE  SymbolsOf(key) # {}
<1>1. \A i \in DOMAIN prog[l] : HasSymbols(l, i)
  BY DEF Left, Passed
<1>2. CASE key \in Parameters(prog, l)
  BY <1>2 DEF ParametersMade
<1>3. CASE key \in Linked(prog, l)
  <2>1. \E i \in DOMAIN prog[l] : \E k \in DOMAIN prog[l][i].decls :
          prog[l][i].kind = "EXTERN" /\ key = <<l, i, k, 0>>
    BY <1>3 DEF Linked
  <2>2. QED
    BY <1>1, <2>1 DEF HasSymbols
<1>4. CASE key \in {<<l, i, 0, 0>> : i \in {i \in DOMAIN prog[l] : IsDecl(prog[l][i])}}
  BY <1>1, <1>4 DEF HasSymbols, Key
<1>5. QED
  BY <1>2, <1>3, <1>4 DEF Belonging, Owned

(* So what is let through is well scoped.                                    *)
LEMMA AcceptedFits ==
  ASSUME ScopesInv, ResolutionInv, AcceptanceInv, Analysed
  PROVE  error = "none" <=> WellScoped(prog)
<1>1. ASSUME error = "none" PROVE WellScoped(prog)
  <2>1. PICK done \in SUBSET DOMAIN prog : Left(done)
    BY <1>1 DEF AcceptanceInv, Accepting, PlacesPassed
  <2>2. done = DOMAIN prog
    BY <2>1, AllLeft DEF Left, Analysed, ScopesInv, Typed
  <2>3. \A l \in DOMAIN prog : \A i \in DOMAIN prog[l] : PlaceFits(prog, l, i)
    BY <2>1, <2>2 DEF Left, Passed
  <2>4. NamesApart(prog)
    <3> SUFFICES ASSUME NEW l \in DOMAIN prog, NEW one \in Belonging(l), NEW other \in Belonging(l),
                        NameOf(prog, one) = NameOf(prog, other)
                 PROVE  one = other
      BY DEF NamesApart, Belonging
    <3>1. Complete(l) /\ ParametersMade(l)
      BY <1>1, <2>1, <2>2 DEF ResolutionInv, Searched, TablesHold, Left
    <3>2. SymbolsOf(one) # {} /\ SymbolsOf(other) # {}
      BY <2>1, <2>2, <3>1, BelongingHasSymbols
    <3>3. PICK s \in DOMAIN symbols, t \in DOMAIN symbols : symbols[s].decl = one /\ symbols[t].decl = other
      BY <3>2 DEF SymbolsOf
    <3>4. QED
      BY <3>1, <3>3 DEF Complete
  <2>5. QED
    BY <2>3, <2>4, WellScopedIs
<1>2. QED
  BY <1>1 DEF AcceptanceInv

(* The analyser's state tells which part of the program is known to be well    *)
(* scoped, in every behaviour of the compiler.                              *)
THEOREM AcceptanceInvHolds == CompileSpec => []AcceptanceInv
<1>1. CompileInit => AcceptanceInv
  BY InitAccepts DEF CompileInit
<1>2. ScopesInv /\ ResolutionInv /\ AcceptanceInv /\ [CompileNext]_vars => AcceptanceInv'
  <2> SUFFICES ASSUME ScopesInv, ResolutionInv, AcceptanceInv, [CompileNext]_vars PROVE AcceptanceInv'
    OBVIOUS
  <2>1. CASE SemaNext
    BY <2>1, StepAccepts
  <2>2. CASE UNCHANGED semaVars
    BY <2>2, ElsewhereAccepts
  <2>3. QED
    BY <2>1, <2>2, GenerateElsewhere DEF CompileNext, Finished, vars
<1>3. QED
  BY <1>1, <1>2, ScopesInvHolds, ResolutionInvHolds, PTL DEF CompileSpec

(* SemanticAnalyser accepts a program exactly when its text is well scoped:     *)
(* names apart in each list, each use after what it names can be used, calls *)
(* of functions only, RETURNs where they belong, signatures in order.        *)
THEOREM AcceptsExactlyHolds == CompileSpec => []AcceptsExactly
<1>1. ScopesInv /\ ResolutionInv /\ AcceptanceInv => AcceptsExactly
  BY AcceptedFits DEF AcceptsExactly
<1>2. QED
  BY <1>1, ScopesInvHolds, ResolutionInvHolds, AcceptanceInvHolds, PTL
=============================================================================
