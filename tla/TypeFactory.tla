----------------------------- MODULE TypeFactory -----------------------------
(***************************************************************************)
(* TypeFactory and the analysis of type expressions that drives it.  Types *)
(* are compared by address everywhere in the compiler, so the factory must *)
(* hand out one Type object per distinct type, from a table filled at      *)
(* construction, three caches keyed by base type and a hash table of       *)
(* buckets for the function types.                                         *)
(*                                                                         *)
(* A Type* is an index into heap, the sequence of the type objects created *)
(* so far; 0 is nullptr.  A type expression is analysed inside out: the    *)
(* builtin first, then each qualifier around it in turn.                   *)
(* (An operator used nowhere is a mutant of the definition that follows.)  *)
(***************************************************************************)
EXTENDS Integers, Sequences

CONSTANTS
  Singletons,   \* the singleton kinds, in the order they are created
  Builtins,     \* the singleton kinds a type expression can name
  Hash(_),      \* the hash of a function type's parts
  MaxTypes,     \* bound: types ever created
  MaxQualifiers,\* bound: qualifiers of one type expression
  MaxParams     \* bound: parameters of one function

ASSUME FactoryAssumption ==
  /\ Singletons \in Seq(STRING)
  /\ \A i, j \in DOMAIN Singletons : Singletons[i] = Singletons[j] => i = j
  /\ Builtins \cup {"ANY", "VOID"} \subseteq {Singletons[i] : i \in DOMAIN Singletons}
  /\ Builtins \cap {"ANY", "VOID"} = {}

VARIABLES
  heap,       \* the type objects, in order of creation
  cache,      \* m_pointers, m_references, m_consts: base type -> type
  functions,  \* m_functions: the function types, in buckets by their hash
  type,       \* the Type* of the type expression analysed so far, or nullptr
  written,    \* history: what has been written of it
  params,     \* the parameter types of the function declaration at hand
  denoted     \* history: <<a type as written, the Type* it was given>>

factory == <<heap, cache, functions>>
vars == <<heap, cache, functions, type, written, params, denoted>>

-----------------------------------------------------------------------------
(* Type objects, and types as they are written.                             *)

Qualifiers == {"PTR", "REF", "CONST"}
Singleton(k) == [kind |-> "SINGLE", name |-> k]
Qualified(q, base) == [kind |-> q, base |-> base]
FunctionType(ps, result, variadic) ==
  [kind |-> "FUNCTION", params |-> ps, result |-> result, variadic |-> variadic]

Ids == 1 .. Len(heap)
IndexOf(k) == CHOOSE i \in DOMAIN Singletons : Singletons[i] = k
AnyPtr == Len(Singletons) + 1
IsReference(t) == heap[t].kind = "REF"
IsConst(t) == heap[t].kind = "CONST"

Writing(base, qualifiers) == [base |-> base, qualifiers |-> qualifiers]
Nothing == Writing(<<>>, <<>>)
Last(s) == s[Len(s)]
EndsWith(w, q) == w.qualifiers # <<>> /\ Last(w.qualifiers) = q
Then(w, q) == Writing(w.base, Append(w.qualifiers, q))
Referent(w) ==
  IF EndsWith(w, "REF")
  THEN Writing(w.base, SubSeq(w.qualifiers, 1, Len(w.qualifiers) - 1)) ELSE w

-----------------------------------------------------------------------------
(* The factory.                                                             *)

(* The singletons, then ANY PTR through getPointer.                         *)
Init ==
  /\ heap = Append([i \in DOMAIN Singletons |-> Singleton(Singletons[i])],
                   Qualified("PTR", IndexOf("ANY")))
  /\ cache = [q \in Qualifiers |->
               [t \in (IF q = "PTR" THEN {IndexOf("ANY")} ELSE {}) |-> AnyPtr]]
  /\ functions = {}
  /\ type = 0 /\ written = Nothing /\ params = <<>> /\ denoted = {}

RememberConstOnly(q, base) ==
  cache' = [cache EXCEPT !["CONST"] = [t \in DOMAIN @ \cup {base} |->
                                        IF t = base THEN Len(heap) + 1 ELSE @[t]]]

Remember(q, base) ==
  cache' = [cache EXCEPT ![q] = [t \in DOMAIN @ \cup {base} |->
                                  IF t = base THEN Len(heap) + 1 ELSE @[t]]]

(* getPointer, getReference, getConst: t is the cached type, or a new one.   *)
Get(q, base, t) ==
  /\ IF base \in DOMAIN cache[q]
     THEN t = cache[q][base] /\ UNCHANGED <<heap, cache>>
     ELSE /\ Len(heap) < MaxTypes
          /\ t = Len(heap) + 1
          /\ heap' = Append(heap, Qualified(q, base))
          /\ Remember(q, base)
  /\ UNCHANGED functions

Bucket(h) == {t \in functions : Hash(heap[t]) = h}

MatchesHash(t, node) == t \in Bucket(Hash(node))

(* An element of the bucket is the answer only if all its parts are the same. *)
Matches(t, node) == t \in Bucket(Hash(node)) /\ heap[t] = node

(* getFunction: t is the function type with these parts, found or created.   *)
GetFunction(node, t) ==
  /\ IF \E s \in Ids : Matches(s, node)
     THEN t \in Ids /\ Matches(t, node) /\ UNCHANGED <<heap, functions>>
     ELSE /\ Len(heap) < MaxTypes
          /\ t = Len(heap) + 1
          /\ heap' = Append(heap, node)
          /\ functions' = functions \cup {t}
  /\ UNCHANGED cache

-----------------------------------------------------------------------------
(* Type expressions: Parser::type() and the analysis of its AST nodes.       *)

Denotes(w, t) == denoted' = denoted \cup {<<w, t>>}

BuiltInType(k) ==
  /\ type = 0
  /\ type' = IndexOf(k) /\ written' = Writing(<<k>>, <<>>) /\ Denotes(written', type')
  /\ UNCHANGED <<factory, params>>

(* ANY is only written in front of a PTR.                                   *)
AnyPointer ==
  /\ type = 0
  /\ \E t \in 1 .. Len(heap) + 1 : Get("PTR", IndexOf("ANY"), t) /\ type' = t
  /\ written' = Writing(<<"ANY">>, <<"PTR">>) /\ Denotes(written', type')
  /\ UNCHANGED params

QualifiableAlways == type # 0

(* Nothing qualifies a reference further: the parser stops with an error, and *)
(* so would each of the analyser's three handlers.                          *)
Qualifiable == type # 0 /\ ~IsReference(type)

(* A redundant CONST is dropped.                                            *)
Collapses(q) == q = "CONST" /\ IsConst(type)

Qualify(q) ==
  /\ Qualifiable /\ Len(written.qualifiers) < MaxQualifiers
  /\ IF Collapses(q) THEN UNCHANGED <<factory, type>>
     ELSE \E t \in 1 .. Len(heap) + 1 : Get(q, type, t) /\ type' = t
  /\ written' = IF q = "CONST" /\ EndsWith(written, q) THEN written ELSE Then(written, q)
  /\ Denotes(written', type')
  /\ UNCHANGED params

(* The type expression is complete: it types the next parameter, ...        *)
FuncParamDecl ==
  /\ type # 0 /\ Len(params) < MaxParams
  /\ params' = Append(params, type)
  /\ type' = 0 /\ written' = Nothing
  /\ UNCHANGED <<factory, denoted>>

(* ... a variable, ...                                                      *)
VarDecl ==
  /\ type # 0 /\ params = <<>>
  /\ type' = 0 /\ written' = Nothing
  /\ UNCHANGED <<factory, params, denoted>>

(* ... or what a function returns; a subroutine returns VOID.               *)
FuncDecl(variadic) ==
  LET result == IF type = 0 THEN IndexOf("VOID") ELSE type
  IN /\ \E t \in 1 .. Len(heap) + 1 :
          /\ GetFunction(FunctionType(params, result, variadic), t)
          /\ Denotes(Writing(<<"FUNCTION", params, result, variadic>>, <<>>), t)
     /\ type' = 0 /\ written' = Nothing /\ params' = <<>>

(* The address of an object of type d in a statement: a pointer to the type, *)
(* its reference stripped.                                                  *)
AddressOf(d) ==
  LET operand == IF IsReference(d[2]) THEN heap[d[2]].base ELSE d[2]
      pointer == Then(Referent(d[1]), "PTR")
  IN /\ type = 0 /\ params = <<>> /\ Len(pointer.qualifiers) <= MaxQualifiers
     /\ \E t \in 1 .. Len(heap) + 1 : Get("PTR", operand, t) /\ Denotes(pointer, t)
     /\ UNCHANGED <<type, written, params>>

Next ==
  \/ \E k \in Builtins : BuiltInType(k)
  \/ AnyPointer
  \/ \E q \in Qualifiers : Qualify(q)
  \/ FuncParamDecl
  \/ VarDecl
  \/ \E variadic \in BOOLEAN : FuncDecl(variadic)
  \/ \E d \in denoted : AddressOf(d)

Spec == Init /\ [][Next]_vars

-----------------------------------------------------------------------------
(* Properties.                                                              *)

Nodes == [kind : {"SINGLE"}, name : STRING]
         \cup [kind : Qualifiers, base : Nat \ {0}]
         \cup [kind : {"FUNCTION"}, params : Seq(Nat), result : Nat, variadic : BOOLEAN]

TypeOK ==
  /\ heap \in Seq(Nodes)
  /\ Len(heap) > Len(Singletons)
  /\ DOMAIN cache = Qualifiers
  /\ functions \subseteq Ids
  /\ type \in {0} \cup Ids
  /\ params \in Seq(Ids)
  /\ \A d \in denoted : d[2] \in Ids

(* No two type objects have the same parts: "each distinct type exists as a *)
(* single instance", without which comparing types by address is wrong.     *)
Canonical == \A s, t \in Ids : heap[s] = heap[t] => s = t

(* The same, as the programmer sees it: two types are written the same way,  *)
(* redundant CONSTs aside, exactly when they are given the same Type*.      *)
OneTypePerWriting == \A d, e \in denoted : d[1] = e[1] <=> d[2] = e[2]

(* The factory's asserts: nothing refers or points to a reference, or makes  *)
(* one const, and no const type is made const again.                        *)
ReferencesOutermost ==
  \A t \in Ids :
    /\ heap[t].kind \in Qualifiers => ~IsReference(heap[t].base)
    /\ IsConst(t) => ~IsConst(heap[t].base)

(* What makes Canonical inductive: each cache knows exactly the types made   *)
(* through it, and the buckets every function type, each once.              *)
CachesKnowTheirTypes ==
  \A q \in Qualifiers :
    /\ DOMAIN cache[q] \subseteq Ids
    /\ \A b \in DOMAIN cache[q] : cache[q][b] \in Ids /\ heap[cache[q][b]] = Qualified(q, b)
    /\ \A t \in Ids : heap[t].kind = q =>
                        heap[t].base \in DOMAIN cache[q] /\ cache[q][heap[t].base] = t

BucketsKnowTheirTypes ==
  /\ \A t \in Ids : heap[t].kind = "FUNCTION" => t \in functions
  /\ \A s, t \in functions : heap[s] = heap[t] => s = t

SingletonsFirst ==
  \A t \in Ids : heap[t].kind = "SINGLE" =>
                   t \in DOMAIN Singletons /\ heap[t].name = Singletons[t]

CanonicalInv == TypeOK /\ CachesKnowTheirTypes /\ BucketsKnowTheirTypes /\ SingletonsFirst
=============================================================================
