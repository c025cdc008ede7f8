-------------------------- MODULE TypeFactoryProofs --------------------------
(***************************************************************************)
(* Proofs about TypeFactory for any singletons, any hash function and any  *)
(* number of types.  Canonical alone is not inductive: that a new object   *)
(* differs from every older one follows from the caches and the buckets    *)
(* knowing every type made through them (CanonicalInv).                    *)
(***************************************************************************)
EXTENDS TypeFactory, SequenceTheorems, TLAPS

(* What the factory's three variables satisfy, whoever calls it.            *)
FactoryInv ==
  /\ heap \in Seq(Nodes)
  /\ Len(heap) > Len(Singletons)
  /\ DOMAIN cache = Qualifiers
  /\ functions \subseteq Ids
  /\ CachesKnowTheirTypes /\ BucketsKnowTheirTypes /\ SingletonsFirst

(* The singletons the constructor relies on are among those it creates.     *)
LEMMA IndexOfSingleton ==
  ASSUME NEW k \in Builtins \cup {"ANY", "VOID"}
  PROVE  IndexOf(k) \in 1 .. Len(Singletons)
<1>1. \E i \in DOMAIN Singletons : Singletons[i] = k
  BY FactoryAssumption
<1>2. DOMAIN Singletons = 1 .. Len(Singletons)
  BY FactoryAssumption
<1>3. QED
  BY <1>1, <1>2 DEF IndexOf

(* The invariant makes every type object unique.                            *)
LEMMA InvMakesCanonical == CanonicalInv => Canonical
<1> SUFFICES ASSUME CanonicalInv, NEW s \in Ids, NEW t \in Ids, heap[s] = heap[t]
             PROVE  s = t
  BY DEF Canonical
<1>1. heap[s] \in Nodes
  BY DEF CanonicalInv, TypeOK, Ids
<1>2. CASE heap[s].kind \in Qualifiers
  BY <1>2 DEF CanonicalInv, CachesKnowTheirTypes
<1>3. CASE heap[s].kind = "SINGLE"
  BY <1>3, FactoryAssumption DEF CanonicalInv, SingletonsFirst
<1>4. CASE heap[s].kind = "FUNCTION"
  BY <1>4 DEF CanonicalInv, BucketsKnowTheirTypes
<1>5. QED
  BY <1>1, <1>2, <1>3, <1>4 DEF Nodes

(* t is an object with these parts, the only one that may be new.            *)
Grows(t, node) ==
  /\ t \in Ids' /\ Ids' = Ids \cup {t}
  /\ heap'[t] = node
  /\ \A s \in Ids : heap'[s] = heap[s]

(* getPointer, getReference and getConst keep the factory's invariant and    *)
(* every type it has handed out, and answer with the type they are asked for. *)
LEMMA GetKeeps ==
  ASSUME FactoryInv, NEW q \in Qualifiers, NEW base \in Ids,
         NEW t \in 1 .. Len(heap) + 1, Get(q, base, t)
  PROVE  FactoryInv' /\ Grows(t, Qualified(q, base))
<1> USE DEF Ids, Grows
<1> DEFINE node == Qualified(q, base)
<1>1. CASE base \in DOMAIN cache[q]
  <2>1. t = cache[q][base] /\ UNCHANGED factory
    BY <1>1 DEF Get, factory
  <2>2. t \in Ids
    BY <1>1, <2>1 DEF FactoryInv, CachesKnowTheirTypes
  <2>3. heap[t] = node
    BY <1>1, <2>1 DEF FactoryInv, CachesKnowTheirTypes
  <2>4. QED
    BY <2>1, <2>2, <2>3 DEF factory, FactoryInv, CachesKnowTheirTypes,
                            BucketsKnowTheirTypes, SingletonsFirst
<1>2. CASE base \notin DOMAIN cache[q]
  <2>1. /\ t = Len(heap) + 1
        /\ heap' = Append(heap, node)
        /\ cache' = [cache EXCEPT ![q] = [b \in DOMAIN @ \cup {base} |->
                                            IF b = base THEN t ELSE @[b]]]
        /\ functions' = functions
    BY <1>2 DEF Get, Remember
  <2>2. node \in Nodes
    BY DEF Nodes, Qualified, FactoryInv
  <2>3. /\ heap' \in Seq(Nodes) /\ Len(heap') = Len(heap) + 1
        /\ heap'[t] = node /\ \A s \in Ids : heap'[s] = heap[s]
    BY <2>1, <2>2 DEF FactoryInv
  <2>4. Ids' = Ids \cup {t} /\ t \notin Ids
    <3>1. t = Len(heap) + 1 /\ Len(heap) \in Nat
      BY <2>1 DEF FactoryInv
    <3>2. QED
      BY <3>1, <2>3
  <2>5. node.kind = q /\ node.base = base
    BY DEF Qualified
  <2>6. /\ DOMAIN cache' = Qualifiers
        /\ \A p \in Qualifiers \ {q} : cache'[p] = cache[p]
        /\ cache'[q] = [b \in DOMAIN cache[q] \cup {base} |->
                          IF b = base THEN t ELSE cache[q][b]]
    BY <2>1 DEF FactoryInv
  <2>7. CachesKnowTheirTypes'
    <3> SUFFICES ASSUME NEW p \in Qualifiers
                 PROVE  /\ DOMAIN cache'[p] \subseteq Ids'
                        /\ \A b \in DOMAIN cache'[p] : cache'[p][b] \in Ids'
                              /\ heap'[cache'[p][b]] = Qualified(p, b)
                        /\ \A s \in Ids' : heap'[s].kind = p =>
                              heap'[s].base \in DOMAIN cache'[p]
                              /\ cache'[p][heap'[s].base] = s
      BY DEF CachesKnowTheirTypes
    <3>1. /\ DOMAIN cache[p] \subseteq Ids
          /\ \A b \in DOMAIN cache[p] : cache[p][b] \in Ids
                  /\ heap[cache[p][b]] = Qualified(p, b)
          /\ \A s \in Ids : heap[s].kind = p =>
                  heap[s].base \in DOMAIN cache[p] /\ cache[p][heap[s].base] = s
      BY DEF FactoryInv, CachesKnowTheirTypes
    <3>2. CASE p # q
      BY <3>1, <3>2, <2>3, <2>4, <2>5, <2>6
    <3>3. CASE p = q
      <4>1. \A b \in DOMAIN cache'[p] : cache'[p][b] \in Ids'
              /\ heap'[cache'[p][b]] = Qualified(p, b)
        BY <3>1, <3>3, <2>3, <2>4, <2>6
      <4>2. \A s \in Ids' : heap'[s].kind = p =>
              heap'[s].base \in DOMAIN cache'[p] /\ cache'[p][heap'[s].base] = s
        BY <3>1, <3>3, <1>2, <2>3, <2>4, <2>5, <2>6
      <4>3. DOMAIN cache'[p] \subseteq Ids'
        BY <3>1, <3>3, <2>4, <2>6
      <4>4. QED
        BY <4>1, <4>2, <4>3
    <3>4. QED
      BY <3>2, <3>3
  <2>8. BucketsKnowTheirTypes'
    BY <2>1, <2>3, <2>4, <2>5 DEF FactoryInv, BucketsKnowTheirTypes, Qualifiers
  <2>9. SingletonsFirst'
    BY <2>3, <2>4, <2>5 DEF FactoryInv, SingletonsFirst, Qualifiers
  <2>10. QED
    BY <2>1, <2>3, <2>4, <2>6, <2>7, <2>8, <2>9 DEF FactoryInv
<1>3. QED
  BY <1>1, <1>2

(* getFunction does too, whatever the hash function.                        *)
LEMMA GetFunctionKeeps ==
  ASSUME FactoryInv, NEW ps \in Seq(Ids), NEW result \in Ids, NEW variadic \in BOOLEAN,
         NEW t \in 1 .. Len(heap) + 1,
         GetFunction(FunctionType(ps, result, variadic), t)
  PROVE  FactoryInv' /\ Grows(t, FunctionType(ps, result, variadic))
<1> USE DEF Ids, Grows
<1> DEFINE node == FunctionType(ps, result, variadic)
<1> SUFFICES ASSUME GetFunction(node, t)
             PROVE  FactoryInv' /\ Grows(t, node)
  OBVIOUS
<1>0. node.kind = "FUNCTION" /\ node \in Nodes
  <2>1. ps \in Seq(Nat) /\ result \in Nat
    OBVIOUS
  <2>2. QED
    BY <2>1 DEF FunctionType, Nodes
<1> HIDE DEF node
<1>1. CASE \E s \in Ids : Matches(s, node)
  <2>1. t \in Ids /\ heap[t] = node /\ UNCHANGED factory
    BY <1>1 DEF GetFunction, Matches, factory
  <2>2. QED
    BY <2>1 DEF factory, FactoryInv, CachesKnowTheirTypes, BucketsKnowTheirTypes,
                SingletonsFirst
<1>2. CASE ~ \E s \in Ids : Matches(s, node)
  <2>1. /\ t = Len(heap) + 1
        /\ heap' = Append(heap, node)
        /\ functions' = functions \cup {t}
        /\ cache' = cache
    BY <1>2 DEF GetFunction
  <2>2. /\ heap' \in Seq(Nodes) /\ Len(heap') = Len(heap) + 1
        /\ heap'[t] = node /\ \A s \in Ids : heap'[s] = heap[s]
    BY <2>1, <1>0 DEF FactoryInv
  <2>3. Ids' = Ids \cup {t} /\ t \notin Ids
    BY <2>1, <2>2 DEF FactoryInv
  <2>4. \A s \in functions : heap[s] # node
    BY <1>2 DEF Matches, Bucket, FactoryInv
  <2>5. CachesKnowTheirTypes'
    BY <1>0, <2>1, <2>2, <2>3 DEF FactoryInv, CachesKnowTheirTypes, Qualifiers
  <2>6. BucketsKnowTheirTypes'
    BY <2>1, <2>2, <2>3, <2>4 DEF FactoryInv, BucketsKnowTheirTypes
  <2>7. SingletonsFirst'
    BY <1>0, <2>2, <2>3 DEF FactoryInv, SingletonsFirst
  <2>8. Len(heap') > Len(Singletons)
    BY <2>2, FactoryAssumption DEF FactoryInv
  <2>9. functions' \subseteq Ids'
    BY <2>1, <2>3 DEF FactoryInv
  <2>10. Grows(t, node)
    BY <2>2, <2>3
  <2>11. DOMAIN cache' = Qualifiers
    BY <2>1 DEF FactoryInv
  <2>12. QED
    BY <2>2, <2>5, <2>6, <2>7, <2>8, <2>9, <2>10, <2>11 DEF FactoryInv
<1>3. QED
  BY <1>1, <1>2

(* The variables of the callers: what they hold are types of the heap.      *)
CallersInv ==
  /\ type \in {0} \cup Ids
  /\ params \in Seq(Ids)
  /\ \A d \in denoted : d[2] \in Ids

(* The two parts make up the invariant.                                     *)
LEMMA InvParts == CanonicalInv <=> FactoryInv /\ CallersInv
BY DEF CanonicalInv, FactoryInv, CallersInv, TypeOK

(* The constructor establishes the invariant.                               *)
LEMMA InitInv == Init => CanonicalInv
<1> SUFFICES ASSUME Init PROVE FactoryInv /\ CallersInv
  BY InvParts
<1> USE DEF Ids
<1> DEFINE any == IndexOf("ANY")
           singles == [i \in DOMAIN Singletons |-> Singleton(Singletons[i])]
           node == Qualified("PTR", any)
           n == Len(Singletons)
<1>1. any \in 1 .. n
  BY IndexOfSingleton
<1>2. n \in Nat /\ DOMAIN Singletons = 1 .. n /\ \A i \in 1 .. n : Singletons[i] \in STRING
  BY FactoryAssumption
<1>3. singles \in Seq(Nodes) /\ Len(singles) = n
  <2>1. \A i \in 1 .. n : singles[i] \in Nodes
    BY <1>2 DEF Singleton, Nodes
  <2>2. singles \in [1 .. n -> Nodes]
    BY <2>1, <1>2
  <2>3. QED
    BY <2>2, <1>2
<1>4. node \in Nodes /\ node.kind = "PTR" /\ node.base = any
  BY <1>1, <1>2 DEF Qualified, Nodes, Qualifiers
<1>5. /\ heap \in Seq(Nodes) /\ Len(heap) = n + 1 /\ heap[n + 1] = node
      /\ \A i \in 1 .. n : heap[i] = Singleton(Singletons[i])
  <2> HIDE DEF node
  <2>1. \A i \in 1 .. n : singles[i] = Singleton(Singletons[i])
    BY <1>2
  <2> HIDE DEF singles
  <2>2. heap = Append(singles, node)
    BY DEF singles, node, Init
  <2>3. QED
    BY <1>2, <1>3, <1>4, <2>1, <2>2
<1>6. AnyPtr = n + 1
  BY DEF AnyPtr
<1>7. \A i \in 1 .. n : heap[i].kind = "SINGLE" /\ heap[i].name = Singletons[i]
  <2> SUFFICES ASSUME NEW i \in 1 .. n
               PROVE  heap[i].kind = "SINGLE" /\ heap[i].name = Singletons[i]
    OBVIOUS
  <2>1. heap[i] = [kind |-> "SINGLE", name |-> Singletons[i]]
    BY <1>5 DEF Singleton
  <2>2. QED
    BY <2>1
<1>8. CachesKnowTheirTypes
  <2> SUFFICES ASSUME NEW q \in Qualifiers
               PROVE  /\ DOMAIN cache[q] \subseteq Ids
                      /\ \A b \in DOMAIN cache[q] : cache[q][b] \in Ids
                            /\ heap[cache[q][b]] = Qualified(q, b)
                      /\ \A t \in Ids : heap[t].kind = q =>
                            heap[t].base \in DOMAIN cache[q] /\ cache[q][heap[t].base] = t
    BY DEF CachesKnowTheirTypes
  <2>1. \A t \in Ids : heap[t].kind = q => t = n + 1 /\ q = "PTR"
    BY <1>2, <1>4, <1>5, <1>7 DEF Qualifiers
  <2>2. cache[q] = [t \in (IF q = "PTR" THEN {any} ELSE {}) |-> n + 1]
    BY <1>6 DEF Init
  <2>3. CASE q = "PTR"
    BY <2>1, <2>2, <2>3, <1>1, <1>2, <1>4, <1>5 DEF Qualified
  <2>4. CASE q # "PTR"
    BY <2>1, <2>2, <2>4
  <2>5. QED
    BY <2>3, <2>4
<1>9. BucketsKnowTheirTypes
  BY <1>2, <1>4, <1>5, <1>7 DEF BucketsKnowTheirTypes, Init
<1>10. SingletonsFirst
  BY <1>2, <1>4, <1>5, <1>7 DEF SingletonsFirst
<1>11. DOMAIN cache = Qualifiers /\ functions \subseteq Ids
  BY DEF Init
<1>12. CallersInv
  <2>1. type = 0 /\ params = <<>> /\ denoted = {}
    BY DEF Init
  <2>2. QED
    BY <2>1 DEF CallersInv
<1>13. QED
  BY <1>2, <1>5, <1>8, <1>9, <1>10, <1>11, <1>12 DEF FactoryInv

(* Every step keeps it.                                                     *)
LEMMA NextInv == CanonicalInv /\ [Next]_vars => CanonicalInv'
<1> SUFFICES ASSUME FactoryInv, CallersInv, [Next]_vars
             PROVE  FactoryInv' /\ CallersInv'
  BY DEF CanonicalInv, FactoryInv, CallersInv, TypeOK
<1> USE DEF CallersInv
<1>1. ASSUME UNCHANGED factory
      PROVE  FactoryInv' /\ Ids' = Ids
  BY <1>1 DEF factory, FactoryInv, CachesKnowTheirTypes, BucketsKnowTheirTypes,
              SingletonsFirst, Ids
<1>2. \A k \in Builtins \cup {"ANY", "VOID"} : IndexOf(k) \in Ids
  BY IndexOfSingleton, FactoryAssumption DEF FactoryInv, Ids
<1>3. ASSUME Ids \subseteq Ids'
      PROVE  params \in Seq(Ids') /\ \A d \in denoted : d[2] \in Ids'
  BY <1>3
<1>4. ASSUME NEW k \in Builtins, BuiltInType(k)
      PROVE  FactoryInv' /\ CallersInv'
  BY <1>1, <1>2, <1>4 DEF BuiltInType, Denotes
<1>5. ASSUME AnyPointer PROVE FactoryInv' /\ CallersInv'
  <2>1. PICK t \in 1 .. Len(heap) + 1 : Get("PTR", IndexOf("ANY"), t) /\ type' = t
    BY <1>5 DEF AnyPointer
  <2>2. FactoryInv' /\ t \in Ids' /\ Ids \subseteq Ids'
    BY <2>1, <1>2, GetKeeps DEF Qualifiers, Grows
  <2>3. QED
    BY <2>1, <2>2, <1>3, <1>5 DEF AnyPointer, Denotes
<1>6. ASSUME NEW q \in Qualifiers, Qualify(q)
      PROVE  FactoryInv' /\ CallersInv'
  <2>1. CASE Collapses(q)
    BY <2>1, <1>1, <1>6 DEF Qualify, Qualifiable, Denotes
  <2>2. CASE ~Collapses(q)
    <3>1. PICK t \in 1 .. Len(heap) + 1 : Get(q, type, t) /\ type' = t
      BY <1>6, <2>2 DEF Qualify
    <3>2. type \in Ids
      BY <1>6 DEF Qualify, Qualifiable
    <3>3. FactoryInv' /\ t \in Ids' /\ Ids \subseteq Ids'
      BY <3>1, <3>2, GetKeeps DEF Grows
    <3>4. QED
      BY <3>1, <3>3, <1>3, <1>6 DEF Qualify, Denotes
  <2>3. QED
    BY <2>1, <2>2
<1>7. ASSUME FuncParamDecl PROVE FactoryInv' /\ CallersInv'
  BY <1>1, <1>7 DEF FuncParamDecl
<1>8. ASSUME VarDecl PROVE FactoryInv' /\ CallersInv'
  BY <1>1, <1>8 DEF VarDecl
<1>9. ASSUME NEW variadic \in BOOLEAN, FuncDecl(variadic)
      PROVE  FactoryInv' /\ CallersInv'
  <2> DEFINE result == IF type = 0 THEN IndexOf("VOID") ELSE type
             writing == Writing(<<"FUNCTION", params, result, variadic>>, <<>>)
  <2>1. PICK t \in 1 .. Len(heap) + 1 :
          GetFunction(FunctionType(params, result, variadic), t) /\ Denotes(writing, t)
    BY <1>9 DEF FuncDecl
  <2>2. result \in Ids
    BY <1>2
  <2>3. FactoryInv' /\ t \in Ids' /\ Ids \subseteq Ids'
    BY <2>1, <2>2, GetFunctionKeeps DEF Grows
  <2>4. type' = 0 /\ params' = <<>>
    BY <1>9 DEF FuncDecl
  <2>5. QED
    BY <2>1, <2>3, <2>4, <1>3 DEF Denotes
<1>10. ASSUME NEW d \in denoted, AddressOf(d)
       PROVE  FactoryInv' /\ CallersInv'
  <2> DEFINE operand == IF IsReference(d[2]) THEN heap[d[2]].base ELSE d[2]
  <2>1. PICK t \in 1 .. Len(heap) + 1 :
          Get("PTR", operand, t) /\ Denotes(Then(Referent(d[1]), "PTR"), t)
    BY <1>10 DEF AddressOf
  <2>2. operand \in Ids
    <3>1. d[2] \in Ids
      OBVIOUS
    <3>2. IsReference(d[2]) => heap[d[2]].base \in Ids
      BY <3>1 DEF IsReference, FactoryInv, CachesKnowTheirTypes, Qualifiers
    <3>3. QED
      BY <3>1, <3>2
  <2>3. FactoryInv' /\ t \in Ids' /\ Ids \subseteq Ids'
    BY <2>1, <2>2, GetKeeps DEF Qualifiers, Grows
  <2>4. UNCHANGED <<type, params>>
    BY <1>10 DEF AddressOf
  <2>5. params' \in Seq(Ids') /\ type' \in {0} \cup Ids'
    BY <2>3, <2>4, <1>3
  <2>6. \A e \in denoted' : e[2] \in Ids'
    BY <2>1, <2>3, <1>3 DEF Denotes
  <2>7. QED
    BY <2>3, <2>5, <2>6
<1>11. ASSUME UNCHANGED vars PROVE FactoryInv' /\ CallersInv'
  BY <1>1, <1>11 DEF vars, factory
<1>12. QED
  BY <1>4, <1>5, <1>6, <1>7, <1>8, <1>9, <1>10, <1>11 DEF Next

-----------------------------------------------------------------------------

(* The factory's bookkeeping is right in every reachable state.             *)
THEOREM CanonicalInvHolds == Spec => []CanonicalInv
<1>1. Init => CanonicalInv
  BY InitInv
<1>2. CanonicalInv /\ [Next]_vars => CanonicalInv'
  BY NextInv
<1>3. QED
  BY <1>1, <1>2, PTL DEF Spec

(* "Each distinct type exists as a single instance", for every program.     *)
THEOREM CanonicalHolds == Spec => []Canonical
<1>1. CanonicalInv => Canonical
  BY InvMakesCanonical
<1>2. QED
  BY <1>1, CanonicalInvHolds, PTL

-----------------------------------------------------------------------------
(* References stay outermost.  What ANY PTR points to must be known not to   *)
(* be a reference, so the invariant also says where the singletons are.      *)

SingletonsStay == \A i \in DOMAIN Singletons : heap[i] = Singleton(Singletons[i])

OutermostInv == SingletonsStay /\ ReferencesOutermost

(* A base that is there, is no reference and, under a CONST, no const.       *)
MayStandUnder(q, base) ==
  /\ base \in Ids /\ ~IsReference(base)
  /\ q = "CONST" => ~IsConst(base)

(* Three shapes of object, told apart by their kinds.                        *)
LEMMA Kinds ==
  /\ \A k : Singleton(k).kind = "SINGLE" /\ Singleton(k).name = k
  /\ \A q, base : Qualified(q, base).kind = q /\ Qualified(q, base).base = base
  /\ \A ps, result, variadic :
       /\ FunctionType(ps, result, variadic).kind = "FUNCTION"
       /\ FunctionType(ps, result, variadic).params = ps
       /\ FunctionType(ps, result, variadic).result = result
       /\ FunctionType(ps, result, variadic).variadic = variadic
BY DEF Singleton, Qualified, FunctionType

(* The singleton kinds are where the constructor put them.                   *)
LEMMA SingletonAtIndex ==
  ASSUME FactoryInv, SingletonsStay, NEW k \in Builtins \cup {"ANY", "VOID"}
  PROVE  IndexOf(k) \in Ids /\ heap[IndexOf(k)] = Singleton(k)
<1>1. \E i \in DOMAIN Singletons : Singletons[i] = k
  BY FactoryAssumption
<1>2. IndexOf(k) \in DOMAIN Singletons /\ Singletons[IndexOf(k)] = k
  BY <1>1 DEF IndexOf
<1>3. IndexOf(k) \in Ids
  BY IndexOfSingleton, FactoryAssumption DEF FactoryInv, Ids
<1>4. QED
  BY <1>2, <1>3 DEF SingletonsStay

(* Growth leaves the singletons alone, ...                                  *)
LEMMA GrowthKeepsSingletons ==
  ASSUME FactoryInv, SingletonsStay, NEW t, NEW node, Grows(t, node)
  PROVE  SingletonsStay'
<1>1. DOMAIN Singletons \subseteq Ids
  BY FactoryAssumption DEF FactoryInv, Ids
<1>2. QED
  BY <1>1 DEF Grows, SingletonsStay

(* ... and references outermost, if the new object respects that.            *)
LEMMA GrowthKeepsOutermost ==
  ASSUME FactoryInv, OutermostInv, NEW t, NEW node, Grows(t, node),
         node.kind \in Qualifiers => MayStandUnder(node.kind, node.base)
  PROVE  OutermostInv'
<1> SUFFICES ASSUME NEW s \in Ids'
             PROVE  /\ heap'[s].kind \in Qualifiers => heap'[heap'[s].base].kind # "REF"
                    /\ heap'[s].kind = "CONST" => heap'[heap'[s].base].kind # "CONST"
  BY GrowthKeepsSingletons DEF OutermostInv, ReferencesOutermost, IsReference, IsConst
<1>1. CASE s = t
  BY <1>1 DEF Grows, MayStandUnder, IsReference, IsConst, Qualifiers
<1>2. CASE s \in Ids
  <2>1. heap'[s] = heap[s]
    BY <1>2 DEF Grows
  <2>2. heap[s].kind \in Qualifiers => heap[s].base \in Ids
    BY <1>2 DEF FactoryInv, CachesKnowTheirTypes
  <2>3. heap[s].kind \in Qualifiers => heap'[heap[s].base] = heap[heap[s].base]
    BY <2>2 DEF Grows
  <2>4. QED
    BY <1>2, <2>1, <2>3 DEF OutermostInv, ReferencesOutermost, IsReference, IsConst,
                            Qualifiers
<1>3. QED
  BY <1>1, <1>2 DEF Grows

(* getPointer, getReference and getConst, asked for what they may be.        *)
LEMMA GetKeepsOutermost ==
  ASSUME FactoryInv, OutermostInv, NEW q \in Qualifiers, NEW base, MayStandUnder(q, base),
         NEW t \in 1 .. Len(heap) + 1, Get(q, base, t)
  PROVE  OutermostInv'
<1>1. Grows(t, Qualified(q, base))
  BY GetKeeps DEF MayStandUnder
<1>2. Qualified(q, base).kind = q /\ Qualified(q, base).base = base
  BY DEF Qualified
<1>3. QED
  BY <1>1, <1>2, GrowthKeepsOutermost

(* The constructor's only qualified type points to ANY.                      *)
LEMMA InitOutermost == Init => OutermostInv
<1> SUFFICES ASSUME Init PROVE OutermostInv
  OBVIOUS
<1> DEFINE n == Len(Singletons)
           singles == [i \in DOMAIN Singletons |-> Singleton(Singletons[i])]
           node == Qualified("PTR", IndexOf("ANY"))
<1>1. n \in Nat /\ DOMAIN Singletons = 1 .. n /\ IndexOf("ANY") \in 1 .. n
  BY FactoryAssumption, IndexOfSingleton
<1>2. \A i \in 1 .. n : heap[i] = Singleton(Singletons[i])
  BY <1>1 DEF Init
<1>3. Ids = 1 .. n + 1 /\ heap[n + 1] = node
  <2> HIDE DEF node
  <2>1. \A i \in 1 .. n : singles[i] \in Nodes
    <3>1. n \in Nat /\ DOMAIN Singletons = 1 .. n /\ \A i \in 1 .. n : Singletons[i] \in STRING
      BY FactoryAssumption
    <3>2. QED
      BY <1>1, <3>1 DEF Singleton, Nodes
  <2>2. singles \in Seq(Nodes) /\ Len(singles) = n
    BY <2>1, <1>1
  <2> HIDE DEF singles
  <2>3. heap = Append(singles, node)
    BY DEF singles, node, Init
  <2>4. QED
    BY <2>2, <2>3, <1>1 DEF Ids
<1>4. \A i \in 1 .. n : heap[i].kind = "SINGLE"
  BY <1>2, Kinds
<1>5. node.kind = "PTR" /\ node.base \in 1 .. n
  BY <1>1 DEF Qualified
<1>6. QED
  BY <1>1, <1>2, <1>3, <1>4, <1>5
     DEF OutermostInv, SingletonsStay, ReferencesOutermost, IsReference, IsConst, Qualifiers

(* Every step asks the factory only for what it may be asked for.            *)
LEMMA NextOutermost == CanonicalInv /\ OutermostInv /\ [Next]_vars => OutermostInv'
<1> SUFFICES ASSUME FactoryInv, CallersInv, OutermostInv, [Next]_vars
             PROVE  OutermostInv'
  BY InvParts
<1>1. ASSUME UNCHANGED factory PROVE OutermostInv'
  BY <1>1 DEF factory, OutermostInv, SingletonsStay, ReferencesOutermost, Ids, IsReference,
              IsConst
<1>2. ASSUME NEW k \in Builtins, BuiltInType(k) PROVE OutermostInv'
  BY <1>1, <1>2 DEF BuiltInType
<1>3. ASSUME AnyPointer PROVE OutermostInv'
  <2>1. MayStandUnder("PTR", IndexOf("ANY"))
    BY SingletonAtIndex, Kinds DEF OutermostInv, MayStandUnder, IsReference
  <2>2. QED
    BY <1>3, <2>1, GetKeepsOutermost DEF AnyPointer, Qualifiers
<1>4. ASSUME NEW q \in Qualifiers, Qualify(q) PROVE OutermostInv'
  <2>1. CASE Collapses(q)
    BY <2>1, <1>1, <1>4 DEF Qualify
  <2>2. CASE ~Collapses(q)
    <3>1. MayStandUnder(q, type)
      BY <1>4, <2>2 DEF Qualify, Qualifiable, Collapses, MayStandUnder, CallersInv
    <3>2. QED
      BY <1>4, <2>2, <3>1, GetKeepsOutermost DEF Qualify
  <2>3. QED
    BY <2>1, <2>2
<1>5. ASSUME FuncParamDecl \/ VarDecl \/ UNCHANGED vars PROVE OutermostInv'
  BY <1>1, <1>5 DEF FuncParamDecl, VarDecl, vars, factory
<1>6. ASSUME NEW variadic \in BOOLEAN, FuncDecl(variadic) PROVE OutermostInv'
  <2> DEFINE result == IF type = 0 THEN IndexOf("VOID") ELSE type
  <2>1. PICK t \in 1 .. Len(heap) + 1 :
          GetFunction(FunctionType(params, result, variadic), t)
    BY <1>6 DEF FuncDecl
  <2>2. result \in Ids /\ params \in Seq(Ids)
    BY SingletonAtIndex DEF OutermostInv, CallersInv
  <2>3. Grows(t, FunctionType(params, result, variadic))
    BY <2>1, <2>2, GetFunctionKeeps
  <2>4. FunctionType(params, result, variadic).kind \notin Qualifiers
    BY DEF FunctionType, Qualifiers
  <2>5. QED
    BY <2>3, <2>4, GrowthKeepsOutermost
<1>7. ASSUME NEW d \in denoted, AddressOf(d) PROVE OutermostInv'
  <2> DEFINE operand == IF IsReference(d[2]) THEN heap[d[2]].base ELSE d[2]
  <2>1. PICK t \in 1 .. Len(heap) + 1 : Get("PTR", operand, t)
    BY <1>7 DEF AddressOf
  <2>2. d[2] \in Ids
    BY DEF CallersInv
  <2>3. IsReference(d[2]) => heap[d[2]].base \in Ids /\ ~IsReference(heap[d[2]].base)
    BY <2>2 DEF IsReference, FactoryInv, CachesKnowTheirTypes, Qualifiers, OutermostInv,
                ReferencesOutermost
  <2>4. MayStandUnder("PTR", operand)
    BY <2>2, <2>3 DEF MayStandUnder
  <2>5. QED
    BY <2>1, <2>4, GetKeepsOutermost DEF Qualifiers
<1>8. QED
  BY <1>2, <1>3, <1>4, <1>5, <1>6, <1>7 DEF Next

(* The asserts of getPointer, getReference and getConst hold for every        *)
(* program: nothing refers or points to a reference, makes one const or makes *)
(* a const type const again.                                                *)
THEOREM ReferencesOutermostHolds == Spec => []ReferencesOutermost
<1>1. Init => OutermostInv
  BY InitOutermost
<1>2. CanonicalInv /\ OutermostInv /\ [Next]_vars => OutermostInv'
  BY NextOutermost
<1>3. OutermostInv => ReferencesOutermost
  BY DEF OutermostInv
<1>4. QED
  BY <1>1, <1>2, <1>3, CanonicalInvHolds, PTL DEF Spec

-----------------------------------------------------------------------------
(* One type per writing.  A writing describes the object it was given: a      *)
(* singleton by its kind, a function type by its parts, a qualified type by   *)
(* the writing of its base and the qualifier.  ANY is never written on its    *)
(* own but counts as written, as the base of ANY PTR.                        *)

AnyDenotation == <<Writing(<<"ANY">>, <<>>), IndexOf("ANY")>>
Known == denoted \cup {AnyDenotation}

Names(w, node) == node = Singleton(node.name) /\ w = Writing(<<node.name>>, <<>>)

Declares(w, node) ==
  /\ node = FunctionType(node.params, node.result, node.variadic)
  /\ w = Writing(<<"FUNCTION", node.params, node.result, node.variadic>>, <<>>)

Extends(w, node, d, q) == node = Qualified(q, d[2]) /\ w = Then(d[1], q)

Describes(w, node, K) ==
  \/ Names(w, node)
  \/ Declares(w, node)
  \/ \E d \in K, q \in Qualifiers : Extends(w, node, d, q)

WellWritten(w) == w = Writing(w.base, w.qualifiers) /\ w.qualifiers \in Seq(Qualifiers)

OneToOne(K) == \A d, e \in K : d[1] = e[1] <=> d[2] = e[2]

KnownInv ==
  /\ \A d \in Known : /\ d[2] \in Ids /\ WellWritten(d[1])
                      /\ Describes(d[1], heap[d[2]], Known)
  /\ OneToOne(Known)

WritingsInv == KnownInv /\ (type # 0 => <<written, type>> \in denoted)

(* A writing is its two parts.                                              *)
LEMMA WritingParts ==
  ASSUME NEW b, NEW s
  PROVE  Writing(b, s).base = b /\ Writing(b, s).qualifiers = s
BY DEF Writing

(* One more qualifier: it is the last, and taking it off gives the rest.      *)
LEMMA ThenIs ==
  ASSUME NEW w, WellWritten(w), NEW q \in Qualifiers
  PROVE  /\ WellWritten(Then(w, q))
         /\ \A p : EndsWith(Then(w, q), p) <=> p = q
         /\ q = "REF" => Referent(Then(w, q)) = w
<1> DEFINE longer == Append(w.qualifiers, q)
<1>1. /\ longer \in Seq(Qualifiers) /\ longer # <<>>
      /\ Len(longer) - 1 = Len(w.qualifiers)
      /\ Last(longer) = q
      /\ SubSeq(longer, 1, Len(w.qualifiers)) = w.qualifiers
  BY DEF WellWritten, Last
<1>2. Then(w, q) = Writing(w.base, longer)
  BY DEF Then
<1> HIDE DEF longer
<1>3. Then(w, q).base = w.base /\ Then(w, q).qualifiers = longer
  BY <1>2, WritingParts
<1>4. WellWritten(Then(w, q))
  BY <1>1, <1>2, <1>3 DEF WellWritten
<1>5. \A p : EndsWith(Then(w, q), p) <=> p = q
  BY <1>1, <1>3 DEF EndsWith
<1>6. ASSUME q = "REF" PROVE Referent(Then(w, q)) = w
  BY <1>1, <1>3, <1>5, <1>6 DEF Referent, WellWritten
<1>7. QED
  BY <1>4, <1>5, <1>6

(* AppendInjective, in the direction it is needed here.                       *)
LEMMA AppendSame ==
  ASSUME NEW S, NEW s \in Seq(S), NEW t \in Seq(S), NEW e \in S, NEW f \in S,
         Append(s, e) = Append(t, f)
  PROVE  s = t /\ e = f
BY AppendInjective

(* Qualifying is injective: of the writing and of the qualifier.              *)
LEMMA ThenInjective ==
  ASSUME NEW v, NEW w, WellWritten(v), WellWritten(w), NEW p \in Qualifiers, NEW q \in Qualifiers
  PROVE  Then(v, p) = Then(w, q) <=> v = w /\ p = q
<1>1. ASSUME Then(v, p) = Then(w, q) PROVE v = w /\ p = q
  <2>1. /\ Then(v, p).base = v.base /\ Then(v, p).qualifiers = Append(v.qualifiers, p)
        /\ Then(w, q).base = w.base /\ Then(w, q).qualifiers = Append(w.qualifiers, q)
    BY WritingParts DEF Then
  <2>2. v.qualifiers = w.qualifiers /\ p = q
    <3>1. v.qualifiers \in Seq(Qualifiers) /\ w.qualifiers \in Seq(Qualifiers)
      BY DEF WellWritten
    <3>2. Append(v.qualifiers, p) = Append(w.qualifiers, q)
      BY <1>1, <2>1
    <3>3. QED
      BY <3>1, <3>2, AppendSame
  <2>3. QED
    BY <1>1, <2>1, <2>2 DEF WellWritten
<1>2. QED
  BY <1>1

(* The three ways to be described exclude one another.                       *)
LEMMA DescribedKinds ==
  ASSUME NEW w, NEW node
  PROVE  /\ Names(w, node) => node.kind = "SINGLE"
         /\ Declares(w, node) => node.kind = "FUNCTION"
         /\ \A d, q : Extends(w, node, d, q) => node.kind = q /\ node.base = d[2]
BY Kinds DEF Names, Declares, Extends

(* What the writing's parts are in each of them.                              *)
LEMMA DescribedParts ==
  ASSUME NEW w, NEW node
  PROVE  /\ Names(w, node) => w.qualifiers = <<>> /\ w.base = <<node.name>>
         /\ Declares(w, node) => /\ w.qualifiers = <<>>
                                 /\ w.base = <<"FUNCTION", node.params, node.result, node.variadic>>
<1>1. Names(w, node) => w.qualifiers = <<>> /\ w.base = <<node.name>>
  BY WritingParts DEF Names
<1>2. Declares(w, node) =>
        /\ w.qualifiers = <<>>
        /\ w.base = <<"FUNCTION", node.params, node.result, node.variadic>>
  <2> DEFINE parts == <<"FUNCTION", node.params, node.result, node.variadic>>
  <2>1. Declares(w, node) => w = Writing(parts, <<>>)
    BY DEF Declares
  <2> HIDE DEF parts
  <2>2. Declares(w, node) => w.qualifiers = <<>> /\ w.base = parts
    BY <2>1, WritingParts
  <2>3. QED
    BY <2>2 DEF parts
<1>3. QED
  BY <1>1, <1>2

(* A qualified type's writing ends with the qualifier.                        *)
LEMMA ExtendsParts ==
  ASSUME NEW w, NEW node, NEW d, NEW q, Extends(w, node, d, q)
  PROVE  w.qualifiers = Append(d[1].qualifiers, q) /\ node.kind = q /\ node.base = d[2]
<1>1. w = Writing(d[1].base, Append(d[1].qualifiers, q)) /\ node = Qualified(q, d[2])
  BY DEF Extends, Then
<1>2. w.qualifiers = Append(d[1].qualifiers, q)
  BY <1>1, WritingParts
<1>3. QED
  BY <1>1, <1>2, Kinds

(* The same writing describes equal objects, and equal objects are written    *)
(* the same way, if that is so of their bases.                               *)
LEMMA WritingFixesObject ==
  ASSUME NEW K, OneToOne(K), \A d \in K : WellWritten(d[1]),
         NEW w, NEW v, NEW node, NEW other, Describes(w, node, K), Describes(v, other, K)
  PROVE  w = v <=> node = other
<1>1. CASE Names(w, node) /\ Names(v, other)
  <2>1. node = Singleton(node.name) /\ other = Singleton(other.name)
        /\ w = Writing(<<node.name>>, <<>>) /\ v = Writing(<<other.name>>, <<>>)
    BY <1>1 DEF Names
  <2>2. w = v => <<node.name>> = <<other.name>>
    BY <1>1, DescribedParts
  <2>3. w = v => node.name = other.name
    BY <2>2
  <2>4. QED
    BY <2>1, <2>3
<1>2. CASE Declares(w, node) /\ Declares(v, other)
  <2> DEFINE parts(n) == <<"FUNCTION", n.params, n.result, n.variadic>>
  <2>1. /\ node = FunctionType(node.params, node.result, node.variadic)
        /\ other = FunctionType(other.params, other.result, other.variadic)
        /\ w = Writing(parts(node), <<>>) /\ v = Writing(parts(other), <<>>)
    BY <1>2 DEF Declares
  <2>2. w = v => parts(node) = parts(other)
    BY <1>2, DescribedParts
  <2>3. w = v => node.params = other.params /\ node.result = other.result
                 /\ node.variadic = other.variadic
    BY <2>2
  <2>4. QED
    BY <2>1, <2>3
<1>3. ASSUME NEW d \in K, NEW p \in Qualifiers, Extends(w, node, d, p),
             NEW e \in K, NEW q \in Qualifiers, Extends(v, other, e, q)
      PROVE  w = v <=> node = other
  <2>1. w = Then(d[1], p) /\ v = Then(e[1], q)
        /\ node = Qualified(p, d[2]) /\ other = Qualified(q, e[2])
    BY <1>3 DEF Extends
  <2>2. w = v <=> d[1] = e[1] /\ p = q
    BY <2>1, ThenInjective
  <2>3. node = other <=> d[2] = e[2] /\ p = q
    BY <2>1, Kinds
  <2>4. QED
    BY <2>2, <2>3 DEF OneToOne
<1>4. ASSUME NEW d \in K, NEW q \in Qualifiers, NEW x, NEW y, NEW n, NEW m,
             Extends(x, n, d, q), Names(y, m) \/ Declares(y, m)
      PROVE  x # y /\ n # m
  <2>1. x.qualifiers = Append(d[1].qualifiers, q)
    BY <1>4, ExtendsParts
  <2>5. y.qualifiers = <<>>
    BY <1>4, DescribedParts
  <2>2. Append(d[1].qualifiers, q) # <<>>
    BY DEF WellWritten
  <2>3. n.kind = q /\ m.kind \in {"SINGLE", "FUNCTION"}
    BY <1>4, DescribedKinds
  <2>4. QED
    BY <2>1, <2>2, <2>3, <2>5 DEF Qualifiers
<1>5. ASSUME NEW x, NEW y, NEW n, NEW m, Names(x, n), Declares(y, m)
      PROVE  x # y /\ n # m
  <2>1. x.base = <<n.name>> /\ y.base = <<"FUNCTION", m.params, m.result, m.variadic>>
    BY <1>5, DescribedParts
  <2>2. Len(<<n.name>>) = 1 /\ Len(<<"FUNCTION", m.params, m.result, m.variadic>>) = 4
    OBVIOUS
  <2>3. n.kind = "SINGLE" /\ m.kind = "FUNCTION"
    BY <1>5, DescribedKinds
  <2>4. QED
    BY <2>1, <2>2, <2>3
<1>6. QED
  BY <1>1, <1>2, <1>3, <1>4, <1>5 DEF Describes

(* More written types can only describe more.                                 *)
LEMMA DescribesMore ==
  ASSUME NEW K, NEW L, K \subseteq L, NEW w, NEW node, Describes(w, node, K)
  PROVE  Describes(w, node, L)
BY DEF Describes

(* A type described by what was written before may be given its writing: the  *)
(* object is no other writing's, because no two objects have the same parts.  *)
LEMMA DenotingKeeps ==
  ASSUME FactoryInv, KnownInv, Canonical', NEW t, NEW node, Grows(t, node),
         NEW w, WellWritten(w), Describes(w, node, Known), Denotes(w, t)
  PROVE  KnownInv'
<1>1. Known' = Known \cup {<<w, t>>}
  BY DEF Denotes, Known, AnyDenotation
<1>2. \A d \in Known' : /\ d[2] \in Ids' /\ WellWritten(d[1])
                        /\ Describes(d[1], heap'[d[2]], Known)
  <2> SUFFICES ASSUME NEW d \in Known'
               PROVE  /\ d[2] \in Ids' /\ WellWritten(d[1])
                      /\ Describes(d[1], heap'[d[2]], Known)
    OBVIOUS
  <2>1. CASE d \in Known
    <3>1. d[2] \in Ids /\ WellWritten(d[1]) /\ Describes(d[1], heap[d[2]], Known)
      BY <2>1 DEF KnownInv
    <3>2. heap'[d[2]] = heap[d[2]] /\ d[2] \in Ids'
      BY <3>1 DEF Grows
    <3>3. QED
      BY <3>1, <3>2
  <2>2. CASE d = <<w, t>>
    <3>1. d[1] = w /\ d[2] = t
      BY <2>2
    <3>2. heap'[t] = node /\ t \in Ids'
      BY DEF Grows
    <3>3. QED
      BY <3>1, <3>2
  <2>3. QED
    BY <1>1, <2>1, <2>2
<1>3. OneToOne(Known')
  <2> SUFFICES ASSUME NEW d \in Known', NEW e \in Known'
               PROVE  d[1] = e[1] <=> d[2] = e[2]
    BY DEF OneToOne
  <2>1. Describes(d[1], heap'[d[2]], Known) /\ Describes(e[1], heap'[e[2]], Known)
    BY <1>2
  <2>2. OneToOne(Known) /\ \A k \in Known : WellWritten(k[1])
    BY DEF KnownInv
  <2>3. d[1] = e[1] <=> heap'[d[2]] = heap'[e[2]]
    BY <2>1, <2>2, WritingFixesObject
  <2>4. heap'[d[2]] = heap'[e[2]] <=> d[2] = e[2]
    BY <1>2 DEF Canonical
  <2>5. QED
    BY <2>3, <2>4
<1>4. \A d \in Known' : Describes(d[1], heap'[d[2]], Known')
  <2>1. Known \subseteq Known'
    BY <1>1
  <2>2. QED
    BY <1>2, <2>1, DescribesMore
<1>5. QED
  BY <1>2, <1>3, <1>4 DEF KnownInv

(* A type without qualifiers is written without qualifiers.                   *)
LEMMA PlainIsWellWritten ==
  ASSUME NEW b
  PROVE  WellWritten(Writing(b, <<>>))
<1>1. Writing(b, <<>>).base = b /\ Writing(b, <<>>).qualifiers = <<>>
  BY WritingParts
<1>2. <<>> \in Seq(Qualifiers)
  OBVIOUS
<1>3. QED
  BY <1>1, <1>2 DEF WellWritten

(* A written type's last qualifier is its object's kind.                      *)
LEMMA EndsAsMade ==
  ASSUME KnownInv, NEW d \in Known, NEW q \in Qualifiers
  PROVE  EndsWith(d[1], q) <=> heap[d[2]].kind = q
<1>1. Describes(d[1], heap[d[2]], Known)
  BY DEF KnownInv
<1>2. CASE Names(d[1], heap[d[2]]) \/ Declares(d[1], heap[d[2]])
  <2>1. d[1].qualifiers = <<>>
    BY <1>2, DescribedParts
  <2>2. heap[d[2]].kind \notin Qualifiers
    BY <1>2, DescribedKinds DEF Qualifiers
  <2>3. QED
    BY <2>1, <2>2 DEF EndsWith
<1>3. ASSUME NEW e \in Known, NEW p \in Qualifiers, Extends(d[1], heap[d[2]], e, p)
      PROVE  EndsWith(d[1], q) <=> heap[d[2]].kind = q
  <2>1. d[1] = Then(e[1], p) /\ WellWritten(e[1])
    BY <1>3 DEF Extends, KnownInv
  <2>2. EndsWith(d[1], q) <=> q = p
    BY <2>1, ThenIs
  <2>3. heap[d[2]].kind = p
    BY <1>3, ExtendsParts
  <2>4. QED
    BY <2>2, <2>3
<1>4. QED
  BY <1>1, <1>2, <1>3 DEF Describes

(* A reference's writing is its referent's and REF, and the referent is       *)
(* among the written types itself.                                           *)
LEMMA ReferentIsKnown ==
  ASSUME KnownInv, NEW d \in Known
  PROVE  \E e \in Known :
           /\ e[1] = Referent(d[1])
           /\ e[2] = IF IsReference(d[2]) THEN heap[d[2]].base ELSE d[2]
<1>1. CASE IsReference(d[2])
  <2>1. heap[d[2]].kind = "REF"
    BY <1>1 DEF IsReference
  <2>2. Describes(d[1], heap[d[2]], Known)
    BY DEF KnownInv
  <2>3. ~Names(d[1], heap[d[2]]) /\ ~Declares(d[1], heap[d[2]])
    BY <2>1, DescribedKinds
  <2>4. PICK e \in Known, p \in Qualifiers : Extends(d[1], heap[d[2]], e, p)
    BY <2>2, <2>3 DEF Describes
  <2>5. heap[d[2]].kind = p /\ heap[d[2]].base = e[2]
    BY <2>4, ExtendsParts
  <2>6. d[1] = Then(e[1], p) /\ WellWritten(e[1])
    BY <2>4 DEF Extends, KnownInv
  <2>7. Referent(d[1]) = e[1]
    BY <2>1, <2>5, <2>6, ThenIs
  <2>8. QED
    BY <1>1, <2>5, <2>7
<1>2. CASE ~IsReference(d[2])
  <2>1. ~EndsWith(d[1], "REF")
    BY <1>2, EndsAsMade DEF IsReference, Qualifiers
  <2>2. QED
    BY <1>2, <2>1 DEF Referent
<1>3. QED
  BY <1>1, <1>2

(* The writings of objects without a base.                                   *)
LEMMA PlainDescribes ==
  /\ \A k, K : Describes(Writing(<<k>>, <<>>), Singleton(k), K)
  /\ \A ps, result, variadic, K :
       Describes(Writing(<<"FUNCTION", ps, result, variadic>>, <<>>),
                 FunctionType(ps, result, variadic), K)
<1>1. ASSUME NEW k, NEW K PROVE Describes(Writing(<<k>>, <<>>), Singleton(k), K)
  BY Kinds DEF Describes, Names
<1>2. ASSUME NEW ps, NEW result, NEW variadic, NEW K
      PROVE  Describes(Writing(<<"FUNCTION", ps, result, variadic>>, <<>>),
                       FunctionType(ps, result, variadic), K)
  <2> DEFINE node == FunctionType(ps, result, variadic)
  <2>1. /\ node.params = ps /\ node.result = result /\ node.variadic = variadic
    BY Kinds
  <2>2. Declares(Writing(<<"FUNCTION", ps, result, variadic>>, <<>>), node)
    BY <2>1 DEF Declares
  <2>3. QED
    BY <2>2 DEF Describes
<1>3. QED
  BY <1>1, <1>2

(* At first only ANY counts as written.                                      *)
LEMMA InitWritings == Init => WritingsInv
<1> SUFFICES ASSUME Init PROVE WritingsInv
  OBVIOUS
<1>1. FactoryInv /\ SingletonsStay
  BY InitInv, InvParts, InitOutermost DEF OutermostInv
<1>2. IndexOf("ANY") \in Ids /\ heap[IndexOf("ANY")] = Singleton("ANY")
  BY <1>1, SingletonAtIndex
<1>3. Known = {<<Writing(<<"ANY">>, <<>>), IndexOf("ANY")>>}
  BY DEF Init, Known, AnyDenotation
<1>4. WellWritten(Writing(<<"ANY">>, <<>>))
  BY PlainIsWellWritten
<1>5. Describes(Writing(<<"ANY">>, <<>>), Singleton("ANY"), Known)
  BY PlainDescribes
<1>6. KnownInv
  BY <1>2, <1>3, <1>4, <1>5 DEF KnownInv, OneToOne
<1>7. QED
  BY <1>6 DEF WritingsInv, Init

(* Every step gives a new writing to an object it describes.                  *)
LEMMA NextWritings ==
  CanonicalInv /\ OutermostInv /\ WritingsInv /\ [Next]_vars => WritingsInv'
<1> SUFFICES ASSUME CanonicalInv, OutermostInv, WritingsInv, [Next]_vars
             PROVE  WritingsInv'
  OBVIOUS
<1>1. FactoryInv /\ CallersInv /\ KnownInv /\ SingletonsStay
  BY InvParts DEF OutermostInv, WritingsInv
<1>2. Canonical'
  <2>1. CanonicalInv'
    BY NextInv
  <2>2. CanonicalInv' => Canonical'
    BY InvMakesCanonical, PTL
  <2>3. QED
    BY <2>1, <2>2
<1>3. ASSUME NEW t, NEW node, Grows(t, node), NEW w, WellWritten(w),
             Describes(w, node, Known), Denotes(w, t)
      PROVE  KnownInv' /\ <<w, t>> \in denoted'
  BY <1>1, <1>2, <1>3, DenotingKeeps DEF Denotes
<1>4. ASSUME UNCHANGED <<factory, denoted>> PROVE KnownInv'
  BY <1>1, <1>4 DEF factory, KnownInv, Known, AnyDenotation, Ids
<1>5. ASSUME NEW k \in Builtins, BuiltInType(k) PROVE WritingsInv'
  <2>1. IndexOf(k) \in Ids /\ heap[IndexOf(k)] = Singleton(k)
    BY <1>1, SingletonAtIndex
  <2>2. Grows(IndexOf(k), Singleton(k))
    BY <2>1, <1>5 DEF BuiltInType, factory, Grows, Ids
  <2>3. /\ WellWritten(Writing(<<k>>, <<>>))
        /\ Describes(Writing(<<k>>, <<>>), Singleton(k), Known)
    BY PlainIsWellWritten, PlainDescribes
  <2>4. /\ type' = IndexOf(k) /\ written' = Writing(<<k>>, <<>>)
        /\ Denotes(Writing(<<k>>, <<>>), IndexOf(k))
    BY <1>5 DEF BuiltInType, Denotes
  <2>5. KnownInv' /\ <<Writing(<<k>>, <<>>), IndexOf(k)>> \in denoted'
    BY <1>3, <2>2, <2>3, <2>4
  <2>6. QED
    BY <2>4, <2>5 DEF WritingsInv
<1>6. ASSUME NEW d \in Known, NEW q \in Qualifiers, d[2] \in Ids,
             NEW t \in 1 .. Len(heap) + 1, Get(q, d[2], t), Denotes(Then(d[1], q), t)
      PROVE  KnownInv' /\ <<Then(d[1], q), t>> \in denoted'
  <2>1. Grows(t, Qualified(q, d[2]))
    BY <1>1, <1>6, GetKeeps
  <2>2. WellWritten(Then(d[1], q))
    BY <1>1, ThenIs DEF KnownInv
  <2>3. Describes(Then(d[1], q), Qualified(q, d[2]), Known)
    BY DEF Describes, Extends
  <2>4. QED
    BY <1>3, <1>6, <2>1, <2>2, <2>3
<1>7. ASSUME AnyPointer PROVE WritingsInv'
  <2> DEFINE w == Then(AnyDenotation[1], "PTR")
  <2>1. w = Writing(<<"ANY">>, <<"PTR">>)
    <3>1. Append(<<>>, "PTR") = <<"PTR">>
      OBVIOUS
    <3>2. AnyDenotation[1] = Writing(<<"ANY">>, <<>>)
      BY DEF AnyDenotation
    <3>3. AnyDenotation[1].base = <<"ANY">> /\ AnyDenotation[1].qualifiers = <<>>
      BY <3>2, WritingParts
    <3>4. QED
      BY <3>1, <3>3 DEF Then
  <2>2. AnyDenotation \in Known /\ AnyDenotation[2] = IndexOf("ANY")
        /\ AnyDenotation[2] \in Ids /\ "PTR" \in Qualifiers
    BY <1>1, SingletonAtIndex DEF Known, AnyDenotation, Qualifiers
  <2> HIDE DEF w
  <2>3. PICK t \in 1 .. Len(heap) + 1 : Get("PTR", AnyDenotation[2], t) /\ type' = t
    BY <1>7, <2>2 DEF AnyPointer
  <2>4. written' = w /\ Denotes(w, t)
    BY <1>7, <2>1, <2>3 DEF AnyPointer, Denotes
  <2>5. KnownInv' /\ <<w, t>> \in denoted'
    BY <1>6, <2>2, <2>3, <2>4 DEF w
  <2>6. QED
    BY <2>3, <2>4, <2>5 DEF WritingsInv
<1>8. ASSUME NEW q \in Qualifiers, Qualify(q) PROVE WritingsInv'
  <2> DEFINE d == <<written, type>>
  <2>1. d \in Known /\ d[1] = written /\ d[2] = type /\ type \in Ids /\ type # 0
    BY <1>1, <1>8 DEF Qualify, Qualifiable, WritingsInv, Known, CallersInv
  <2>2. EndsWith(written, "CONST") <=> IsConst(type)
    <3>1. "CONST" \in Qualifiers
      BY DEF Qualifiers
    <3> HIDE DEF d
    <3>2. QED
      BY <1>1, <2>1, <3>1, EndsAsMade DEF IsConst
  <2>3. CASE Collapses(q)
    <3>1. written' = written /\ UNCHANGED <<factory, type>>
      BY <1>8, <2>2, <2>3 DEF Qualify, Collapses
    <3>2. denoted' = denoted
      BY <1>8, <2>1, <3>1 DEF Qualify, Denotes, WritingsInv
    <3>3. KnownInv'
      BY <1>4, <3>1, <3>2
    <3>4. QED
      BY <3>1, <3>2, <3>3 DEF WritingsInv
  <2>4. CASE ~Collapses(q)
    <3>1. written' = Then(written, q)
      BY <1>8, <2>2, <2>4 DEF Qualify, Collapses
    <3>2. PICK t \in 1 .. Len(heap) + 1 : Get(q, type, t) /\ type' = t
      BY <1>8, <2>4 DEF Qualify
    <3>3. Denotes(Then(written, q), t)
      BY <1>8, <3>1, <3>2 DEF Qualify, Denotes
    <3> HIDE DEF d
    <3>4. KnownInv' /\ <<Then(written, q), t>> \in denoted'
      BY <1>6, <2>1, <3>2, <3>3
    <3>5. QED
      BY <3>1, <3>2, <3>4 DEF WritingsInv
  <2>5. QED
    BY <2>3, <2>4
<1>9. ASSUME FuncParamDecl \/ VarDecl PROVE WritingsInv'
  BY <1>4, <1>9 DEF FuncParamDecl, VarDecl, WritingsInv
<1>10. ASSUME NEW variadic \in BOOLEAN, FuncDecl(variadic) PROVE WritingsInv'
  <2> DEFINE result == IF type = 0 THEN IndexOf("VOID") ELSE type
             w == Writing(<<"FUNCTION", params, result, variadic>>, <<>>)
             node == FunctionType(params, result, variadic)
  <2>1. PICK t \in 1 .. Len(heap) + 1 : GetFunction(node, t) /\ Denotes(w, t)
    BY <1>10 DEF FuncDecl
  <2>2. result \in Ids /\ params \in Seq(Ids)
    BY <1>1, SingletonAtIndex DEF CallersInv
  <2>3. Grows(t, node)
    BY <1>1, <2>1, <2>2, GetFunctionKeeps
  <2>4. WellWritten(w) /\ Describes(w, node, Known)
    BY PlainIsWellWritten, PlainDescribes
  <2>5. type' = 0
    BY <1>10 DEF FuncDecl
  <2> HIDE DEF w, node
  <2>6. KnownInv'
    BY <1>3, <2>1, <2>3, <2>4
  <2>7. QED
    BY <2>5, <2>6 DEF WritingsInv
<1>11. ASSUME NEW d \in denoted, AddressOf(d) PROVE WritingsInv'
  <2>1. d \in Known /\ "PTR" \in Qualifiers
    BY DEF Known, Qualifiers
  <2>2. PICK e \in Known :
          /\ e[1] = Referent(d[1])
          /\ e[2] = IF IsReference(d[2]) THEN heap[d[2]].base ELSE d[2]
    BY <1>1, <2>1, ReferentIsKnown
  <2>3. e[2] \in Ids
    BY <1>1 DEF KnownInv
  <2>4. PICK t \in 1 .. Len(heap) + 1 : Get("PTR", e[2], t) /\ Denotes(Then(e[1], "PTR"), t)
    BY <1>11, <2>2 DEF AddressOf
  <2>5. KnownInv'
    BY <1>6, <2>1, <2>3, <2>4
  <2>6. type' = 0
    BY <1>11 DEF AddressOf
  <2>7. QED
    BY <2>5, <2>6 DEF WritingsInv
<1>12. ASSUME UNCHANGED vars PROVE WritingsInv'
  <2>1. UNCHANGED <<factory, denoted>> /\ UNCHANGED <<written, type>>
    BY <1>12 DEF vars, factory
  <2>2. QED
    BY <1>4, <2>1 DEF WritingsInv
<1>13. QED
  BY <1>5, <1>7, <1>8, <1>9, <1>10, <1>11, <1>12 DEF Next

(* Two types are written the same way, redundant CONSTs aside, exactly when   *)
(* they are given the same Type*: for every program, any hash function and    *)
(* any order of declarations, type expressions and address-ofs.              *)
THEOREM OneTypePerWritingHolds == Spec => []OneTypePerWriting
<1>1. Init => OutermostInv /\ WritingsInv
  BY InitOutermost, InitWritings
<1>2. CanonicalInv /\ (OutermostInv /\ WritingsInv) /\ [Next]_vars
        => (OutermostInv /\ WritingsInv)'
  BY NextOutermost, NextWritings
<1>3. WritingsInv => OneTypePerWriting
  BY DEF WritingsInv, KnownInv, OneToOne, Known, OneTypePerWriting
<1>4. QED
  BY <1>1, <1>2, <1>3, CanonicalInvHolds, PTL DEF Spec
==============================================================================
