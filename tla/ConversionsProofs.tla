-------------------------- MODULE ConversionsProofs --------------------------
(***************************************************************************)
(* Proofs about the conversions, for any pointer width, any pointee types,  *)
(* bytes of any even number of values and any chain of conversions: which    *)
(* are allowed, and what they and the comparisons do to the values.         *)
(***************************************************************************)
EXTENDS Conversions, WellFoundedInduction, TLAPS

(* The kinds the implicit rules compare have sizes.                         *)
LEMMA BytesAreIntegers == \A k \in NumericKinds : Bytes[k] \in Int
BY TypesAssumption DEF Bytes, NumericKinds, IntegralKinds, SignedKinds, UnsignedKinds,
                             FloatKinds

(* No kind belongs to two families, and the pointers and NULL to none.      *)
LEMMA FamiliesAreDisjoint ==
  /\ IntegralKinds \cap FloatKinds = {}
  /\ SignedKinds \cap UnsignedKinds = {}
  /\ NumericKinds \cap {"PTR", "NULL", "CONST", "nullptr"} = {}
BY DEF NumericKinds, IntegralKinds, SignedKinds, UnsignedKinds, FloatKinds

(* Two pointer types with the same pointee are the same Type*.              *)
LEMMA PointersAreTheirBases ==
  ASSUME NEW t \in Types, NEW u \in Types, IsPointer(t), IsPointer(u), t.base = u.base
  PROVE  t = u
<1>1. ASSUME NEW v \in Types, IsPointer(v) PROVE v = Ptr(v.base)
  <2>1. v \notin {Of(k) : k \in NumericKinds \cup {"BOOL", "ZSTRING", "NULL"}}
    <3>1. \A k : Of(k).kind = k
      BY DEF Of
    <3>2. "PTR" \notin NumericKinds \cup {"BOOL", "ZSTRING", "NULL"}
      BY FamiliesAreDisjoint
    <3>3. QED
      BY <1>1, <3>1, <3>2 DEF IsPointer
  <2>2. v \notin {Const(b) : b \in ConstBases}
    BY <1>1 DEF IsPointer, Const
  <2>3. PICK b \in Pointees : v = Ptr(b)
    BY <2>1, <2>2 DEF Types
  <2>4. QED
    BY <2>3 DEF Ptr
<1>2. QED
  BY <1>1

(* An implicit conversion is allowed as an AS cast.                          *)
LEMMA ImplicitIsCast ==
  ASSUME NEW t, NEW u, Implicit(t, u)
  PROVE  Cast(t, u)
BY DEF Implicit, Cast, ToIntegral, ToFloatingPoint, ToPointer, IsNumeric, IsIntegral,
       IsFloatingPoint, NumericKinds, IsAnyPtr

(* Implicit conversions compose ...                                          *)
LEMMA ImplicitIsTransitive ==
  ASSUME NEW t \in Types, NEW u \in Types, NEW v \in Types, Implicit(t, u), Implicit(u, v)
  PROVE  Implicit(t, v)
<1> USE DEF Implicit, IsIntegral, IsFloatingPoint, IsPointer, IsNull, IsAnyPtr
<1>1. CASE t = u \/ u = v
  BY <1>1
<1>2. CASE t # u /\ u # v /\ IsIntegral(t) /\ ToIntegral(t, u)
  <2>1. IsIntegral(u) /\ ToIntegral(u, v)
    BY <1>2, FamiliesAreDisjoint DEF ToIntegral, NumericKinds
  <2>2. ToIntegral(t, v)
    BY <1>2, <2>1, BytesAreIntegers DEF ToIntegral, NumericKinds
  <2>3. QED
    BY <1>2, <2>2
<1>3. CASE t # u /\ u # v /\ IsFloatingPoint(t) /\ ToFloatingPoint(t, u)
  <2>1. IsFloatingPoint(u) /\ ToFloatingPoint(u, v)
    BY <1>3, FamiliesAreDisjoint DEF ToFloatingPoint, NumericKinds
  <2>2. ToFloatingPoint(t, v)
    BY <1>3, <2>1, BytesAreIntegers DEF ToFloatingPoint, NumericKinds
  <2>3. QED
    BY <1>3, <2>2
<1>4. CASE t # u /\ u # v /\ IsPointer(t) /\ ToPointer(t, u)
  <2>1. IsPointer(u) /\ ToPointer(u, v)
    BY <1>4, FamiliesAreDisjoint DEF ToPointer, NumericKinds
  <2>2. IsAnyPtr(t)
    BY <1>4, <2>1 DEF ToPointer
  <2>3. QED
    BY <1>4, <2>1, <2>2 DEF ToPointer
<1>5. QED
  BY <1>1, <1>2, <1>3, <1>4

(* ... and never lead back.                                                  *)
LEMMA ImplicitIsAntisymmetric ==
  ASSUME NEW t \in Types, NEW u \in Types, Implicit(t, u), Implicit(u, t)
  PROVE  t = u
<1> USE DEF Implicit, IsIntegral, IsFloatingPoint, IsPointer, IsNull, IsAnyPtr
<1> SUFFICES ASSUME t # u PROVE FALSE
  OBVIOUS
<1>1. CASE IsIntegral(t) /\ ToIntegral(t, u)
  <2>1. ToIntegral(u, t)
    BY <1>1, FamiliesAreDisjoint DEF ToIntegral, NumericKinds
  <2>2. QED
    BY <1>1, <2>1, BytesAreIntegers DEF ToIntegral, NumericKinds
<1>2. CASE IsFloatingPoint(t) /\ ToFloatingPoint(t, u)
  <2>1. ToFloatingPoint(u, t)
    BY <1>2, FamiliesAreDisjoint DEF ToFloatingPoint, NumericKinds
  <2>2. QED
    BY <1>2, <2>1, BytesAreIntegers DEF ToFloatingPoint, NumericKinds
<1>3. CASE IsPointer(t) /\ ToPointer(t, u)
  <2>1. IsPointer(u) /\ ToPointer(u, t)
    BY <1>3, FamiliesAreDisjoint DEF ToPointer, NumericKinds
  <2>2. t.base = u.base
    BY <1>3, <2>1 DEF ToPointer
  <2>3. QED
    BY <1>3, <2>1, <2>2, PointersAreTheirBases
<1>4. QED
  BY <1>1, <1>2, <1>3

(* The common type of two operands is the same whichever comes first.        *)
LEMMA CommonIsSymmetric ==
  ASSUME NEW t \in Types, NEW u \in Types
  PROVE  Common(t, u) = Common(u, t)
<1>1. CASE Implicit(t, u) /\ Implicit(u, t)
  BY <1>1, ImplicitIsAntisymmetric
<1>2. CASE Implicit(t, u) /\ ~Implicit(u, t)
  BY <1>2 DEF Common
<1>3. CASE ~Implicit(t, u) /\ Implicit(u, t)
  BY <1>3 DEF Common
<1>4. CASE ~Implicit(t, u) /\ ~Implicit(u, t)
  BY <1>4 DEF Common
<1>5. QED
  BY <1>1, <1>2, <1>3, <1>4

(* And both operands convert to it.                                          *)
LEMMA CommonIsCommon ==
  ASSUME NEW t \in Types, NEW u \in Types, Common(t, u) # NoType
  PROVE  Implicit(Common(t, u), t) /\ Implicit(Common(t, u), u)
<1>1. Implicit(t, t) /\ Implicit(u, u)
  BY DEF Implicit
<1>2. CASE Implicit(t, u)
  BY <1>1, <1>2 DEF Common
<1>3. CASE ~Implicit(t, u) /\ Implicit(u, t)
  BY <1>1, <1>3 DEF Common
<1>4. QED
  BY <1>2, <1>3 DEF Common

-----------------------------------------------------------------------------
(* What every reachable state satisfies: the value's type came from the      *)
(* origin's by conversions the rules allow.                                 *)
ChainInv ==
  /\ held.type \in Types /\ origin.type \in Types
  /\ Implicit(held.type, origin.type)

(* The chain invariant holds and is kept.                                    *)
LEMMA InitChain == Init => ChainInv
BY DEF Init, ChainInv, Implicit

(* Every step keeps the chain invariant.                                     *)
LEMMA NextChain == ChainInv /\ [Next]_vars => ChainInv'
<1> SUFFICES ASSUME ChainInv, [Next]_vars PROVE ChainInv'
  OBVIOUS
<1> USE DEF ChainInv
<1>1. ASSUME NEW t \in Types, Assign(t) PROVE ChainInv'
  <2>1. held'.type = t /\ origin' = origin /\ Implicit(t, held.type)
    BY <1>1 DEF Assign
  <2>2. Implicit(t, origin.type)
    BY <2>1, ImplicitIsTransitive
  <2>3. QED
    BY <2>1, <2>2
<1>2. ASSUME NEW t \in Types, As(t) PROVE ChainInv'
  BY <1>2 DEF As, Implicit
<1>3. ASSUME NEW t \in Types, NEW v \in Values(t), Compare(t, v) PROVE ChainInv'
  BY <1>3 DEF Compare
<1>4. CASE UNCHANGED vars
  BY <1>4 DEF vars
<1>5. QED
  BY <1>1, <1>2, <1>3, <1>4 DEF Next

(* A chain of implicit conversions never gets where one alone could not.     *)
THEOREM DetoursAllowNothingHolds == Spec => []DetoursAllowNothing
<1>1. ChainInv => DetoursAllowNothing
  BY DEF ChainInv, DetoursAllowNothing
<1>2. QED
  BY <1>1, InitChain, NextChain, PTL DEF Spec

(* Operand order never decides the type a comparison is made in.             *)
THEOREM CommonIsMutualHolds == Spec => []CommonIsMutual
<1>1. ChainInv => CommonIsMutual
  BY CommonIsSymmetric, CommonIsCommon DEF ChainInv, CommonIsMutual
<1>2. QED
  BY <1>1, InitChain, NextChain, PTL DEF Spec

(* The casts the analyser inserts always pass the rules of AS when an        *)
(* expression is examined a second time.                                    *)
THEOREM InsertedCastsAreCasts == Spec => [](Cast(held.type, origin.type))
<1>1. ChainInv => Cast(held.type, origin.type)
  BY ImplicitIsCast DEF ChainInv
<1>2. QED
  BY <1>1, InitChain, NextChain, PTL DEF Spec

-----------------------------------------------------------------------------
(* Spans: how many values an integral type has.                             *)

Even(n) == n \in Nat \ {0} /\ n \div 2 \in Nat \ {0} /\ n = 2 * (n \div 2)

(* The square of an even number is even and at least twice the number.      *)
LEMMA SquaresAreEven ==
  ASSUME NEW n, Even(n)
  PROVE  Even(n * n) /\ n * n >= 2 * n
<1>1. PICK h \in Nat \ {0} : n = 2 * h
  BY DEF Even
<1>2. n \in Nat /\ n >= 2
  BY <1>1
<1>3. h * n \in Nat /\ h * n >= n
  BY <1>1, <1>2
<1>4. n * n = 2 * (h * n)
  BY <1>1
<1> DEFINE k == h * n
<1>5. k \in Nat /\ k >= n /\ n * n = 2 * k
  BY <1>3, <1>4
<1> DEFINE q == n * n
<1>6. q = 2 * k
  BY <1>5
<1> HIDE DEF k, q
<1>7. Even(q) /\ q >= 2 * n
  BY <1>2, <1>5, <1>6 DEF Even
<1>8. QED
  BY <1>7 DEF q

(* The size of an integral type is one of four.                             *)
LEMMA SizesAre ==
  ASSUME NEW t, IsIntegral(t)
  PROVE  Bytes[t.kind] \in {1, 2, 4, 8}
BY TypesAssumption DEF IsIntegral, IntegralKinds, SignedKinds, UnsignedKinds, Bytes

(* Every integral type has a middle ...                                     *)
LEMMA SpansAreEven ==
  ASSUME NEW t, IsIntegral(t)
  PROVE  /\ Span(t) \in Nat \ {0} /\ Half(t) \in Nat \ {0}
         /\ Span(t) = 2 * Half(t)
<1>1. Even(ByteValues)
  BY ConversionsAssumption DEF Even
<1> DEFINE two == ByteValues * ByteValues
           four == two * two
<1>2. Even(two)
  BY <1>1, SquaresAreEven
<1>3. Even(four)
  BY <1>2, SquaresAreEven
<1>4. Even(four * four)
  BY <1>3, SquaresAreEven
<1>5. Span(t) \in {ByteValues, two, four, four * four}
  BY SizesAre DEF Span
<1>6. Even(Span(t))
  BY <1>1, <1>2, <1>3, <1>4, <1>5
<1>7. QED
  BY <1>6 DEF Even, Half

(* ... and a wider type has at least twice as many values.                  *)
LEMMA WiderSpans ==
  ASSUME NEW t, NEW u, IsIntegral(t), IsIntegral(u), Bytes[t.kind] > Bytes[u.kind]
  PROVE  Span(t) >= 2 * Span(u)
<1> DEFINE two == ByteValues * ByteValues
           four == two * two
           eight == four * four
<1>1. Even(ByteValues)
  BY ConversionsAssumption DEF Even
<1>2. Even(two) /\ two >= 2 * ByteValues
  BY <1>1, SquaresAreEven
<1>3. Even(four) /\ four >= 2 * two
  BY <1>2, SquaresAreEven
<1>4. Even(eight) /\ eight >= 2 * four
  BY <1>3, SquaresAreEven
<1>5. \A v : IsIntegral(v) =>
        \/ Bytes[v.kind] = 1 /\ Span(v) = ByteValues
        \/ Bytes[v.kind] = 2 /\ Span(v) = two
        \/ Bytes[v.kind] = 4 /\ Span(v) = four
        \/ Bytes[v.kind] = 8 /\ Span(v) = eight
  BY SizesAre DEF Span
<1> HIDE DEF two, four, eight
<1>6. QED
  BY <1>1, <1>2, <1>3, <1>4, <1>5 DEF Even

-----------------------------------------------------------------------------
(* The values a type can hold.                                              *)

HeldIn(type) ==
  LET t == Unqualified(type)
  IN IF IsIntegral(t) THEN 0 .. Span(t) - 1
     ELSE IF IsFloatingPoint(t) THEN FloatValues(t) ELSE Nat

(* A type is integral or floating-point only as it is written.              *)
LEMMA NumbersAreUnqualified ==
  ASSUME NEW t, IsIntegral(t) \/ IsFloatingPoint(t)
  PROVE  Unqualified(t) = t /\ ~(IsIntegral(t) /\ IsFloatingPoint(t))
BY FamiliesAreDisjoint DEF IsIntegral, IsFloatingPoint, Unqualified, NumericKinds

(* The ends and the middle of an integral type are among its patterns.      *)
LEMMA EndsAreHeld ==
  ASSUME NEW t, IsIntegral(t)
  PROVE  IntegerValues(t) \subseteq 0 .. Span(t) - 1
BY SpansAreEven DEF IntegerValues

(* What a program writes, its type can hold.                                *)
LEMMA ValuesAreHeld ==
  ASSUME NEW type, NEW v \in Values(type)
  PROVE  v \in HeldIn(type)
<1> DEFINE t == Unqualified(type)
<1>1. CASE IsIntegral(t)
  <2>1. ~IsFloatingPoint(t) /\ ~IsNull(t)
    BY <1>1, FamiliesAreDisjoint DEF IsIntegral, IsFloatingPoint, IsNull, NumericKinds
  <2>2. Values(type) = IntegerValues(t)
    BY <1>1, <2>1, Zenon DEF Values
  <2>3. QED
    BY <1>1, <2>2, EndsAreHeld DEF HeldIn
<1>2. CASE ~IsIntegral(t) /\ IsFloatingPoint(t)
  <2>1. ~IsNull(t)
    BY <1>2, FamiliesAreDisjoint DEF IsFloatingPoint, IsNull, NumericKinds
  <2>2. Values(type) = FloatValues(t)
    BY <1>2, <2>1, Zenon DEF Values
  <2>3. QED
    BY <1>2, <2>2 DEF HeldIn
<1>3. CASE ~IsIntegral(t) /\ ~IsFloatingPoint(t)
  BY <1>3 DEF Values, HeldIn
<1>4. QED
  BY <1>1, <1>2, <1>3

(* Floating-point values are whole numbers of halves, zero among them, and  *)
(* DOUBLE has those of SINGLE.                                              *)
LEMMA HalvesAre ==
  ASSUME NEW t
  PROVE  FloatValues(t) \subseteq -MaxHalves .. MaxHalves /\ 0 \in FloatValues(t)
BY ConversionsAssumption DEF FloatValues

(* Some element of a set of naturals is the least.                          *)
LEMMA LeastExists ==
  ASSUME NEW S, S \subseteq Nat, S # {}
  PROVE  \E i \in S : \A j \in S : i <= j
<1> DEFINE Less == {ss \in Nat \X Nat : ss[1] < ss[2]}
<1>1. IsWellFoundedOn(Less, Nat)
  BY NatLessThanWellFounded DEF OpToRel
<1>2. PICK i \in S : \A j \in S : <<j, i>> \notin Less
  <2> HIDE DEF Less
  <2>1. QED
    BY <1>1, WFMin
<1>3. ASSUME NEW j \in S PROVE i <= j
  <2>1. CASE j < i
    <3>1. <<j, i>> \in Less
      BY <2>1
    <3>2. QED
      BY <3>1, <1>2
  <2>2. QED
    BY <2>1
<1>4. QED
  BY <1>3

(* Rounding finds a value of the type ...                                   *)
LEMMA RoundedIsHeld ==
  ASSUME NEW t, NEW n \in Int
  PROVE  Rounded(t, n) \in FloatValues(t)
<1> DEFINE Distances == {Magnitude(f - n) : f \in FloatValues(t)}
<1>1. FloatValues(t) \subseteq Int /\ 0 \in FloatValues(t)
  BY HalvesAre, ConversionsAssumption
<1>2. \A f \in Int : Magnitude(f - n) \in Nat
  BY DEF Magnitude
<1>3. Distances \subseteq Nat /\ Distances # {}
  BY <1>1, <1>2
<1>4. \E d \in Distances : \A e \in Distances : d <= e
  <2> HIDE DEF Distances
  <2>1. QED
    BY <1>3, LeastExists
<1>5. \E f \in FloatValues(t) : \A g \in FloatValues(t) : Magnitude(f - n) <= Magnitude(g - n)
  BY <1>4
<1>6. QED
  BY <1>5 DEF Rounded

(* ... and a value the type has is kept.                                    *)
LEMMA RoundedIsExact ==
  ASSUME NEW t, NEW n \in FloatValues(t)
  PROVE  Rounded(t, n) = n
<1>1. FloatValues(t) \subseteq Int
  BY HalvesAre, ConversionsAssumption
<1>2. \A g \in FloatValues(t) : Magnitude(n - n) <= Magnitude(g - n)
  BY <1>1 DEF Magnitude
<1>3. \A f \in FloatValues(t) :
        (\A g \in FloatValues(t) : Magnitude(f - n) <= Magnitude(g - n)) => f = n
  <2> SUFFICES ASSUME NEW f \in FloatValues(t), Magnitude(f - n) <= Magnitude(n - n) PROVE f = n
    OBVIOUS
  <2>1. QED
    BY <1>1 DEF Magnitude
<1>4. QED
  BY <1>2, <1>3 DEF Rounded

-----------------------------------------------------------------------------
(* The casts.                                                               *)

(* A value's number is one.                                                 *)
LEMMA NumbersAre ==
  ASSUME NEW type, NEW v \in HeldIn(type)
  PROVE  Number(type, v) \in Int
<1> DEFINE t == Unqualified(type)
<1>1. CASE IsIntegral(t)
  <2>1. ~IsFloatingPoint(t) /\ v \in Int
    BY <1>1, NumbersAreUnqualified, SpansAreEven DEF HeldIn
  <2>2. QED
    BY <1>1, <2>1, SpansAreEven DEF Number
<1>2. CASE ~IsIntegral(t) /\ IsFloatingPoint(t)
  <2>1. ~IsSignedIntegral(t) /\ v \in FloatValues(t)
    BY <1>2 DEF IsIntegral, IsSignedIntegral, IntegralKinds, HeldIn
  <2>2. Number(type, v) = v
    BY <1>2, <2>1, Zenon DEF Number
  <2>3. QED
    BY <2>1, <2>2, HalvesAre, ConversionsAssumption
<1>3. CASE ~IsIntegral(t) /\ ~IsFloatingPoint(t)
  <2>1. v \in Nat /\ ~IsSignedIntegral(t)
    BY <1>3 DEF HeldIn, IsIntegral, IsSignedIntegral, IntegralKinds
  <2>2. QED
    BY <1>3, <2>1 DEF Number
<1>4. QED
  BY <1>1, <1>2, <1>3

(* Pointers are not numbers.                                                *)
LEMMA PointersAreUnqualified ==
  ASSUME NEW t, IsPointer(t) \/ IsNull(t)
  PROVE  ~IsIntegral(t) /\ ~IsFloatingPoint(t) /\ Unqualified(t) = t
BY FamiliesAreDisjoint DEF IsPointer, IsNull, IsIntegral, IsFloatingPoint, Unqualified, NumericKinds

(* What is of the type already stays.                                       *)
LEMMA SameTypeCast ==
  ASSUME NEW t, NEW v
  PROVE  LowerCast(t, t, v) = {v}
BY DEF LowerCast

(* How numbers are cast.                                                    *)
LEMMA NumericCasts ==
  ASSUME NEW from, NEW to, from # to, NEW v
  PROVE  /\ IsIntegral(from) /\ IsIntegral(to) => LowerCast(from, to, v) = {IntegerCast(from, to, v)}
         /\ IsIntegral(from) /\ IsFloatingPoint(to) =>
              LowerCast(from, to, v) = {Rounded(to, Number(from, v))}
         /\ IsFloatingPoint(from) /\ IsIntegral(to) => LowerCast(from, to, v) = TruncatedFloat(to, v)
         /\ IsFloatingPoint(from) /\ IsFloatingPoint(to) => LowerCast(from, to, v) = {Rounded(to, v)}
<1>1. \A t : ~(IsIntegral(t) /\ IsFloatingPoint(t))
  BY FamiliesAreDisjoint DEF IsIntegral, IsFloatingPoint
<1>2. QED
  BY <1>1, Zenon DEF LowerCast

(* Pointers all look alike.                                                 *)
LEMMA PointerCasts ==
  ASSUME NEW from, NEW to, IsPointer(to), IsNull(from) \/ IsPointer(from), NEW v
  PROVE  LowerCast(from, to, v) = {v}
<1>1. CASE from = to
  BY <1>1, SameTypeCast
<1>2. CASE from # to
  BY <1>2, PointersAreUnqualified, Zenon DEF LowerCast
<1>3. QED
  BY <1>1, <1>2

(* Every cast leaves a value its type can hold.                             *)
LEMMA CastsAreHeld ==
  ASSUME NEW from, NEW to, NEW v \in HeldIn(from), Cast(to, from),
         NEW w \in LowerCast(from, to, v)
  PROVE  w \in HeldIn(to)
<1>1. CASE from = to
  BY <1>1, SameTypeCast
<1>2. CASE from # to /\ IsIntegral(from) /\ IsIntegral(to)
  <2>1. w = IntegerCast(from, to, v)
    BY <1>2, NumericCasts
  <2>2. v \in 0 .. Span(from) - 1
    BY <1>2, NumbersAreUnqualified DEF HeldIn
  <2>3. HeldIn(to) = 0 .. Span(to) - 1
    BY <1>2, NumbersAreUnqualified DEF HeldIn
  <2>4. CASE Bytes[to.kind] > Bytes[from.kind]
    <3>1. Span(to) >= 2 * Span(from) /\ Span(from) \in Nat /\ Span(to) \in Nat
      BY <1>2, <2>4, WiderSpans, SpansAreEven
    <3>2. w \in {v, v + Span(to) - Span(from)}
      BY <2>1, <2>4 DEF IntegerCast
    <3>3. QED
      BY <2>2, <2>3, <3>1, <3>2
  <2>5. CASE ~(Bytes[to.kind] > Bytes[from.kind])
    <3>1. w = v % Span(to) /\ Span(to) \in Nat \ {0} /\ v \in Int
      BY <1>2, <2>1, <2>2, <2>5, SpansAreEven DEF IntegerCast
    <3>2. QED
      BY <2>3, <3>1
  <2>6. QED
    BY <2>4, <2>5
<1>3. CASE from # to /\ IsIntegral(from) /\ IsFloatingPoint(to)
  <2>1. w = Rounded(to, Number(from, v))
    BY <1>3, NumericCasts
  <2>2. w \in FloatValues(to)
    BY <2>1, NumbersAre, RoundedIsHeld
  <2>3. QED
    BY <1>3, <2>2, NumbersAreUnqualified DEF HeldIn
<1>4. CASE from # to /\ IsFloatingPoint(from) /\ IsIntegral(to)
  <2>1. w \in TruncatedFloat(to, v)
    BY <1>4, NumericCasts
  <2>2. w \in 0 .. Span(to) - 1
    BY <1>4, <2>1, EndsAreHeld DEF TruncatedFloat
  <2>3. QED
    BY <1>4, <2>2, NumbersAreUnqualified DEF HeldIn
<1>5. CASE from # to /\ IsFloatingPoint(from) /\ IsFloatingPoint(to)
  <2>1. v \in FloatValues(from)
    BY <1>5, NumbersAreUnqualified DEF HeldIn
  <2>2. v \in Int
    BY <2>1, HalvesAre, ConversionsAssumption
  <2>3. w = Rounded(to, v)
    BY <1>5, NumericCasts
  <2>4. w \in FloatValues(to)
    BY <2>2, <2>3, RoundedIsHeld
  <2>5. QED
    BY <1>5, <2>4, NumbersAreUnqualified DEF HeldIn
<1>6. CASE from # to /\ IsPointer(to) /\ (IsNull(from) \/ IsPointer(from))
  <2>1. w = v
    BY <1>6, PointerCasts
  <2>2. QED
    BY <1>6, <2>1, PointersAreUnqualified DEF HeldIn
<1>7. QED
  BY <1>1, <1>2, <1>3, <1>4, <1>5, <1>6 DEF Cast, IsNumeric, IsIntegral, IsFloatingPoint, NumericKinds

(* An implicit conversion keeps the number, or the address, a value stands   *)
(* for: a wider pattern has room for every number of a narrower one, signed *)
(* if it was, and DOUBLE for every SINGLE.                                  *)
LEMMA ImplicitKeepsNumber ==
  ASSUME NEW from, NEW to, NEW v \in HeldIn(from), Implicit(to, from),
         NEW w \in LowerCast(from, to, v)
  PROVE  Number(to, w) = Number(from, v)
<1>1. CASE from = to
  BY <1>1, SameTypeCast
<1>2. CASE from # to /\ IsIntegral(to) /\ ToIntegral(to, from)
  <2>1. IsIntegral(from) /\ Bytes[to.kind] > Bytes[from.kind]
        /\ (IsSignedIntegral(from) => IsSignedIntegral(to))
    BY <1>2 DEF ToIntegral
  <2>2. Unqualified(from) = from /\ Unqualified(to) = to /\ ~IsFloatingPoint(from) /\ ~IsFloatingPoint(to)
    BY <1>2, <2>1, NumbersAreUnqualified
  <2>3. w = IntegerCast(from, to, v)
    BY <1>2, <2>1, NumericCasts
  <2>4. /\ v \in 0 .. Span(from) - 1
        /\ Span(to) >= 2 * Span(from) /\ Span(from) = 2 * Half(from) /\ Span(to) = 2 * Half(to)
        /\ Span(from) \in Nat \ {0} /\ Span(to) \in Nat \ {0} /\ Half(from) \in Nat \ {0} /\ Half(to) \in Nat \ {0}
    BY <1>2, <2>1, <2>2, WiderSpans, SpansAreEven DEF HeldIn
  <2>5. CASE ~IsSignedIntegral(from)
    <3>1. w = v
      BY <2>1, <2>2, <2>3, <2>5 DEF IntegerCast, IsSigned
    <3>2. Number(from, v) = 2 * v
      BY <2>2, <2>5, Zenon DEF Number
    <3>3. CASE ~IsSignedIntegral(to)
      <4>1. Number(to, w) = 2 * w
        BY <2>2, <3>3, Zenon DEF Number
      <4>2. QED
        BY <3>1, <3>2, <4>1
    <3>4. CASE IsSignedIntegral(to)
      <4>1. Number(to, w) = 2 * (IF w >= Half(to) THEN w - Span(to) ELSE w)
        BY <2>2, <3>4, Zenon DEF Number
      <4>2. ~(w >= Half(to))
        BY <2>4, <3>1
      <4>3. QED
        BY <3>1, <3>2, <4>1, <4>2
    <3>5. QED
      BY <3>3, <3>4
  <2>6. CASE IsSignedIntegral(from)
    <3>1. Number(from, v) = 2 * (IF v >= Half(from) THEN v - Span(from) ELSE v)
      BY <2>2, <2>6, Zenon DEF Number
    <3>2. Number(to, w) = 2 * (IF w >= Half(to) THEN w - Span(to) ELSE w)
      BY <2>1, <2>2, <2>6, Zenon DEF Number
    <3>3. w = IF v >= Half(from) THEN v + Span(to) - Span(from) ELSE v
      BY <2>1, <2>2, <2>3, <2>6 DEF IntegerCast, IsSigned
    <3>4. CASE v >= Half(from)
      <4>1. w = v + Span(to) - Span(from) /\ w >= Half(to)
        BY <2>4, <3>3, <3>4
      <4>2. QED
        BY <2>4, <3>1, <3>2, <3>4, <4>1
    <3>5. CASE ~(v >= Half(from))
      <4>1. w = v /\ ~(w >= Half(to))
        BY <2>4, <3>3, <3>5
      <4>2. QED
        BY <3>1, <3>2, <3>5, <4>1
    <3>6. QED
      BY <3>4, <3>5
  <2>7. QED
    BY <2>5, <2>6
<1>3. CASE from # to /\ IsFloatingPoint(to) /\ ToFloatingPoint(to, from)
  <2>1. IsFloatingPoint(from) /\ Bytes[to.kind] > Bytes[from.kind]
    BY <1>3 DEF ToFloatingPoint
  <2>2. to.kind = "DOUBLE"
    BY <1>3, <2>1 DEF Bytes, IsFloatingPoint, FloatKinds
  <2>3. /\ Unqualified(from) = from /\ Unqualified(to) = to
        /\ ~IsIntegral(from) /\ ~IsIntegral(to)
    BY <1>3, <2>1, NumbersAreUnqualified
  <2>4. ~IsSignedIntegral(from) /\ ~IsSignedIntegral(to)
    BY <2>3 DEF IsIntegral, IsSignedIntegral, IntegralKinds
  <2>5. v \in FloatValues(from)
    BY <2>1, <2>3 DEF HeldIn
  <2>6. v \in FloatValues(to)
    BY <2>2, <2>5, HalvesAre DEF FloatValues
  <2>7. w = v
    BY <1>3, <2>1, <2>6, NumericCasts, RoundedIsExact
  <2>8. Number(from, v) = v /\ Number(to, w) = w
    BY <1>3, <2>1, <2>3, <2>4, Zenon DEF Number
  <2>9. QED
    BY <2>7, <2>8
<1>4. CASE from # to /\ IsPointer(to) /\ ToPointer(to, from)
  <2>1. IsNull(from) \/ IsPointer(from)
    BY <1>4 DEF ToPointer
  <2>2. w = v
    BY <1>4, <2>1, PointerCasts
  <2>3. \A t, u : IsPointer(t) \/ IsNull(t) => Number(t, u) = 2 * u
    <3>1. SUFFICES ASSUME NEW t, NEW u, IsPointer(t) \/ IsNull(t) PROVE Number(t, u) = 2 * u
      OBVIOUS
    <3>2. Unqualified(t) = t /\ ~IsFloatingPoint(t) /\ ~IsSignedIntegral(t)
      BY <3>1, PointersAreUnqualified DEF IsIntegral, IsSignedIntegral, IntegralKinds
    <3>3. QED
      BY <3>2, Zenon DEF Number
  <2>4. QED
    BY <1>4, <2>1, <2>2, <2>3
<1>5. QED
  BY <1>1, <1>2, <1>3, <1>4 DEF Implicit

-----------------------------------------------------------------------------
(* Comparing.                                                               *)

(* On one type, other than a const floating-point one, the instruction      *)
(* chosen orders two values as the numbers they stand for are ordered: the  *)
(* patterns themselves, or those with the top bit flipped.                  *)
LEMMA ComparisonOrders ==
  ASSUME NEW t, NEW l \in HeldIn(t), NEW r \in HeldIn(t),
         IsFloatingPoint(Unqualified(t)) => IsFloatingPoint(t)
  PROVE  LessThan(t, l, r) = Answer(Number(t, l) < Number(t, r))
<1> DEFINE u == Unqualified(t)
<1>1. CASE IsFloatingPoint(t)
  <2>1. u = t /\ ~IsIntegral(t)
    BY <1>1, NumbersAreUnqualified
  <2>2. ~IsSignedIntegral(u) /\ ~IsSigned(t)
    BY <2>1 DEF IsIntegral, IsSignedIntegral, IntegralKinds, IsSigned
  <2>3. Number(t, l) = l /\ Number(t, r) = r
    BY <1>1, <2>1, <2>2, Zenon DEF Number
  <2>4. LessThan(t, l, r) = Answer(l < r)
    BY <1>1, <2>1, <2>2, Zenon DEF LessThan
  <2>5. QED
    BY <2>3, <2>4
<1>2. CASE ~IsFloatingPoint(t) /\ IsSignedIntegral(u)
  <2>1. ~IsFloatingPoint(u) /\ IsIntegral(u)
    BY <1>2 DEF IsIntegral, IsSignedIntegral, IntegralKinds
  <2>2. /\ Span(u) = 2 * Half(u) /\ Span(u) \in Nat \ {0} /\ Half(u) \in Nat \ {0}
        /\ l \in 0 .. Span(u) - 1 /\ r \in 0 .. Span(u) - 1
    BY <2>1, SpansAreEven DEF HeldIn
  <2>3. LessThan(t, l, r) = Answer(FlipSign(t, l) < FlipSign(t, r))
    BY <1>2, <2>1, Zenon DEF LessThan, IsSigned
  <2>4. ASSUME NEW v \in 0 .. Span(u) - 1
        PROVE  /\ FlipSign(t, v) \in Int /\ Number(t, v) \in Int
               /\ Number(t, v) = 2 * (FlipSign(t, v) - Half(u))
    <3>1. Number(t, v) = 2 * (IF v >= Half(u) THEN v - Span(u) ELSE v)
      BY <1>2, <2>1, Zenon DEF Number
    <3>2. FlipSign(t, v) = (v + Half(u)) % Span(u)
      BY DEF FlipSign
    <3> DEFINE h == Half(u)
               n == Span(u)
    <3>3. h \in Nat \ {0} /\ n = 2 * h /\ v \in 0 .. n - 1
      BY <2>2, <2>4
    <3> HIDE DEF h, n
    <3>4. (v + h) % n = IF v >= h THEN v - h ELSE v + h
      BY <3>3
    <3>5. QED
      BY <3>1, <3>2, <3>3, <3>4 DEF h, n
  <2>5. FlipSign(t, l) < FlipSign(t, r) <=> Number(t, l) < Number(t, r)
    BY <2>2, <2>4
  <2>6. QED
    BY <2>3, <2>5 DEF Answer
<1>3. CASE ~IsFloatingPoint(t) /\ ~IsSignedIntegral(u)
  <2>1. Number(t, l) = 2 * l /\ Number(t, r) = 2 * r
    BY <1>3, Zenon DEF Number
  <2>2. l \in Int /\ r \in Int
    <3>1. CASE IsIntegral(u)
      BY <3>1, SpansAreEven DEF HeldIn
    <3>2. CASE ~IsIntegral(u)
      BY <1>3, <3>2 DEF HeldIn
    <3>3. QED
      BY <3>1, <3>2
  <2>3. LessThan(t, l, r) = Answer(l < r)
    BY <1>3, Zenon DEF LessThan, IsSigned
  <2>4. l < r <=> 2 * l < 2 * r
    BY <2>2
  <2>5. QED
    BY <2>1, <2>3, <2>4 DEF Answer
<1>4. QED
  BY <1>1, <1>2, <1>3


-----------------------------------------------------------------------------
(* The value's invariant.                                                   *)

(* The value is one its type can hold, and stands for what the origin does.  *)
ValueInv ==
  /\ ChainInv
  /\ held.value \in HeldIn(held.type)
  /\ ImplicitKeepsValue

(* It holds from the start ...                                              *)
LEMMA InitValue == Init => ValueInv
BY InitChain, ValuesAreHeld DEF Init, ValueInv, ImplicitKeepsValue

(* ... and is kept: by an assignment because the number is, by an AS cast    *)
(* because the chain starts again.                                          *)
LEMMA NextValue == ValueInv /\ [Next]_vars => ValueInv'
<1> SUFFICES ASSUME ValueInv, [Next]_vars PROVE ValueInv'
  OBVIOUS
<1>1. ChainInv'
  BY NextChain DEF ValueInv
<1>2. ASSUME NEW t \in Types, Assign(t) PROVE ValueInv'
  <2>1. PICK v \in LowerCast(held.type, t, held.value) : held' = [type |-> t, value |-> v]
    BY <1>2 DEF Assign
  <2>2. Implicit(t, held.type) /\ origin' = origin /\ held'.type = t /\ held'.value = v
    BY <1>2, <2>1 DEF Assign
  <2>3. v \in HeldIn(t) /\ Number(t, v) = Number(held.type, held.value)
    BY <2>2, ImplicitIsCast, CastsAreHeld, ImplicitKeepsNumber DEF ValueInv
  <2>4. QED
    BY <1>1, <2>2, <2>3 DEF ValueInv, ImplicitKeepsValue
<1>3. ASSUME NEW t \in Types, As(t) PROVE ValueInv'
  <2>1. PICK v \in LowerCast(held.type, t, held.value) : held' = [type |-> t, value |-> v]
    BY <1>3 DEF As
  <2>2. Cast(t, held.type) /\ origin' = held' /\ held'.type = t /\ held'.value = v
    BY <1>3, <2>1 DEF As
  <2>3. v \in HeldIn(t)
    BY <2>2, CastsAreHeld DEF ValueInv
  <2>4. QED
    BY <1>1, <2>2, <2>3 DEF ValueInv, ImplicitKeepsValue
<1>4. ASSUME NEW t \in Types, NEW v \in Values(t), Compare(t, v) PROVE ValueInv'
  BY <1>1, <1>4 DEF Compare, ValueInv, ImplicitKeepsValue
<1>5. CASE UNCHANGED vars
  BY <1>1, <1>5 DEF vars, ValueInv, ImplicitKeepsValue
<1>6. QED
  BY <1>2, <1>3, <1>4, <1>5 DEF Next

(* However many implicit conversions a value has gone through, it stands for *)
(* the number or the address it stood for at first (lowerCast extends by the *)
(* sign of the type it comes from).                                         *)
THEOREM ImplicitKeepsValueHolds == Spec => []ImplicitKeepsValue
<1>1. ValueInv => ImplicitKeepsValue
  BY DEF ValueInv
<1>2. QED
  BY <1>1, InitValue, NextValue, PTL DEF Spec

(* No const-qualified type is a floating-point one: where one is, the        *)
(* instruction chosen is none (ConstErased).                                *)
NoConstFloats == ConstBases \cap FloatKinds = {}

(* Then a type is a floating-point one as it is written, or not at all.      *)
LEMMA FloatsAreWritten ==
  ASSUME NoConstFloats, NEW t \in Types, IsFloatingPoint(Unqualified(t))
  PROVE  IsFloatingPoint(t)
<1>1. CASE t.kind # "CONST"
  BY <1>1 DEF Unqualified
<1>2. CASE t.kind = "CONST"
  <2>1. \A k : Of(k).kind = k
    BY DEF Of
  <2>2. t \notin {Of(k) : k \in NumericKinds \cup {"BOOL", "ZSTRING", "NULL"}}
    BY <1>2, <2>1, FamiliesAreDisjoint
  <2>3. t \notin {Ptr(b) : b \in Pointees}
    BY <1>2 DEF Ptr
  <2>4. PICK b \in ConstBases : t = Const(b)
    BY <2>2, <2>3 DEF Types
  <2>5. Unqualified(t) = Of(b)
    BY <2>4 DEF Const, Unqualified
  <2>6. b \in FloatKinds
    BY <2>1, <2>5 DEF IsFloatingPoint
  <2>7. QED
    BY <2>6 DEF NoConstFloats
<1>3. QED
  BY <1>1, <1>2

(* What two operands are compared as has the order of their numbers.         *)
LEMMA CompareIsMeant ==
  ASSUME NoConstFloats, ValueInv, NEW t \in Types, NEW v \in Values(t), Compare(t, v)
  PROVE  ComparesAsNumbers'
<1> DEFINE c == Common(held.type, t)
<1>1. c # NoType /\ held.type \in Types /\ held.value \in HeldIn(held.type) /\ v \in HeldIn(t)
  BY ValuesAreHeld DEF Compare, ValueInv, ChainInv
<1>2. Implicit(c, held.type) /\ Implicit(c, t)
  BY <1>1, CommonIsCommon
<1>3. c \in Types
  BY <1>1 DEF Common
<1>4. PICK l \in LowerCast(held.type, c, held.value) :
      \E r \in LowerCast(t, c, v) :
        verdict' = [lowered |-> LessThan(c, l, r),
                    meant |-> Answer(Number(held.type, held.value) < Number(t, v))]
  BY DEF Compare
<1>5. PICK r \in LowerCast(t, c, v) :
        verdict' = [lowered |-> LessThan(c, l, r),
                    meant |-> Answer(Number(held.type, held.value) < Number(t, v))]
  BY <1>4
<1> HIDE DEF c
<1>6. l \in HeldIn(c) /\ Number(c, l) = Number(held.type, held.value)
  BY <1>1, <1>2, ImplicitIsCast, CastsAreHeld, ImplicitKeepsNumber
<1>7. r \in HeldIn(c) /\ Number(c, r) = Number(t, v)
  BY <1>1, <1>2, ImplicitIsCast, CastsAreHeld, ImplicitKeepsNumber
<1>8. LessThan(c, l, r) = Answer(Number(c, l) < Number(c, r))
  BY <1>3, <1>6, <1>7, FloatsAreWritten, ComparisonOrders
<1>9. QED
  BY <1>5, <1>6, <1>7, <1>8 DEF ComparesAsNumbers

(* Operands of any types, widths and signs that may be compared are compared *)
(* as the numbers they stand for, floating-point ones read through a const  *)
(* pointer set aside (lowerInstruction).                                    *)
THEOREM ComparesAsNumbersHolds ==
  ASSUME NoConstFloats
  PROVE  Spec => []ComparesAsNumbers
<1>1. Init => ValueInv /\ ComparesAsNumbers
  BY InitValue DEF Init, ComparesAsNumbers, NoVerdict
<1>2. ValueInv /\ ComparesAsNumbers /\ [Next]_vars => (ValueInv /\ ComparesAsNumbers)'
  <2> SUFFICES ASSUME ValueInv, ComparesAsNumbers, [Next]_vars PROVE (ValueInv /\ ComparesAsNumbers)'
    OBVIOUS
  <2>1. ValueInv'
    BY NextValue
  <2>2. ASSUME NEW t \in Types, Assign(t) \/ As(t) PROVE ComparesAsNumbers'
    BY <2>2 DEF Assign, As, ComparesAsNumbers, NoVerdict
  <2>3. ASSUME NEW t \in Types, NEW v \in Values(t), Compare(t, v) PROVE ComparesAsNumbers'
    BY <2>3, CompareIsMeant
  <2>4. ASSUME UNCHANGED vars PROVE ComparesAsNumbers'
    BY <2>4 DEF vars, ComparesAsNumbers
  <2>5. QED
    BY <2>1, <2>2, <2>3, <2>4 DEF Next
<1>3. QED
  BY <1>1, <1>2, PTL DEF Spec
=============================================================================
