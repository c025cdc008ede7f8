----------------------------- MODULE Conversions -----------------------------
(***************************************************************************)
(* What the code generator makes of the conversions that TypeRules allows   *)
(* (lowerCast, isSigned and the comparisons of lowerInstruction): one value  *)
(* travels through a chain of initialisations, assignments and AS casts,    *)
(* and is compared with others.                                             *)
(*                                                                         *)
(* An integer is held as its bit pattern, a byte having ByteValues of them; a *)
(* floating-point number as a count of halves, SINGLE holding fewer of them *)
(* than DOUBLE; a pointer, a ZSTRING and a BOOL as a natural number.        *)
(* (An operator used nowhere is a mutant of the definition that follows.)   *)
(***************************************************************************)
EXTENDS TypeRules

CONSTANTS
  ByteValues,    \* how many values a byte has in the model
  MaxHalves      \* bound: floating-point magnitudes, in halves

ASSUME ConversionsAssumption ==
  ByteValues \in Nat \ {0} /\ ByteValues % 2 = 0 /\ MaxHalves \in Nat

VARIABLES
  held,     \* [type, value]: the value as it is stored now
  origin,   \* history: how it was stored before the implicit conversions since
  verdict   \* the last comparison: [lowered, meant]

vars == <<held, origin, verdict>>

-----------------------------------------------------------------------------
(* Stored values and the numbers they stand for.                            *)

(* Values of as many bytes as an integral type has, and their middle: the    *)
(* least pattern with the top bit set.                                      *)
Span(t) ==
  LET two == ByteValues * ByteValues
      four == two * two
  IN CASE Bytes[t.kind] = 1 -> ByteValues
       [] Bytes[t.kind] = 2 -> two
       [] Bytes[t.kind] = 4 -> four
       [] Bytes[t.kind] = 8 -> four * four
Half(t) == Span(t) \div 2
Unqualified(t) == IF t.kind = "CONST" THEN Of(t.base) ELSE t

(* What a program may hold in a type: for integers, the ends and the middle. *)
IntegerValues(t) ==
  {0, 1, Half(t) - 1, Half(t), Span(t) - 1}
FloatValues(t) ==
  IF t.kind = "DOUBLE" THEN -MaxHalves .. MaxHalves
  ELSE {h \in -MaxHalves .. MaxHalves : h % 2 = 0}
Values(type) ==
  LET t == Unqualified(type)
  IN CASE IsIntegral(t) -> IntegerValues(t)
       [] IsFloatingPoint(t) -> FloatValues(t)
       [] IsNull(t) -> {0}
       [] OTHER -> {0, 1}

(* The number a stored value stands for, in halves.                         *)
Number(type, v) ==
  LET t == Unqualified(type)
  IN CASE IsFloatingPoint(t) -> v
       [] IsSignedIntegral(t) -> 2 * (IF v >= Half(t) THEN v - Span(t) ELSE v)
       [] OTHER -> 2 * v

-----------------------------------------------------------------------------
(* The lowering.                                                            *)

IsSigned(type) == IsSignedIntegral(Unqualified(type))

Magnitude(n) == IF n < 0 THEN -n ELSE n
Rounded(t, n) ==
  CHOOSE f \in FloatValues(t) :
    \A g \in FloatValues(t) : Magnitude(f - n) <= Magnitude(g - n)

ZeroExtends(from, to, v) == v % Span(to)

(* SExt repeats the sign bit, ZExt fills with zeros, Trunc drops the top.    *)
IntegerCast(from, to, v) ==
  IF Bytes[to.kind] > Bytes[from.kind]
  THEN IF IsSigned(from) /\ v >= Half(from) THEN v + Span(to) - Span(from) ELSE v
  ELSE v % Span(to)

(* FPToSI and FPToUI round towards zero; out of range the result is poison.  *)
TruncatedFloat(to, v) ==
  LET n == IF v < 0 THEN -((-v) \div 2) ELSE v \div 2
      fits == {u \in {n, n + Span(to)} : u \in 0 .. Span(to) - 1 /\ Number(to, u) = 2 * n}
  IN IF fits # {} THEN fits ELSE IntegerValues(to)

(* The values a cast's result may have.                                     *)
LowerCast(from, to, v) ==
  IF from = to THEN {v}
  ELSE CASE IsIntegral(from) /\ IsIntegral(to) -> {IntegerCast(from, to, v)}
         [] IsIntegral(from) /\ IsFloatingPoint(to) -> {Rounded(to, Number(from, v))}
         [] IsFloatingPoint(from) /\ IsIntegral(to) -> TruncatedFloat(to, v)
         [] IsFloatingPoint(from) /\ IsFloatingPoint(to) -> {Rounded(to, v)}
         [] OTHER -> {v}

(* A signed comparison is an unsigned one with the sign bits flipped.        *)
FlipSign(type, v) ==
  LET t == Unqualified(type) IN (v + Half(t)) % Span(t)

(* Lt on two operands of one type: FCmp, signed or unsigned ICmp, chosen by  *)
(* the type as it is written - an ICmp on floating-point operands has none.  *)
Answer(b) == IF b THEN "yes" ELSE "no"
LessThan(t, l, r) ==
  CASE IsFloatingPoint(t) -> Answer(l < r)
    [] ~IsFloatingPoint(t) /\ IsFloatingPoint(Unqualified(t)) -> "invalid"
    [] IsSigned(t) -> Answer(FlipSign(t, l) < FlipSign(t, r))
    [] OTHER -> Answer(l < r)

-----------------------------------------------------------------------------
(* A value's way through a program.                                         *)

NoVerdict == [lowered |-> "no", meant |-> "no"]

Init ==
  /\ \E t \in Types : \E v \in Values(t) : held = [type |-> t, value |-> v]
  /\ origin = held
  /\ verdict = NoVerdict

(* castOrCoerce on a variable: DIM x AS t = y, x = y, an argument.           *)
Assign(t) ==
  /\ t # Of("NULL") /\ Implicit(t, held.type)
  /\ \E v \in LowerCast(held.type, t, held.value) : held' = [type |-> t, value |-> v]
  /\ verdict' = NoVerdict
  /\ UNCHANGED origin

(* An AS cast.                                                              *)
As(t) ==
  /\ t # Of("NULL") /\ Cast(t, held.type)
  /\ \E v \in LowerCast(held.type, t, held.value) : held' = [type |-> t, value |-> v]
  /\ origin' = held'
  /\ verdict' = NoVerdict

(* held < other: the operands are converted to their common type first.  A   *)
(* literal operand is given the other one's type before that                *)
(* (SemaExpr.cpp:289-292), which Expressions models; the only literal here   *)
(* is NULL, and that is the same null pointer either way.                   *)
Compare(t, v) ==
  LET common == Common(held.type, t)
  IN /\ common # NoType
     /\ \E l \in LowerCast(held.type, common, held.value) :
        \E r \in LowerCast(t, common, v) :
          verdict' = [lowered |-> LessThan(common, l, r),
                      meant |-> Answer(Number(held.type, held.value) < Number(t, v))]
     /\ UNCHANGED <<held, origin>>

Next ==
  \/ \E t \in Types : Assign(t)
  \/ \E t \in Types : As(t)
  \/ \E t \in Types : \E v \in Values(t) : Compare(t, v)

Spec == Init /\ [][Next]_vars

-----------------------------------------------------------------------------
(* Properties.                                                              *)

(* "Implicit conversions never lose information": however many of them a     *)
(* value has gone through, it still stands for the same number or address.  *)
ImplicitKeepsValue ==
  Number(held.type, held.value) = Number(origin.type, origin.value)

(* No detour allows a conversion that the rules forbid in one step: not from *)
(* one pointer type to another by way of ANY PTR, not from signed to        *)
(* unsigned by way of a wider type.                                         *)
DetoursAllowNothing == Implicit(held.type, origin.type)

(* A comparison of values of different types, widths and signs that is       *)
(* allowed compares the numbers.                                            *)
ComparesAsNumbers == verdict.lowered = verdict.meant

(* The common type of two operands does not depend on their order, and both *)
(* convert to it.                                                           *)
CommonIsMutual ==
  \A t \in Types :
    LET c == Common(held.type, t)
    IN /\ c = Common(t, held.type)
       /\ c # NoType => Implicit(c, held.type) /\ Implicit(c, t)

(* "const is erased at the LLVM level": a const value compares as the value  *)
(* it qualifies does.                                                       *)
ConstErased == verdict.lowered # "invalid"
=============================================================================
