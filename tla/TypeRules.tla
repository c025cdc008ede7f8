------------------------------ MODULE TypeRules ------------------------------
(***************************************************************************)
(* The types of a program and which conversions between them the type       *)
(* system allows: Type::convertible and Type::common.  Types are compared   *)
(* by address in the code, by equality here, as TypeFactory justifies.      *)
(* (An operator used nowhere is a mutant of the definition that follows.)   *)
(***************************************************************************)
EXTENDS Integers

CONSTANTS
  IntegerBytes,  \* the target's pointer width: 4 or 8
  Pointees,      \* pointee types of the pointers, "ANY" among them
  ConstBases     \* kinds of the const-qualified values (read through a pointer)

ASSUME TypesAssumption ==
  /\ IntegerBytes \in {4, 8}
  /\ "ANY" \in Pointees

-----------------------------------------------------------------------------
(* Types.                                                                   *)

SignedKinds == {"BYTE", "SHORT", "LONG", "INTEGER", "LONGINT"}
UnsignedKinds == {"UBYTE", "USHORT", "ULONG", "UINTEGER", "ULONGINT"}
FloatKinds == {"SINGLE", "DOUBLE"}
IntegralKinds == SignedKinds \cup UnsignedKinds
NumericKinds == IntegralKinds \cup FloatKinds

(* createSingletonTypes: INTEGER and UINTEGER follow the pointer width.      *)
Bytes == [BYTE |-> 1, UBYTE |-> 1, SHORT |-> 2, USHORT |-> 2, LONG |-> 4, ULONG |-> 4,
          INTEGER |-> IntegerBytes, UINTEGER |-> IntegerBytes, LONGINT |-> 8, ULONGINT |-> 8,
          SINGLE |-> 4, DOUBLE |-> 8]

Of(kind) == [kind |-> kind, base |-> ""]
Ptr(base) == [kind |-> "PTR", base |-> base]
Const(base) == [kind |-> "CONST", base |-> base]

Types == {Of(k) : k \in NumericKinds \cup {"BOOL", "ZSTRING", "NULL"}}
         \cup {Ptr(b) : b \in Pointees} \cup {Const(b) : b \in ConstBases}

IsSignedIntegral(t) == t.kind \in SignedKinds
IsIntegral(t) == t.kind \in IntegralKinds
IsFloatingPoint(t) == t.kind \in FloatKinds
IsNumeric(t) == t.kind \in NumericKinds
IsPointer(t) == t.kind = "PTR"
IsAnyPtr(t) == IsPointer(t) /\ t.base = "ANY"
IsNull(t) == t.kind = "NULL"

-----------------------------------------------------------------------------
(* The rules: may `from` be converted to `to`?                              *)

ToIntegralAnySign(to, from) == IsIntegral(from) /\ Bytes[to.kind] > Bytes[from.kind]

ToIntegral(to, from) ==
  /\ IsIntegral(from)
  /\ Bytes[to.kind] > Bytes[from.kind]
  /\ IsSignedIntegral(to) \/ ~IsSignedIntegral(from)

ToFloatingPoint(to, from) == IsFloatingPoint(from) /\ Bytes[to.kind] > Bytes[from.kind]

ToPointerFromAny(to, from) ==
  (IsPointer(from) /\ (IsAnyPtr(to) \/ IsAnyPtr(from))) \/ IsNull(from)

ToPointer(to, from) == (IsAnyPtr(to) /\ IsPointer(from)) \/ IsNull(from)

Implicit(to, from) ==
  \/ to = from
  \/ IsIntegral(to) /\ ToIntegral(to, from)
  \/ IsFloatingPoint(to) /\ ToFloatingPoint(to, from)
  \/ IsPointer(to) /\ ToPointer(to, from)

Cast(to, from) ==
  \/ to = from
  \/ IsNumeric(to) /\ IsNumeric(from)
  \/ IsPointer(to) /\ (IsNull(from) \/ IsPointer(from))

NoType == Of("nullptr")

CommonFirst(a, b) == IF Implicit(a, b) THEN a ELSE b

(* The one of the two types the other converts to, or nullptr.              *)
Common(a, b) ==
  CASE Implicit(a, b) -> a
    [] ~Implicit(a, b) /\ Implicit(b, a) -> b
    [] OTHER -> NoType
=============================================================================
