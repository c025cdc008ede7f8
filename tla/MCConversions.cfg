SPECIFICATION Spec
CONSTANTS
  IntegerBytes = 8
  ByteValues = 4
  Pointees = {"ANY", "LONG", "BYTE"}
  ConstBases = {"LONG"}
  MaxHalves = 5
INVARIANTS ImplicitKeepsValue DetoursAllowNothing ComparesAsNumbers CommonIsMutual
