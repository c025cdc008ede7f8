SPECIFICATION Spec
CONSTANTS
  IntegerBytes = 8
  ByteValues = 4
  Pointees = {"ANY", "LONG", "BYTE"}
  ConstBases = {"DOUBLE"}
  MaxHalves = 5
INVARIANT ConstErased
