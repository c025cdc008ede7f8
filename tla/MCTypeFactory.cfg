SPECIFICATION Spec
CONSTANTS
  Singletons <- MCSingletons
  Builtins = {"LONG"}
  Hash <- MCHash
  MaxTypes = 7
  MaxQualifiers = 2
  MaxParams = 1
INVARIANTS Canonical OneTypePerWriting ReferencesOutermost
CHECK_DEADLOCK FALSE
