SPECIFICATION Spec
CONSTANTS
  IntegerBytes = 8
  Pointees = {"ANY", "LONG"}
  ConstBases = {"LONG"}
  Vars <- MCVars
  Functions <- MCFunctions
  Statements <- MCStatements
  Leftovers <- MCLeftovers
INVARIANTS WellTyped KeepsProgram OperandsCommute PlacesDesignate SuggestionsEnd
