CONSTANTS
  Names <- MCNames
  Families <- MCPlaces
SPECIFICATION CompileSpec
INVARIANT TemporariesHoldPointers
