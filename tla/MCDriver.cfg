CONSTANTS
  SourceFile <- TwoSources
  Objects <- GivenObjects
  TempFiles = {"t1", "t2", "t3"}
  Stems <- AllStems
  ArtifactPath <- MCArtifactPath
  Emits <- AllEmits
  MaxSources = 2
SPECIFICATION Spec
INVARIANTS NoIntermediatesLeft OutcomeIsTrue
PROPERTIES InputsKept ImplementsOwnership
