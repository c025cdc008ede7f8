CONSTANTS
  SourceFile <- TwoSources
  Objects <- GivenObjects
  TempFiles = {"t1", "t2", "t3"}
  Stems <- OneStem
  ArtifactPath <- MCArtifactPath
  Emits <- NativeEmits
  MaxSources = 1
SPECIFICATION Spec
INVARIANTS DeliversOutput
