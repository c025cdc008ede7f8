CONSTANTS
  Handles = {h1, h2, h3}
  TempFiles = {t1, t2}
  NamedFiles = {n1}
  NoPath = none
SPECIFICATION Spec
INVARIANT ExclusiveOwnership
PROPERTIES NamedFilesStay ImplementsOwnership
