SPECIFICATION Spec
CONSTANTS
  Texts <- MCTexts
  MaxDigits = 2
  MaxLength = 5
  MaxComment = 7
INVARIANTS StatementsEndOnce NothingLost LinesAreStatements
PROPERTY Terminates
