SPECIFICATION PrinterSpec
CONSTANTS
  Texts <- MCTexts
  Entries = {"expression", "module"}
  MaxLength = 4
INVARIANTS ReadsText PrecedenceHolds TargetsAreAssigned RangesNest ListsDeclare PrintsBack
