SPECIFICATION Spec
CONSTANTS
  CommandLines <- MCCommandLines
  Cwds <- MCCwds
  Hosts <- MCHosts
  Spaced <- MCSpaced
  Fragile <- MCFragile
  Special <- MCSpecial
INVARIANTS EquivalentLine TargetIsAsked PathBases
