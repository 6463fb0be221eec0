SPECIFICATION TidySpec
CONSTANTS
  Word = 32
  UserTop = 12
  HostPage = 4
  Span = 2
  Ats <- MCAts
  Lens <- MCLens
  Prots <- MCProts
  FirstCap = 2
  MaxRegions = 4
  MinValid = 4
  MaxValid = 16
INVARIANTS
  AccessEnforced
