SPECIFICATION Spec
CONSTANTS
  Word = 32
  UserTop = 12
  HostPage = 4
  Span = 6
  Ats <- WildAts
  Lens <- WildLens
  Prots <- MCProts
  FirstCap = 2
  MaxRegions = 2
  MinValid = 4
  MaxValid = 16
INVARIANTS
  TypeOK
  ListFits
  HitsCurrent
