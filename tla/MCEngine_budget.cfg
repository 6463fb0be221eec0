SPECIFICATION FairSpec
CONSTANTS
  f = f
  g = g
  x = x
  y = y
  imp = imp
  gone = gone
  CallbackMagic = CallbackMagic
  ReturnMagic = ReturnMagic
  Wild = Wild
  Code <- TwoFunctions
  Imports <- MCImports
  Missing <- MCMissing
  Values <- MCValues
  Top = 2
  Gap = 1
  TrampCount = 1
  Budget = 4
  MaxBlock = 3
  UseJit = TRUE
  CallsBack = FALSE
  MaxNative = 1
CHECK_DEADLOCK FALSE
INVARIANTS
  BudgetStops
PROPERTIES
  Terminates
