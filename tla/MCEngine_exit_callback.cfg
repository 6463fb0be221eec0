SPECIFICATION Spec
CONSTANTS
  f = f
  g = g
  x = x
  y = y
  imp = imp
  gone = gone
  CallbackMagic = CallbackMagic
  ReturnMagic = ReturnMagic
  Wild = Wild
  Code <- OneFunction
  Imports <- MCImports
  Missing <- MCMissing
  Values <- MCValues
  Top = 8
  Gap = 1
  TrampCount = 1
  Budget = 0
  MaxBlock = 1
  UseJit = FALSE
  CallsBack = TRUE
  MaxNative = 1
CHECK_DEADLOCK FALSE
INVARIANTS
  ExitStops
