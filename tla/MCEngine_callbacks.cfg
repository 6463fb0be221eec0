SPECIFICATION Spec
CONSTANTS
  f = f
  g = g
  x = x
  y = y
  imp = imp
  gone = gone
  CallbackMagic = CallbackMagic
  ReturnMagic = ReturnMagic
  Wild = Wild
  Code <- OneFunction
  Imports <- MCImports
  Missing <- MCMissing
  Values <- MCValues
  Top = 7
  Gap = 1
  TrampCount = 2
  Budget = 0
  MaxBlock = 1
  UseJit = FALSE
  CallsBack = TRUE
  MaxNative = 2
SYMMETRY Interchangeable
CHECK_DEADLOCK FALSE
INVARIANTS
  TypeOK
  FaultStopsOuterRun
  NativeUndisturbed
  ReturnsIntact
  MagicMatchesLoop
  PoolSound
