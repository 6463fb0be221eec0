CONSTANTS
  Top = 36
  MaxSegs = 2
  MaxSects = 2
  MaxDylibs = 1
  Stride = 2
  PageCells = 4
  MaxClasses = 4
  TrampCount = 2
  MaxMethods = 2
  MaxIvars = 2
  Images <- MCImages
  Symbols <- MCSymbols
  Selectors <- MCSelectors
  ClassAddr <- MCClassAddr
  MetaAddr <- MCMetaAddr
  NativeNames <- MCNativeNames
  NativeSize <- MCNativeSize
  AnySize = {0, 3}
SPECIFICATION ObjCSpec
INVARIANT SuperclassesReal
CHECK_DEADLOCK FALSE
