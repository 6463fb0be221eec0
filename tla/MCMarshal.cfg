CONSTANTS
  Gp = 3
  Sse = 1
  MaxSlots = 4
  StackRoom = 2
  Functions <- MCFunctions
  Texts <- MCTexts
SPECIFICATION Spec
INVARIANT ForwardedRight
INVARIANT RefusedRight
INVARIANT InString
PROPERTY Ended
CHECK_DEADLOCK FALSE
