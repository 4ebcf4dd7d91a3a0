\* The device also sends notifications and opcodes that answer nothing.
SPECIFICATION Spec
CONSTANTS
  MaxHandle = 2
  PageMax = 1
  Present <- MCSmallPresent
  CallId = {c1, c2}
  Asks <- MCSmallAsks
  Listener = {l1, l2}
  NULL = NULL
  PushKinds = {"NOTIFY", "OTHER"}
  MaxPushes = 2
SYMMETRY Symmetry
INVARIANT PendingIsCurrent
INVARIANT ListBelongsToRequest
INVARIANT OnlyFirstHears
PROPERTY AnswersAreFinal
CHECK_DEADLOCK FALSE
