\* The link breaks while no request is pending.
SPECIFICATION Spec
CONSTANTS
  MaxHandle = 2
  PageMax = 1
  Present <- MCSmallPresent
  CallId = {c1}
  Asks <- MCSmallAsks
  Listener = {}
  NULL = NULL
  PushKinds = {}
  MaxPushes = 0
INVARIANT SurvivesIdleBreak
CHECK_DEADLOCK FALSE
